--------------------------- MODULE SpendLedger_proofs ---------------------------
(***************************************************************************)
(* Proofs about SpendLedger, for every set of devices and calls, every     *)
(* price, limit and number of mishaps: its types, that a device never      *)
(* counts less than was billed, that the limit and the earlier pause hold  *)
(* but for devices apart, and that a part refused too often is not read.   *)
(*                                                                         *)
(* The invariant behind them: each task, line and call of a file agree     *)
(* (a hold is on file before its call is sent, a settlement says what was  *)
(* billed, a release what never was); every copy of a file is an earlier   *)
(* state of it; and what the calls let through may come to, `com`, is      *)
(* within the limit.                                                       *)
(***************************************************************************)
EXTENDS SpendLedger, SequenceTheorems, FiniteSetTheorems, WellFoundedInduction, TLAPS

-----------------------------------------------------------------------------
(* The inductive invariant. *)

Types ==
  /\ file \in [Devices -> SUBSET Line]
  /\ view \in [Devices -> [Devices -> SUBSET Line]]
  /\ queue \in [Devices -> Seq(Task)]
  /\ unwritten \in [Devices -> SUBSET Calls]
  /\ call \in [Calls -> Call]
  /\ mishaps \in 0..MaxMishaps
  /\ spent \in [Calls -> Nat]
  /\ apart \subseteq Calls /\ forgotten \subseteq Calls

HoldLine(c) == [kind |-> "hold", call |-> c, usd |-> Hold[c]]
RefusalLine(c) == [kind |-> "refusal", call |-> c, usd |-> 0]

\* Where a call stands while a task of its is queued.
AtOf(do) ==
  CASE do = "hold" -> "waits" [] do = "settle" -> "settles"
    [] do = "release" -> "releases" [] OTHER -> "records"

\* A task of device d agrees with its call and with the file it has written to.
TaskFits(d, t, cl, lines) ==
  /\ On[t.call] = d /\ cl[t.call].at = AtOf(t.do)
  /\ t.at = "admitted" => t.do = "hold"
  /\ t.at = "written" /\ t.do = "hold" => HoldLine(t.call) \in lines
  /\ t.at = "written" /\ t.do = "refusal" => RefusalLine(t.call) \in lines

\* Only the first task has begun, and no two are of one call.
Ordered(q) ==
  \A n \in DOMAIN q :
    /\ q[n].at = "waiting" \/ n = 1
    /\ \A m \in DOMAIN q : q[m].call = q[n].call => m = n

QueueFits(d, q, cl, lines) ==
  Ordered(q) /\ \A n \in DOMAIN q : TaskFits(d, q[n], cl, lines)

Settled == {"settles", "refused", "records", "done"}

\* A line is of a call of the device, whose hold is there too, and says what the call cost.
LineFits(d, l, w, cost, lines) ==
  /\ On[l.call] = d /\ HoldLine(l.call) \in lines
  /\ l.kind = "hold" => l.usd = Hold[l.call]
  /\ l.kind = "settle" => l.usd = cost /\ w.at \in Settled
  /\ l.kind = "release" => cost = 0 /\ w.at \in {"releases", "done"}
  /\ l.kind = "refusal" => l.usd = 0 /\ w.at \in {"records", "done"}

FileFits(d, lines, cl, costs) ==
  \A l \in lines : LineFits(d, l, cl[l.call], costs[l.call], lines)

\* A copy of a file holds no line without the hold of its call.
CopyFits(copy, lines) == copy \subseteq lines /\ \A l \in copy : HoldLine(l.call) \in copy

Held == {"granted", "sent", "settles", "releases", "refused", "records"}
Unsent == {"new", "heldBack", "asks", "waits", "declined", "granted", "releases"}

CallFits(c, w, cost, lines, refusals, lost) ==
  /\ cost \in 0..Hold[c]
  /\ w.at \in Held \/ cost > 0 => HoldLine(c) \in lines
  /\ w.at \in Unsent => cost = 0
  /\ w.at = "sent" => cost = Hold[c]
  /\ w.at = "settles" => w.cost = cost
  /\ w.at \in Unsent \cup {"sent"} => ~w.refused
  /\ c \in Scoped /\ w.at \in {"asks", "waits", "granted", "sent"} => w.before < RefusedLimit
  /\ w.at = "done" /\ w.refused /\ c \notin lost => RefusalLine(c) \in lines \/ c \in refusals

\* A call let through apart has been let through.
ApartFits(c, w, q) ==
  /\ w.at \notin {"new", "asks"}
  /\ \A n \in DOMAIN q : q[n].call = c /\ q[n].do = "hold" => q[n].at # "waiting"

\* A call has been let through and is not yet sent.
Admitted(c, w, q) ==
  \/ w.at = "granted"
  \/ \E n \in DOMAIN q : q[n].call = c /\ q[n].do = "hold" /\ q[n].at \in {"admitted", "written"}

\* What a call may be billed yet, or was billed.
com == [c \in Calls |-> IF Admitted(c, call[c], queue[On[c]]) THEN Hold[c] ELSE spent[c]]

Fits ==
  /\ \A d \in Devices : QueueFits(d, queue[d], call, file[d]) /\ FileFits(d, file[d], call, spent)
  /\ \A d, e \in Devices : CopyFits(view[d][e], file[e])
  /\ \A c \in Calls :
       CallFits(c, call[c], spent[c], file[On[c]], unwritten[On[c]], forgotten)
  /\ \A c \in apart : ApartFits(c, call[c], queue[On[c]])

Budget ==
  /\ SumFunctionOnSet(com, Calls) <= Limit + HeldBy(apart)
  /\ SumFunctionOnSet(com, Scoped) <= Pause + HeldBy(Scoped \cap apart)

IInv == Types /\ Fits /\ Budget

-----------------------------------------------------------------------------
(* Sums over finite sets. *)

LEMMA LessIsWellFounded ==
  \E R : /\ IsWellFoundedOn(R, Nat)
         /\ \A k \in Nat, n \in Nat : <<k, n>> \notin R => ~(k < n)
<1>1. IsWellFoundedOn(OpToRel(<, Nat), Nat)
  BY NatLessThanWellFounded
<1>2. \A k \in Nat, n \in Nat : <<k, n>> \notin OpToRel(<, Nat) => ~(k < n)
  BY DEF OpToRel
<1> QED
  BY <1>1, <1>2, Zenon

LEMMA LeastExists ==
  ASSUME NEW S \in SUBSET Nat, S # {}
  PROVE  \E n \in S : \A k \in S : n <= k
<1>1. PICK R : /\ IsWellFoundedOn(R, Nat)
               /\ \A k \in Nat, n \in Nat : <<k, n>> \notin R => ~(k < n)
  BY LessIsWellFounded
<1>2. \E n \in S : \A k \in S : ~(<<k, n>> \in R)
  BY <1>1, WFMin, Zenon
<1>3. PICK n \in S : \A k \in S : ~(<<k, n>> \in R)
  BY <1>2
<1>4. \A k \in S : n <= k
  <2> TAKE k \in S
  <2>1. k \in Nat /\ n \in Nat
    OBVIOUS
  <2>2. ~(k < n)
    BY <1>1, <1>3, <2>1
  <2> QED
    BY <2>1, <2>2
<1> QED
  BY <1>4

\* Of some subsets of a finite set there is one none is smaller than.
LEMMA SmallestExists ==
  ASSUME NEW S, IsFiniteSet(S), NEW B \in SUBSET (SUBSET S), B # {}
  PROVE  \E s \in B : \A t \in B : Cardinality(s) <= Cardinality(t)
<1> DEFINE N == {n \in Nat : \E s \in B : Cardinality(s) = n}
<1>1. \A s \in B : Cardinality(s) \in Nat
  BY FS_Subset, FS_CardinalityType
<1>2. N # {} /\ N \in SUBSET Nat
  BY <1>1
<1>3. PICK n \in N : \A k \in N : n <= k
  <2> HIDE DEF N
  <2> QED
    BY <1>2, LeastExists
<1>4. PICK s \in B : Cardinality(s) = n
  BY <1>3
<1>5. \A t \in B : Cardinality(s) <= Cardinality(t)
  BY <1>1, <1>3, <1>4
<1> QED
  BY <1>5

\* A sum takes the elements of a set one by one.
Pick(s) == CHOOSE x \in s : TRUE

Adding(v, g, D) == [s \in D |-> IF s = {} THEN 0 ELSE v[Pick(s)] + g[s \ {Pick(s)}]]

LEMMA Picked == \A s : s # {} => Pick(s) \in s
BY DEF Pick

LEMMA SumIs ==
  ASSUME NEW v, NEW S
  PROVE  SumFunctionOnSet(v, S) = (CHOOSE g : g = Adding(v, g, SUBSET S))[S]
BY DEF SumFunctionOnSet, FoldFunctionOnSet, MapThenFoldSet, Adding, Pick

Sized(S, n) == {s \in SUBSET S : Cardinality(s) <= n}

LEMMA Smaller ==
  ASSUME NEW S, IsFiniteSet(S), NEW s \in SUBSET S, s # {}
  PROVE  /\ Cardinality(s) \in Nat \ {0} /\ s \ {Pick(s)} \in SUBSET S
         /\ Cardinality(s \ {Pick(s)}) = Cardinality(s) - 1
<1>1. IsFiniteSet(s) /\ Pick(s) \in s
  BY FS_Subset, Picked
<1>2. Cardinality(s) \in Nat /\ Cardinality(s) # 0
  BY <1>1, FS_EmptySet, FS_CardinalityType
<1>3. Cardinality(s \ {Pick(s)}) = Cardinality(s) - 1
  BY <1>1, FS_RemoveElement
<1> QED
  BY <1>2, <1>3

LEMMA AddingExists ==
  ASSUME NEW v, NEW S, IsFiniteSet(S)
  PROVE  \E g : g = Adding(v, g, SUBSET S)
<1> DEFINE N == {n \in Nat : ~\E g : g = Adding(v, g, Sized(S, n))}
<1>1. \A s \in SUBSET S : /\ IsFiniteSet(s) /\ Cardinality(s) \in Nat
                         /\ Cardinality(s) <= Cardinality(S)
  BY FS_Subset, FS_CardinalityType
<1>2. 0 \notin N
  <2> DEFINE g == [s \in Sized(S, 0) |-> 0]
  <2>1. \A s \in Sized(S, 0) : s = {}
    BY <1>1, FS_EmptySet DEF Sized
  <2>2. g = Adding(v, g, Sized(S, 0))
    BY <2>1 DEF Adding
  <2> QED
    BY <2>2
<1>3. ASSUME NEW n \in Nat, n # 0, n - 1 \notin N
      PROVE  n \notin N
  <2>1. PICK g : g = Adding(v, g, Sized(S, n - 1))
    BY <1>3
  <2> DEFINE h == Adding(v, g, Sized(S, n))
  <2>2. ASSUME NEW s \in Sized(S, n), s # {}
        PROVE  h[s \ {Pick(s)}] = g[s \ {Pick(s)}]
    <3>1. /\ Cardinality(s) \in Nat \ {0} /\ s \ {Pick(s)} \in SUBSET S
          /\ Cardinality(s \ {Pick(s)}) = Cardinality(s) - 1
      BY <2>2, Smaller DEF Sized
    <3>2. PICK r : r = s \ {Pick(s)}
      OBVIOUS
    <3>3. r \in Sized(S, n - 1) /\ r \in Sized(S, n)
      BY <1>3, <3>1, <3>2 DEF Sized
    <3>4. h[r] = IF r = {} THEN 0 ELSE v[Pick(r)] + g[r \ {Pick(r)}]
      BY <3>3 DEF Adding
    <3>5. g[r] = IF r = {} THEN 0 ELSE v[Pick(r)] + g[r \ {Pick(r)}]
      BY <2>1, <3>3 DEF Adding
    <3> QED
      BY <3>2, <3>4, <3>5
  <2>3. h = [s \in Sized(S, n) |-> IF s = {} THEN 0 ELSE v[Pick(s)] + g[s \ {Pick(s)}]]
    BY DEF Adding
  <2>4. h = [s \in Sized(S, n) |-> IF s = {} THEN 0 ELSE v[Pick(s)] + h[s \ {Pick(s)}]]
    <3> HIDE DEF h
    <3> QED
      BY <2>2, <2>3
  <2>5. h = Adding(v, h, Sized(S, n))
    <3> HIDE DEF h
    <3> QED
      BY <2>4 DEF Adding
  <2> QED
    BY <2>5
<1>4. N = {}
  <2> SUFFICES ASSUME N # {} PROVE FALSE
    OBVIOUS
  <2>1. PICK n \in N : \A k \in N : n <= k
    <3>1. N \in SUBSET Nat
      OBVIOUS
    <3> HIDE DEF N
    <3> QED
      BY <3>1, LeastExists
  <2>2. n \in Nat /\ n # 0
    BY <1>2, <2>1
  <2>3. n - 1 \notin N
    <3>1. \A k \in N : n <= k
      BY <2>1
    <3> HIDE DEF N
    <3> QED
      BY <2>2, <3>1
  <2>4. n \notin N
    <3> HIDE DEF N
    <3> QED
      BY <1>3, <2>2, <2>3
  <2> QED
    BY <2>1, <2>4
<1>5. Cardinality(S) \in Nat /\ Sized(S, Cardinality(S)) = SUBSET S
  BY <1>1, FS_CardinalityType DEF Sized
<1>6. Cardinality(S) \notin N
  <2> HIDE DEF N
  <2> QED
    BY <1>4
<1>7. \E g : g = Adding(v, g, Sized(S, Cardinality(S)))
  BY <1>5, <1>6
<1> QED
  BY <1>5, <1>7

AddsUp(v, g, S) == g = Adding(v, g, SUBSET S)

LEMMA SumAdds ==
  ASSUME NEW v, NEW S, IsFiniteSet(S)
  PROVE  \E g : AddsUp(v, g, S) /\ SumFunctionOnSet(v, S) = g[S]
<1> DEFINE G == CHOOSE g : g = Adding(v, g, SUBSET S)
<1>1. G = Adding(v, G, SUBSET S)
  BY AddingExists
<1>2. SumFunctionOnSet(v, S) = G[S]
  BY SumIs
<1> QED
  BY <1>1, <1>2 DEF AddsUp

LEMMA AddingAgrees ==
  ASSUME NEW v, NEW S, IsFiniteSet(S), NEW T \in SUBSET S,
         NEW g, AddsUp(v, g, S), NEW h, AddsUp(v, h, T)
  PROVE  g[T] = h[T]
<1> DEFINE B == {s \in SUBSET T : g[s] # h[s]}
<1>1. ASSUME B # {} PROVE FALSE
  <2>1. IsFiniteSet(T) /\ B \in SUBSET (SUBSET T)
    BY FS_Subset
  <2>2. PICK s \in B : \A t \in B : Cardinality(s) <= Cardinality(t)
    <3> HIDE DEF B
    <3> QED
      BY <1>1, <2>1, SmallestExists
  <2>3. s \in SUBSET T /\ s \in SUBSET S /\ g[s] # h[s]
    BY <2>2
  <2>4. g[s] = IF s = {} THEN 0 ELSE v[Pick(s)] + g[s \ {Pick(s)}]
    BY <2>3 DEF AddsUp, Adding
  <2>5. h[s] = IF s = {} THEN 0 ELSE v[Pick(s)] + h[s \ {Pick(s)}]
    BY <2>3 DEF AddsUp, Adding
  <2>6. s # {}
    BY <2>3, <2>4, <2>5
  <2>7. /\ Cardinality(s) \in Nat /\ s \ {Pick(s)} \in SUBSET T
        /\ Cardinality(s \ {Pick(s)}) = Cardinality(s) - 1
    BY <2>1, <2>3, <2>6, Smaller
  <2>8. PICK r : r = s \ {Pick(s)}
    OBVIOUS
  <2>9. r \notin B
    <3> HIDE DEF B
    <3> QED
      BY <2>2, <2>7, <2>8
  <2>10. g[r] = h[r]
    BY <2>7, <2>8, <2>9
  <2> QED
    BY <2>3, <2>4, <2>5, <2>6, <2>8, <2>10
<1> QED
  BY <1>1

\* One element after the other.
LEMMA SumSteps ==
  ASSUME NEW v, NEW S, IsFiniteSet(S)
  PROVE  /\ S = {} => SumFunctionOnSet(v, S) = 0
         /\ S # {} => SumFunctionOnSet(v, S) = v[Pick(S)] + SumFunctionOnSet(v, S \ {Pick(S)})
<1>1. PICK g : AddsUp(v, g, S) /\ SumFunctionOnSet(v, S) = g[S]
  BY SumAdds
<1>2. g[S] = IF S = {} THEN 0 ELSE v[Pick(S)] + g[S \ {Pick(S)}]
  BY <1>1 DEF AddsUp, Adding
<1>3. ASSUME S # {} PROVE g[S \ {Pick(S)}] = SumFunctionOnSet(v, S \ {Pick(S)})
  <2>1. PICK T : T = S \ {Pick(S)}
    OBVIOUS
  <2>2. T \in SUBSET S /\ IsFiniteSet(T)
    BY <2>1, FS_Subset
  <2>3. PICK h : AddsUp(v, h, T) /\ SumFunctionOnSet(v, T) = h[T]
    BY <2>2, SumAdds
  <2>4. g[T] = h[T]
    BY <1>1, <2>2, <2>3, AddingAgrees
  <2> QED
    BY <2>1, <2>3, <2>4
<1> QED
  BY <1>1, <1>2, <1>3

LEMMA SumIsNatural ==
  ASSUME NEW v, NEW S, IsFiniteSet(S), \A x \in S : v[x] \in Nat
  PROVE  SumFunctionOnSet(v, S) \in Nat
<1> DEFINE B == {s \in SUBSET S : SumFunctionOnSet(v, s) \notin Nat}
<1>1. ASSUME B # {} PROVE FALSE
  <2>1. PICK s \in B : \A t \in B : Cardinality(s) <= Cardinality(t)
    <3>1. B \in SUBSET (SUBSET S)
      OBVIOUS
    <3> HIDE DEF B
    <3> QED
      BY <1>1, <3>1, SmallestExists
  <2>2. s \in SUBSET S /\ SumFunctionOnSet(v, s) \notin Nat /\ IsFiniteSet(s)
    BY <2>1, FS_Subset
  <2>3. ASSUME s = {} PROVE FALSE
    <3>1. SumFunctionOnSet(v, s) = 0
      BY <2>2, <2>3, SumSteps
    <3> QED
      BY <2>2, <3>1
  <2>4. /\ Cardinality(s) \in Nat /\ s \ {Pick(s)} \in SUBSET S /\ Pick(s) \in S
        /\ Cardinality(s \ {Pick(s)}) = Cardinality(s) - 1
    BY <2>2, <2>3, Smaller, Picked
  <2>5. PICK r : r = s \ {Pick(s)}
    OBVIOUS
  <2>6. r \notin B
    <3> HIDE DEF B
    <3> QED
      BY <2>1, <2>4, <2>5
  <2>7. SumFunctionOnSet(v, r) \in Nat
    BY <2>4, <2>5, <2>6
  <2>8. SumFunctionOnSet(v, s) = v[Pick(s)] + SumFunctionOnSet(v, r)
    BY <2>2, <2>3, <2>5, SumSteps
  <2> QED
    BY <2>2, <2>4, <2>7, <2>8
<1> QED
  BY <1>1

\* In whatever order.
LEMMA SumTakes ==
  ASSUME NEW v, NEW S, IsFiniteSet(S), \A y \in S : v[y] \in Nat, NEW x \in S
  PROVE  SumFunctionOnSet(v, S) = v[x] + SumFunctionOnSet(v, S \ {x})
<1> DEFINE B == {s \in SUBSET S :
                  \E y \in s : SumFunctionOnSet(v, s) # v[y] + SumFunctionOnSet(v, s \ {y})}
<1>1. ASSUME B # {} PROVE FALSE
  <2>1. PICK s \in B : \A t \in B : Cardinality(s) <= Cardinality(t)
    <3>1. B \in SUBSET (SUBSET S)
      OBVIOUS
    <3> HIDE DEF B
    <3> QED
      BY <1>1, <3>1, SmallestExists
  <2>2. PICK y \in s : SumFunctionOnSet(v, s) # v[y] + SumFunctionOnSet(v, s \ {y})
    BY <2>1
  <2>3. s \in SUBSET S /\ IsFiniteSet(s)
    BY <2>1, FS_Subset
  <2>4. PICK p : p = Pick(s)
    OBVIOUS
  <2>5. /\ p \in s /\ Cardinality(s) \in Nat
        /\ SumFunctionOnSet(v, s) = v[p] + SumFunctionOnSet(v, s \ {p})
    BY <2>2, <2>3, <2>4, Smaller, Picked, SumSteps
  <2>6. p # y
    BY <2>2, <2>5
  <2>7. ASSUME NEW q \in s, NEW z \in s \ {q}
        PROVE  SumFunctionOnSet(v, s \ {q}) = v[z] + SumFunctionOnSet(v, (s \ {q}) \ {z})
    <3>1. PICK r : r = s \ {q}
      OBVIOUS
    <3>2. Cardinality(r) = Cardinality(s) - 1
      BY <2>3, <3>1, FS_RemoveElement
    <3>3. r \in SUBSET S /\ r \notin B
      <4> HIDE DEF B
      <4> QED
        BY <2>1, <2>3, <2>5, <3>1, <3>2
    <3> QED
      BY <3>1, <3>3
  <2>8. SumFunctionOnSet(v, s \ {p}) = v[y] + SumFunctionOnSet(v, (s \ {p}) \ {y})
    BY <2>5, <2>6, <2>7
  <2>9. SumFunctionOnSet(v, s \ {y}) = v[p] + SumFunctionOnSet(v, (s \ {y}) \ {p})
    BY <2>5, <2>6, <2>7
  <2>10. PICK r : r = (s \ {p}) \ {y} /\ r = (s \ {y}) \ {p}
    OBVIOUS
  <2>11. v[p] \in Nat /\ v[y] \in Nat /\ SumFunctionOnSet(v, r) \in Nat
    <3>1. r \in SUBSET S /\ IsFiniteSet(r)
      BY <2>3, <2>10, FS_Subset
    <3> QED
      BY <2>3, <2>5, <3>1, SumIsNatural
  <2>12. /\ SumFunctionOnSet(v, s \ {p}) = v[y] + SumFunctionOnSet(v, r)
         /\ SumFunctionOnSet(v, s \ {y}) = v[p] + SumFunctionOnSet(v, r)
    BY <2>8, <2>9, <2>10
  <2>13. SumFunctionOnSet(v, s) = v[y] + (v[p] + SumFunctionOnSet(v, r))
    BY <2>5, <2>11, <2>12
  <2> QED
    BY <2>2, <2>12, <2>13
<1>2. S \notin B
  BY <1>1
<1> QED
  BY <1>2

\* A sum of fewer and smaller elements is no greater.
LEMMA SumGrows ==
  ASSUME NEW v, NEW w, NEW T, IsFiniteSet(T), NEW S \in SUBSET T,
         \A x \in T : w[x] \in Nat, \A x \in S : v[x] \in Nat /\ v[x] <= w[x]
  PROVE  SumFunctionOnSet(v, S) <= SumFunctionOnSet(w, T)
<1> DEFINE B == {t \in SUBSET T : ~(SumFunctionOnSet(v, S \cap t) <= SumFunctionOnSet(w, t))}
<1>1. ASSUME B # {} PROVE FALSE
  <2>1. PICK t \in B : \A u \in B : Cardinality(t) <= Cardinality(u)
    <3>1. B \in SUBSET (SUBSET T)
      OBVIOUS
    <3> HIDE DEF B
    <3> QED
      BY <1>1, <3>1, SmallestExists
  <2>2. /\ t \in SUBSET T /\ IsFiniteSet(t)
        /\ ~(SumFunctionOnSet(v, S \cap t) <= SumFunctionOnSet(w, t))
    BY <2>1, FS_Subset
  <2>3. PICK s : s = S \cap t
    OBVIOUS
  <2>4. s \in SUBSET S /\ s \in SUBSET T /\ IsFiniteSet(s)
    BY <2>3, FS_Subset
  <2>5. t # {}
    <3>1. SumFunctionOnSet(v, {}) = 0 /\ SumFunctionOnSet(w, {}) = 0
      BY FS_EmptySet, SumSteps
    <3> SUFFICES ASSUME t = {} PROVE FALSE
      OBVIOUS
    <3>2. S \cap t = {}
      OBVIOUS
    <3>3. SumFunctionOnSet(v, S \cap t) <= SumFunctionOnSet(w, t)
      BY <3>1, <3>2
    <3> QED
      BY <2>2, <3>3
  <2>6. PICK p : p = Pick(t)
    OBVIOUS
  <2>7. PICK u : u = t \ {p}
    OBVIOUS
  <2>8. /\ p \in t /\ u \in SUBSET T /\ Cardinality(t) \in Nat
        /\ Cardinality(u) = Cardinality(t) - 1
        /\ SumFunctionOnSet(w, t) = w[p] + SumFunctionOnSet(w, u)
    BY <2>2, <2>5, <2>6, <2>7, Smaller, Picked, SumSteps
  <2>9. u \notin B
    <3> HIDE DEF B
    <3> QED
      BY <2>1, <2>8
  <2>10. SumFunctionOnSet(v, S \cap u) <= SumFunctionOnSet(w, u)
    BY <2>8, <2>9
  <2>11. /\ SumFunctionOnSet(w, u) \in Nat /\ w[p] \in Nat
         /\ SumFunctionOnSet(v, S \cap u) \in Nat
    <3>1. IsFiniteSet(u) /\ IsFiniteSet(S \cap u) /\ S \cap u \in SUBSET S
      BY <2>8, FS_Subset
    <3> QED
      BY <2>2, <2>8, <3>1, SumIsNatural
  <2>12. CASE p \in S
    <3>1. SumFunctionOnSet(v, s) = v[p] + SumFunctionOnSet(v, s \ {p})
      BY <2>3, <2>4, <2>8, <2>12, SumTakes
    <3>2. s \ {p} = S \cap u
      BY <2>3, <2>7
    <3>3. v[p] \in Nat /\ v[p] <= w[p]
      BY <2>12
    <3> QED
      BY <2>2, <2>3, <2>8, <2>10, <2>11, <3>1, <3>2, <3>3
  <2>13. CASE p \notin S
    <3>1. S \cap t = S \cap u
      BY <2>7, <2>13
    <3>2. SumFunctionOnSet(v, S \cap t) <= SumFunctionOnSet(w, u)
      BY <2>10, <3>1
    <3>3. SumFunctionOnSet(v, S \cap t) \in Nat
      BY <2>11, <3>1
    <3> QED
      BY <2>2, <2>8, <2>11, <3>2, <3>3
  <2> QED
    BY <2>12, <2>13
<1>2. T \notin B
  BY <1>1
<1>3. S \cap T = S
  OBVIOUS
<1> QED
  BY <1>2, <1>3

\* What changes at one element.
LEMMA SumChanges ==
  ASSUME NEW v, NEW w, NEW S, IsFiniteSet(S), \A x \in S : v[x] \in Nat /\ w[x] \in Nat,
         NEW c \in S, \A x \in S : x # c => w[x] <= v[x]
  PROVE  SumFunctionOnSet(w, S) <= w[c] + SumFunctionOnSet(v, S \ {c})
<1>1. PICK R : R = S \ {c}
  OBVIOUS
<1>2. R \in SUBSET R /\ IsFiniteSet(R) /\ R \in SUBSET S
  BY <1>1, FS_Subset
<1>3. SumFunctionOnSet(w, R) <= SumFunctionOnSet(v, R)
  BY <1>1, <1>2, SumGrows
<1>4. SumFunctionOnSet(w, S) = w[c] + SumFunctionOnSet(w, R)
  BY <1>1, SumTakes
<1>5. SumFunctionOnSet(w, R) \in Nat /\ SumFunctionOnSet(v, R) \in Nat
  BY <1>2, SumIsNatural
<1> QED
  BY <1>1, <1>3, <1>4, <1>5

-----------------------------------------------------------------------------
(* Constants, queues. *)

LEMMA Constants ==
  /\ IsFiniteSet(Calls) /\ Scoped \subseteq Calls
  /\ \A c \in Calls : On[c] \in Devices /\ Hold[c] \in Nat \ {0}
  /\ Reported \subseteq Nat
  /\ Limit \in Nat /\ Pause \in Nat /\ RefusedLimit \in Nat /\ MaxMishaps \in Nat /\ Pause <= Limit
BY Assumption

LEMMA FiniteCalls ==
  /\ \A S \in SUBSET Calls : IsFiniteSet(S) /\ Cardinality(S) \in 0..Cardinality(Calls)
  /\ Cardinality(Calls) \in Nat
BY Constants, FS_Subset, FS_CardinalityType

\* The first task goes.
LEMMA Headless ==
  ASSUME NEW R, NEW q \in Seq(R), 1 \in DOMAIN q
  PROVE  /\ RemoveAt(q, 1) \in Seq(R)
         /\ \A n \in DOMAIN RemoveAt(q, 1) :
              n + 1 \in DOMAIN q /\ n \in Nat \ {0} /\ RemoveAt(q, 1)[n] = q[n + 1]
<1>1. RemoveAt(q, 1) = SubSeq(q, 1, 0) \o SubSeq(q, 2, Len(q))
  BY DEF RemoveAt
<1>2. Len(q) \in Nat \ {0} /\ DOMAIN q = 1..Len(q) /\ \A n \in 1..Len(q) : q[n] \in R
  BY EmptySeq
<1>3. SubSeq(q, 1, 0) = <<>>
  BY <1>2
<1>4. /\ SubSeq(q, 2, Len(q)) \in Seq(R)
      /\ Len(SubSeq(q, 2, Len(q))) = Len(q) - 1
      /\ \A n \in 1..(Len(q) - 1) : SubSeq(q, 2, Len(q))[n] = q[n + 1]
  BY <1>2
<1>5. RemoveAt(q, 1) = SubSeq(q, 2, Len(q))
  BY <1>1, <1>3, <1>4
<1>6. PICK p : p = SubSeq(q, 2, Len(q))
  OBVIOUS
<1>7. p \in Seq(R) /\ DOMAIN p = 1..(Len(q) - 1) /\ \A n \in 1..(Len(q) - 1) : p[n] = q[n + 1]
  BY <1>2, <1>4, <1>6
<1>8. \A n \in 1..(Len(q) - 1) : n + 1 \in 1..Len(q) /\ n \in Nat \ {0}
  BY <1>2
<1> QED
  BY <1>2, <1>5, <1>6, <1>7, <1>8

\* A task comes.
LEMMA Lengthened ==
  ASSUME NEW R, NEW q \in Seq(R), NEW t \in R
  PROVE  /\ Append(q, t) \in Seq(R)
         /\ \A n \in DOMAIN Append(q, t) :
              \/ n \in DOMAIN q /\ Append(q, t)[n] = q[n]
              \/ n = Len(q) + 1 /\ n \notin DOMAIN q /\ Append(q, t)[n] = t
         /\ \A n \in DOMAIN q : n \in DOMAIN Append(q, t)
<1>1. /\ Append(q, t) \in Seq(R) /\ Len(Append(q, t)) = Len(q) + 1 /\ Len(q) \in Nat
      /\ DOMAIN q = 1..Len(q) /\ DOMAIN Append(q, t) = 1..(Len(q) + 1)
  OBVIOUS
<1>2. /\ \A n \in 1..Len(q) : Append(q, t)[n] = q[n]
      /\ Append(q, t)[Len(q) + 1] = t
  OBVIOUS
<1> QED
  BY <1>1, <1>2

\* The first task goes on.
LEMMA Restated ==
  ASSUME NEW q \in Seq(Task), 1 \in DOMAIN q,
         NEW a \in {"waiting", "admitted", "written", "dropped"}
  PROVE  /\ [q EXCEPT ![1].at = a] \in Seq(Task)
         /\ DOMAIN [q EXCEPT ![1].at = a] = DOMAIN q
         /\ \A n \in DOMAIN q :
              [q EXCEPT ![1].at = a][n] = IF n = 1 THEN [q[1] EXCEPT !.at = a] ELSE q[n]
<1>1. q[1] \in Task
  OBVIOUS
<1>2. [q[1] EXCEPT !.at = a] \in Task
  BY <1>1 DEF Task
<1>3. [q EXCEPT ![1].at = a] = [q EXCEPT ![1] = [q[1] EXCEPT !.at = a]]
  OBVIOUS
<1>4. PICK t \in Task : t = [q[1] EXCEPT !.at = a]
  BY <1>2
<1>5. [q EXCEPT ![1] = t] \in Seq(Task)
  OBVIOUS
<1> QED
  BY <1>3, <1>4, <1>5

LEMMA TaskFields ==
  \A t \in Task : /\ t.do \in {"hold", "settle", "release", "refusal"} /\ t.call \in Calls
                  /\ t.at \in {"waiting", "admitted", "written", "dropped"}
BY DEF Task

Tasked == {"waits", "settles", "releases", "records"}

LEMMA AtOfs ==
  /\ \A do : AtOf(do) \in Tasked
  /\ AtOf("hold") = "waits" /\ AtOf("settle") = "settles" /\ AtOf("release") = "releases"
  /\ AtOf("refusal") = "records"
BY DEF AtOf, Tasked

\* A call without a task goes on.
LEMMA OthersTasks ==
  ASSUME NEW d, NEW q \in Seq(Task), NEW cl, NEW cl2, NEW lines, QueueFits(d, q, cl, lines),
         NEW c, cl[c].at \notin Tasked, \A k \in Calls : k # c => cl2[k] = cl[k]
  PROVE  QueueFits(d, q, cl2, lines) /\ \A n \in DOMAIN q : q[n].call # c
<1>1. \A n \in DOMAIN q : q[n] \in Task
  OBVIOUS
<1>2. \A n \in DOMAIN q : q[n].call # c /\ q[n].call \in Calls
  BY <1>1, AtOfs, TaskFields DEF QueueFits, TaskFits
<1> QED
  BY <1>2 DEF QueueFits, TaskFits

LEMMA Enqueued ==
  ASSUME NEW d, NEW q \in Seq(Task), NEW cl, NEW lines, QueueFits(d, q, cl, lines),
         NEW t \in Task, t.at = "waiting", On[t.call] = d, cl[t.call].at = AtOf(t.do),
         \A n \in DOMAIN q : q[n].call # t.call
  PROVE  QueueFits(d, Append(q, t), cl, lines)
<1>1. PICK p \in Seq(Task) :
         /\ p = Append(q, t)
         /\ \A n \in DOMAIN p :
              \/ n \in DOMAIN q /\ p[n] = q[n]
              \/ n = Len(q) + 1 /\ n \notin DOMAIN q /\ p[n] = t
         /\ \A n \in DOMAIN q : n \in DOMAIN p
  BY Lengthened
<1>2. Ordered(p)
  BY <1>1 DEF Ordered, QueueFits
<1>3. TaskFits(d, t, cl, lines)
  BY DEF TaskFits
<1>4. \A n \in DOMAIN p : TaskFits(d, p[n], cl, lines)
  BY <1>1, <1>3 DEF QueueFits
<1> QED
  BY <1>1, <1>2, <1>4 DEF QueueFits

LEMMA Dequeued ==
  ASSUME NEW d, NEW q \in Seq(Task), NEW cl, NEW cl2, NEW lines, QueueFits(d, q, cl, lines),
         1 \in DOMAIN q, \A k \in Calls : k # q[1].call => cl2[k] = cl[k]
  PROVE  /\ QueueFits(d, RemoveAt(q, 1), cl2, lines)
         /\ \A n \in DOMAIN RemoveAt(q, 1) : RemoveAt(q, 1)[n].call # q[1].call
<1>1. PICK p \in Seq(Task) :
         /\ p = RemoveAt(q, 1)
         /\ \A n \in DOMAIN p : n + 1 \in DOMAIN q /\ n \in Nat \ {0} /\ p[n] = q[n + 1]
  BY Headless
<1>2. \A n \in DOMAIN p : /\ p[n] \in Task /\ p[n].call \in Calls
                          /\ p[n].call # q[1].call
                          /\ p[n].at = "waiting"
  <2> TAKE n \in DOMAIN p
  <2>1. p[n] \in Task /\ p[n].call \in Calls
    BY TaskFields
  <2>2. n + 1 # 1 /\ n + 1 \in DOMAIN q /\ p[n] = q[n + 1]
    BY <1>1
  <2> QED
    BY <2>1, <2>2 DEF QueueFits, Ordered
<1>3. Ordered(p)
  <2>1. ASSUME NEW n \in DOMAIN p, NEW m \in DOMAIN p, p[m].call = p[n].call PROVE m = n
    <3>1. /\ n + 1 \in DOMAIN q /\ m + 1 \in DOMAIN q /\ n \in Nat /\ m \in Nat
          /\ p[m] = q[m + 1] /\ p[n] = q[n + 1]
      BY <1>1
    <3>2. m + 1 = n + 1
      BY <2>1, <3>1 DEF QueueFits, Ordered
    <3> QED
      BY <3>1, <3>2
  <2> QED
    BY <1>2, <2>1 DEF Ordered
<1>4. \A n \in DOMAIN p : TaskFits(d, p[n], cl2, lines)
  <2> TAKE n \in DOMAIN p
  <2>1. TaskFits(d, p[n], cl, lines)
    BY <1>1 DEF QueueFits
  <2>2. cl2[p[n].call] = cl[p[n].call]
    BY <1>2
  <2> QED
    BY <2>1, <2>2 DEF TaskFits
<1> QED
  BY <1>1, <1>2, <1>3, <1>4 DEF QueueFits

\* The first task goes on, the file having what it says it wrote.
LEMMA Continued ==
  ASSUME NEW d, NEW q \in Seq(Task), NEW cl, NEW lines, NEW lines2, QueueFits(d, q, cl, lines),
         1 \in DOMAIN q, NEW a \in {"waiting", "admitted", "written", "dropped"},
         lines \subseteq lines2,
         a = "admitted" => q[1].do = "hold",
         a = "written" /\ q[1].do = "hold" => HoldLine(q[1].call) \in lines2,
         a = "written" /\ q[1].do = "refusal" => RefusalLine(q[1].call) \in lines2
  PROVE  QueueFits(d, [q EXCEPT ![1].at = a], cl, lines2)
<1>1. PICK p \in Seq(Task) :
         /\ p = [q EXCEPT ![1].at = a] /\ DOMAIN p = DOMAIN q
         /\ \A n \in DOMAIN q : p[n] = IF n = 1 THEN [q[1] EXCEPT !.at = a] ELSE q[n]
  BY Restated
<1>2. p[1].at = a /\ p[1].do = q[1].do /\ p[1].call = q[1].call
  <2>1. q[1] \in Task
    OBVIOUS
  <2> QED
    BY <1>1, <2>1 DEF Task
<1>3. \A n \in DOMAIN q : p[n].call = q[n].call /\ (n # 1 => p[n] = q[n])
  BY <1>1, <1>2
<1>4. Ordered(p)
  BY <1>1, <1>3 DEF Ordered, QueueFits
<1>5. TaskFits(d, p[1], cl, lines2)
  BY <1>2 DEF QueueFits, TaskFits
<1>6. \A n \in DOMAIN p : TaskFits(d, p[n], cl, lines2)
  BY <1>1, <1>3, <1>5 DEF QueueFits, TaskFits
<1> QED
  BY <1>1, <1>4, <1>6 DEF QueueFits

-----------------------------------------------------------------------------
(* Files, and what their lines count for. *)

LEMMA LineFields ==
  \A l \in Line : /\ l.kind \in {"hold", "settle", "release", "refusal"} /\ l.call \in Calls
                  /\ l.usd \in Nat
BY DEF Line

\* Where a call has no line but the hold.
Early == {"new", "asks", "waits", "granted", "sent"}

\* A call goes on from one state to another without unsaying what its lines say.
Advances(from, to) ==
  /\ from \in Settled => to \in Settled
  /\ from \in {"releases", "done"} => to \in {"releases", "done"}
  /\ from \in {"records", "done"} => to \in {"records", "done"}

LEMMA FileKept ==
  ASSUME NEW d, NEW lines \in SUBSET Line, NEW cl, NEW cl2, NEW costs, NEW costs2,
         FileFits(d, lines, cl, costs), NEW c,
         \A k \in Calls : k # c => cl2[k] = cl[k] /\ costs2[k] = costs[k],
         \/ cl[c].at \in Early
         \/ costs2[c] = costs[c] /\ Advances(cl[c].at, cl2[c].at)
  PROVE  FileFits(d, lines, cl2, costs2)
<1>1. ASSUME NEW l \in lines
      PROVE  LineFits(d, l, cl2[l.call], costs2[l.call], lines)
  <2>1. l.call \in Calls /\ LineFits(d, l, cl[l.call], costs[l.call], lines)
    BY LineFields DEF FileFits
  <2>2. CASE l.call # c
    BY <2>1, <2>2
  <2>3. CASE l.call = c /\ cl[c].at \in Early
    <3>1. l.kind \notin {"settle", "release", "refusal"}
      BY <2>1, <2>3 DEF LineFits, Early, Settled
    <3> QED
      BY <2>1, <3>1 DEF LineFits
  <2>4. CASE l.call = c /\ costs2[c] = costs[c] /\ Advances(cl[c].at, cl2[c].at)
    <3>1. /\ cl[c].at \in Settled => cl2[c].at \in Settled
          /\ cl[c].at \in {"releases", "done"} => cl2[c].at \in {"releases", "done"}
          /\ cl[c].at \in {"records", "done"} => cl2[c].at \in {"records", "done"}
      BY <2>4 DEF Advances
    <3> QED
      BY <2>1, <2>4, <3>1 DEF LineFits
  <2> QED
    BY <2>2, <2>3, <2>4
<1> QED
  BY <1>1 DEF FileFits

LEMMA MaxOfOne ==
  ASSUME NEW n \in Nat
  PROVE  Max({n}) = n
BY DEF Max

\* The lines of call c among those device d can see.
LEMMA LinesSeen ==
  ASSUME Types, Fits, NEW d \in Devices, NEW c \in Calls
  PROVE  \E lines \in SUBSET file[On[c]] :
           /\ \A l : l \in lines => HoldLine(l.call) \in lines
           /\ \A l : l.call = c => (l \in Known(d) <=> l \in lines)
           /\ On[c] = d => lines = file[d]
<1>1. On[c] \in Devices
  BY Constants
<1>2. \A e \in Devices : /\ \A l \in file[e] : On[l.call] = e /\ HoldLine(l.call) \in file[e]
                         /\ view[d][e] \subseteq file[e]
                         /\ \A l \in view[d][e] : HoldLine(l.call) \in view[d][e]
  BY DEF Fits, FileFits, LineFits, CopyFits
<1>3. PICK lines : lines = IF On[c] = d THEN file[d] ELSE view[d][On[c]]
  OBVIOUS
<1>4. lines \in SUBSET file[On[c]] /\ \A l : l \in lines => HoldLine(l.call) \in lines
  BY <1>1, <1>2, <1>3
<1>5. ASSUME NEW l, l.call = c
      PROVE  l \in Known(d) <=> l \in lines
  <2>1. l \in Known(d) <=> \E e \in Devices : l \in IF e = d THEN file[d] ELSE view[d][e]
    BY DEF Known
  <2>2. \A e \in Devices : l \in (IF e = d THEN file[d] ELSE view[d][e]) => e = On[c]
    BY <1>2, <1>5
  <2> QED
    BY <1>1, <1>3, <2>1, <2>2
<1> QED
  BY <1>3, <1>4, <1>5

\* What a device reads of a call whose hold it sees is what the call may be billed, or more.
LEMMA ValueCovers ==
  ASSUME Types, Fits, NEW d \in Devices, NEW c \in Calls
  PROVE  /\ Value(c, Known(d)) \in Nat
         /\ HoldLine(c) \in Known(d) =>
              spent[c] <= Value(c, Known(d)) /\ com[c] <= Value(c, Known(d))
         /\ \A l \in Known(d) : l.call = c => HoldLine(c) \in Known(d)
<1>1. PICK lines \in SUBSET file[On[c]] :
         /\ \A l : l \in lines => HoldLine(l.call) \in lines
         /\ \A l : l.call = c => (l \in Known(d) <=> l \in lines)
  BY LinesSeen
<1>2. /\ On[c] \in Devices /\ Hold[c] \in Nat /\ spent[c] \in Nat /\ spent[c] <= Hold[c]
      /\ HoldLine(c).call = c /\ HoldLine(c).kind = "hold" /\ HoldLine(c).usd = Hold[c]
  <2>1. On[c] \in Devices /\ Hold[c] \in Nat /\ spent[c] \in Nat
    BY Constants DEF Types
  <2>2. spent[c] \in 0..Hold[c]
    BY DEF Fits, CallFits
  <2>3. HoldLine(c).call = c /\ HoldLine(c).kind = "hold" /\ HoldLine(c).usd = Hold[c]
    BY DEF HoldLine
  <2> QED
    BY <2>1, <2>2, <2>3
<1> DEFINE own == Of(c, Known(d))
<1>16. Value(c, Known(d)) =
         CASE own = {}                   -> 0
           [] Costs(own, "settle") # {}  -> Max(Costs(own, "settle"))
           [] Costs(own, "release") # {} -> 0
           [] OTHER                      -> Max(Costs(own, "hold"))
  BY DEF Value
<1>3. own = {l \in lines : l.call = c /\ l.kind # "refusal"}
  BY <1>1 DEF Of
<1>4. \A l \in own : /\ l.call = c /\ l.kind # "refusal"
                     /\ l.kind = "hold" => l.usd = Hold[c]
                     /\ l.kind = "settle" => l.usd = spent[c] /\ call[c].at \in Settled
                     /\ l.kind = "release" => spent[c] = 0 /\ call[c].at \in {"releases", "done"}
                     /\ HoldLine(c) \in own
                     /\ l.kind \in {"hold", "settle", "release"}
  <2> TAKE l \in own
  <2>1. l \in file[On[c]] /\ l \in lines /\ l.call = c /\ l.kind # "refusal"
    BY <1>1, <1>3
  <2>2. LineFits(On[c], l, call[c], spent[c], file[On[c]]) /\ l \in Line
    BY <1>2, <2>1 DEF Fits, FileFits, Types
  <2>3. HoldLine(c) \in lines
    BY <1>1, <2>1
  <2> QED
    BY <1>2, <1>3, <2>1, <2>2, <2>3, LineFields DEF LineFits
<1> HIDE DEF own
<1>5. Costs(own, "settle") \subseteq {spent[c]} /\ Costs(own, "hold") \subseteq {Hold[c]}
  BY <1>4 DEF Costs
<1>6. HoldLine(c) \in own => Costs(own, "hold") = {Hold[c]}
  BY <1>2, <1>5 DEF Costs
<1>7. Costs(own, "release") # {} => spent[c] = 0
  BY <1>4 DEF Costs
<1>8. own # {} => HoldLine(c) \in own
  BY <1>4
<1>9. ASSUME own # {}
      PROVE  /\ Costs(own, "settle") # {} => Value(c, Known(d)) = spent[c]
             /\ Costs(own, "settle") = {} /\ Costs(own, "release") # {} => Value(c, Known(d)) = 0
             /\ Costs(own, "settle") = {} /\ Costs(own, "release") = {} =>
                  Value(c, Known(d)) = Hold[c]
  <2>1. Costs(own, "settle") # {} => Costs(own, "settle") = {spent[c]}
    BY <1>5
  <2>2. Max({spent[c]}) = spent[c] /\ Max({Hold[c]}) = Hold[c]
    BY <1>2, MaxOfOne
  <2>4. Costs(own, "hold") = {Hold[c]}
    BY <1>6, <1>8, <1>9
  <2>5. Costs(own, "settle") # {} => Value(c, Known(d)) = spent[c]
    <3>1. ASSUME Costs(own, "settle") # {}, Costs(own, "release") # {}
          PROVE  spent[c] = 0
      BY <1>7, <3>1
    <3> QED
      BY <1>9, <1>16, <2>1, <2>2, <3>1
  <2> QED
    BY <1>9, <1>16, <2>2, <2>4, <2>5
<1>10. own = {} => Value(c, Known(d)) = 0
  <2>1. own = {} => Costs(own, "settle") = {} /\ Costs(own, "release") = {}
    BY DEF Costs
  <2> QED
    BY <1>16, <2>1
<1>11. Value(c, Known(d)) \in Nat
  BY <1>2, <1>9, <1>10
<1>12. HoldLine(c) \in Known(d) => own # {}
  BY <1>1, <1>2, <1>3
<1>13. own # {} => spent[c] <= Value(c, Known(d))
  BY <1>2, <1>7, <1>9
<1>14. own # {} => com[c] <= Value(c, Known(d))
  <2>1. CASE Admitted(c, call[c], queue[On[c]])
    <3>1. call[c].at \in {"granted", "waits"}
      <4>1. CASE call[c].at = "granted"
        BY <4>1
      <4>2. CASE \E n \in DOMAIN queue[On[c]] :
                   queue[On[c]][n].call = c /\ queue[On[c]][n].do = "hold"
        BY <1>2, <4>2, AtOfs DEF Fits, QueueFits, TaskFits
      <4> QED
        BY <2>1, <4>1, <4>2 DEF Admitted
    <3>2. Costs(own, "settle") = {} /\ Costs(own, "release") = {}
      BY <1>4, <3>1 DEF Costs, Settled
    <3>3. com[c] = Hold[c]
      BY <2>1 DEF com
    <3> QED
      BY <1>2, <1>9, <3>2, <3>3
  <2>2. CASE ~Admitted(c, call[c], queue[On[c]])
    BY <1>13, <2>2 DEF com
  <2> QED
    BY <2>1, <2>2
<1>15. \A l \in Known(d) : l.call = c => HoldLine(c) \in Known(d)
  BY <1>1, <1>2
<1> QED
  BY <1>11, <1>12, <1>13, <1>14, <1>15

-----------------------------------------------------------------------------
(* The budget. *)

LEMMA SumOfNothing ==
  ASSUME NEW v, NEW S, IsFiniteSet(S), \A x \in S : v[x] = 0
  PROVE  SumFunctionOnSet(v, S) = 0
<1> DEFINE B == {t \in SUBSET S : SumFunctionOnSet(v, t) # 0}
<1>1. ASSUME B # {} PROVE FALSE
  <2>1. PICK t \in B : \A u \in B : Cardinality(t) <= Cardinality(u)
    <3>1. B \in SUBSET (SUBSET S)
      OBVIOUS
    <3> HIDE DEF B
    <3> QED
      BY <1>1, <3>1, SmallestExists
  <2>2. t \in SUBSET S /\ SumFunctionOnSet(v, t) # 0 /\ IsFiniteSet(t)
    BY <2>1, FS_Subset
  <2>3. t # {}
    BY <2>2, SumSteps
  <2>4. /\ Cardinality(t) \in Nat /\ t \ {Pick(t)} \in SUBSET S /\ Pick(t) \in S
        /\ Cardinality(t \ {Pick(t)}) = Cardinality(t) - 1
    BY <2>2, <2>3, Smaller, Picked
  <2>5. PICK r : r = t \ {Pick(t)}
    OBVIOUS
  <2>6. r \notin B
    <3> HIDE DEF B
    <3> QED
      BY <2>1, <2>4, <2>5
  <2>7. SumFunctionOnSet(v, r) = 0
    BY <2>4, <2>5, <2>6
  <2>8. SumFunctionOnSet(v, t) = v[Pick(t)] + SumFunctionOnSet(v, r)
    BY <2>2, <2>3, <2>5, SumSteps
  <2> QED
    BY <2>2, <2>4, <2>7, <2>8
<1> QED
  BY <1>1

LEMMA HeldIsNatural ==
  \A S \in SUBSET Calls : HeldBy(S) \in Nat
BY FiniteCalls, Constants, SumIsNatural DEF HeldBy

LEMMA ComIsNatural ==
  ASSUME Types
  PROVE  \A c \in Calls : com[c] \in Nat
BY Constants DEF Types, com

\* What a call may come to does not grow when it is not let through.
LEMMA ComFalls ==
  ASSUME Types, Fits, NEW c \in Calls, spent'[c] <= com[c],
         Admitted(c, call'[c], queue'[On[c]]) => Admitted(c, call[c], queue[On[c]])
  PROVE  com'[c] <= com[c]
<1>1. Hold[c] \in Nat
  BY Constants
<1>2. com'[c] = IF Admitted(c, call'[c], queue'[On[c]]) THEN Hold[c] ELSE spent'[c]
  BY DEF com, Admitted
<1>3. Admitted(c, call[c], queue[On[c]]) => com[c] = Hold[c]
  BY DEF com
<1> QED
  BY <1>1, <1>2, <1>3

\* What was billed is part of it.
LEMMA ComCovers ==
  ASSUME Types, Fits, NEW c \in Calls
  PROVE  spent[c] <= com[c] /\ spent[c] \in 0..Hold[c]
<1>1. spent[c] \in 0..Hold[c]
  BY DEF Fits, CallFits
<1>2. com[c] = IF Admitted(c, call[c], queue[On[c]]) THEN Hold[c] ELSE spent[c]
  BY DEF com
<1> QED
  BY <1>1, <1>2, Constants

LEMMA ComsAreNatural ==
  ASSUME Types, Types'
  PROVE  \A c \in Calls : com[c] \in Nat /\ com'[c] \in Nat
<1>1. (\A c \in Calls : com[c] \in Nat) /\ (\A c \in Calls : com[c] \in Nat)'
  BY ComIsNatural, PTL
<1> QED
  BY <1>1

LEMMA BudgetKept ==
  ASSUME Types, Types', Budget, apart' = apart, \A c \in Calls : com'[c] <= com[c]
  PROVE  Budget'
<1>1. PICK v : v = com
  OBVIOUS
<1>2. PICK w : w = com'
  OBVIOUS
<1>3. \A c \in Calls : com[c] \in Nat /\ com'[c] \in Nat
  BY ComsAreNatural
<1>4. \A c \in Calls : v[c] \in Nat /\ w[c] \in Nat /\ w[c] <= v[c]
  BY <1>1, <1>2, <1>3
<1>5. /\ SumFunctionOnSet(w, Calls) <= SumFunctionOnSet(v, Calls)
      /\ SumFunctionOnSet(w, Calls) \in Nat /\ SumFunctionOnSet(v, Calls) \in Nat
  BY <1>4, FiniteCalls, SumGrows, SumIsNatural
<1>6. Scoped \in SUBSET Calls /\ \A c \in Scoped : v[c] \in Nat /\ w[c] \in Nat /\ w[c] <= v[c]
  BY <1>4, Constants
<1>7. /\ SumFunctionOnSet(w, Scoped) <= SumFunctionOnSet(v, Scoped)
      /\ SumFunctionOnSet(w, Scoped) \in Nat /\ SumFunctionOnSet(v, Scoped) \in Nat
  BY <1>6, FiniteCalls, SumGrows, SumIsNatural
<1>8. HeldBy(apart) \in Nat /\ HeldBy(Scoped \cap apart) \in Nat /\ Limit \in Nat /\ Pause \in Nat
  BY Constants, HeldIsNatural DEF Types
<1>9. HeldBy(apart)' = HeldBy(apart) /\ HeldBy(Scoped \cap apart)' = HeldBy(Scoped \cap apart)
  BY DEF HeldBy
<1> QED
  BY <1>1, <1>2, <1>5, <1>7, <1>8, <1>9 DEF Budget

LEMMA InitInvariant == Init => IInv
<1> SUFFICES ASSUME Init PROVE IInv
  OBVIOUS
<1>1. Types
  <2>1. call \in [Calls -> Call]
    <3>1. \A c \in Calls : New(c) \in Call
      BY FiniteCalls DEF New, Call
    <3> QED
      BY <3>1 DEF Init
  <2>2. queue \in [Devices -> Seq(Task)]
    BY DEF Init
  <2>3. mishaps \in 0..MaxMishaps
    BY Constants DEF Init
  <2> QED
    BY <2>1, <2>2, <2>3 DEF Init, Types
<1>2. \A c \in Calls : /\ call[c].at \in {"new", "asks"} /\ ~call[c].refused /\ spent[c] = 0
                       /\ call[c].before = 0 /\ (c \in Scoped => call[c].at = "new")
                       /\ On[c] \in Devices
  BY Constants DEF Init, New
<1>3. \A d \in Devices : queue[d] = <<>> /\ file[d] = {} /\ \A e \in Devices : view[d][e] = {}
  BY DEF Init
<1>4. Fits
  <2>1. \A d \in Devices :
          QueueFits(d, queue[d], call, file[d]) /\ FileFits(d, file[d], call, spent)
    BY <1>3 DEF QueueFits, Ordered, FileFits
  <2>2. \A d, e \in Devices : CopyFits(view[d][e], file[e])
    BY <1>3 DEF CopyFits
  <2>3. ASSUME NEW c \in Calls
        PROVE  CallFits(c, call[c], spent[c], file[On[c]], unwritten[On[c]], forgotten)
    <3>1. 0 \in 0..Hold[c]
      BY Constants
    <3> QED
      BY <1>2, <3>1 DEF CallFits, Held
  <2> QED
    BY <2>1, <2>2, <2>3 DEF Fits, Init
<1>5. Budget
  <2>1. \A c \in Calls : com[c] = 0
    BY <1>2, <1>3 DEF com, Admitted
  <2>2. SumFunctionOnSet(com, Calls) = 0 /\ SumFunctionOnSet(com, Scoped) = 0
    <3>1. PICK v : v = com
      OBVIOUS
    <3>2. IsFiniteSet(Calls) /\ IsFiniteSet(Scoped) /\ \A c \in Scoped : c \in Calls
      BY FiniteCalls, Constants
    <3> QED
      BY <2>1, <3>1, <3>2, SumOfNothing
  <2>3. HeldBy(apart) \in Nat /\ HeldBy(Scoped \cap apart) \in Nat /\ Limit \in Nat /\ Pause \in Nat
    BY <1>1, Constants, HeldIsNatural DEF Types
  <2> QED
    BY <2>2, <2>3 DEF Budget
<1> QED
  BY <1>1, <1>4, <1>5 DEF IInv

-----------------------------------------------------------------------------
(* A call that goes on by itself. *)

QueueMoves(c, at) ==
  \/ UNCHANGED queue
  \/ \E do \in {"hold", "settle", "release", "refusal"} :
       Queued(On[c], do, c) /\ at = AtOf(do) /\ (do = "hold" => call[c].at = "asks")

Move(c, w, cost) ==
  /\ call' = [call EXCEPT ![c] = w] /\ spent' = [spent EXCEPT ![c] = cost]
  /\ UNCHANGED <<file, view, unwritten, apart, forgotten>> /\ mishaps' \in 0..MaxMishaps
  /\ QueueMoves(c, w.at)
  /\ CallFits(c, w, cost, file[On[c]], unwritten[On[c]], forgotten)
  /\ call[c].at \notin Tasked /\ w.at \notin {"new", "granted"}
  /\ w.at = "asks" => call[c].at = "new"
  /\ call[c].at \in Early \/ (cost = spent[c] /\ Advances(call[c].at, w.at))
  /\ cost = spent[c] \/ call[c].at = "granted" \/ call[c].at = "sent"
  /\ call[c].at = "sent" => cost <= spent[c]

\* The queues, before and after: no task is of the call, but one that comes in.
LEMMA MoveQueues ==
  ASSUME IInv, NEW c \in Calls, NEW w \in Call, NEW cost \in Nat, Move(c, w, cost)
  PROVE  /\ queue' \in [Devices -> Seq(Task)]
         /\ \A d \in Devices : QueueFits(d, queue'[d], call', file[d])
         /\ \A k \in Calls :
              Admitted(k, call'[k], queue'[On[k]]) => Admitted(k, call[k], queue[On[k]])
         /\ \A k \in apart : ApartFits(k, call'[k], queue'[On[k]])
<1>1. /\ queue \in [Devices -> Seq(Task)] /\ call \in [Calls -> Call] /\ On[c] \in Devices
      /\ apart \subseteq Calls /\ \A k \in Calls : On[k] \in Devices
      /\ \A d \in Devices : queue[d] \in Seq(Task)
  BY Constants DEF IInv, Types
<1>2. call'[c] = w /\ \A k \in Calls : k # c => call'[k] = call[k]
  BY <1>1 DEF Move
<1>3. \A d \in Devices : /\ QueueFits(d, queue[d], call', file[d])
                         /\ \A n \in DOMAIN queue[d] : queue[d][n].call # c
  <2> TAKE d \in Devices
  <2>1. PICK cl2 : cl2 = call'
    OBVIOUS
  <2>2. QueueFits(d, queue[d], call, file[d]) /\ call[c].at \notin Tasked
    BY DEF IInv, Fits, Move
  <2>3. \A k \in Calls : k # c => cl2[k] = call[k]
    BY <1>2, <2>1
  <2>4. PICK q \in Seq(Task) : q = queue[d]
    BY <1>1
  <2>5. QueueFits(d, q, cl2, file[d]) /\ \A n \in DOMAIN q : q[n].call # c
    BY <2>2, <2>3, <2>4, OthersTasks
  <2> QED
    BY <2>1, <2>4, <2>5
<1>4. \A k \in apart : ApartFits(k, call[k], queue[On[k]])
  BY DEF IInv, Fits
<1>5. w.at \notin {"new", "granted"} /\ (w.at = "asks" => call[c].at = "new")
  BY DEF Move
<1>6. \A k \in Calls : call'[k].at = "granted" => call[k].at = "granted"
  BY <1>2, <1>5
<1>7. \A k \in apart : call'[k].at \notin {"new", "asks"}
  BY <1>1, <1>2, <1>4, <1>5 DEF ApartFits
<1>8. CASE UNCHANGED queue
  <2>1. queue' \in [Devices -> Seq(Task)] /\ \A k \in Calls : queue'[On[k]] = queue[On[k]]
    BY <1>1, <1>8
  <2>2. \A d \in Devices : QueueFits(d, queue'[d], call', file[d])
    BY <1>3, <1>8
  <2>3. \A k \in Calls :
          Admitted(k, call'[k], queue'[On[k]]) => Admitted(k, call[k], queue[On[k]])
    BY <1>6, <2>1 DEF Admitted
  <2>4. \A k \in apart : ApartFits(k, call'[k], queue'[On[k]])
    BY <1>1, <1>4, <1>7, <2>1 DEF ApartFits
  <2> QED
    BY <2>1, <2>2, <2>3, <2>4
<1>9. ASSUME NEW do \in {"hold", "settle", "release", "refusal"}, Queued(On[c], do, c),
             w.at = AtOf(do), do = "hold" => call[c].at = "asks"
      PROVE  /\ queue' \in [Devices -> Seq(Task)]
             /\ \A d \in Devices : QueueFits(d, queue'[d], call', file[d])
             /\ \A k \in Calls :
                  Admitted(k, call'[k], queue'[On[k]]) => Admitted(k, call[k], queue[On[k]])
             /\ \A k \in apart : ApartFits(k, call'[k], queue'[On[k]])
  <2>1. PICK t \in Task : t = [do |-> do, call |-> c, at |-> "waiting"]
    BY DEF Task
  <2>2. PICK q : q = Append(queue[On[c]], t)
    OBVIOUS
  <2>3. /\ q \in Seq(Task)
        /\ \A n \in DOMAIN q : \/ n \in DOMAIN queue[On[c]] /\ q[n] = queue[On[c]][n]
                               \/ q[n] = t
    BY <1>1, <2>2, Lengthened
  <2>4. queue' = [queue EXCEPT ![On[c]] = q]
    BY <1>9, <2>1, <2>2 DEF Queued
  <2>5. queue'[On[c]] = q /\ \A d \in Devices : d # On[c] => queue'[d] = queue[d]
    BY <1>1, <2>4
  <2>6. queue' \in [Devices -> Seq(Task)]
    BY <1>1, <2>3, <2>4
  <2>7. QueueFits(On[c], q, call', file[On[c]])
    <3>1. PICK cl : cl = call'
      OBVIOUS
    <3>2. t.at = "waiting" /\ On[t.call] = On[c] /\ cl[t.call].at = AtOf(t.do) /\ t.call = c
      BY <1>2, <1>9, <2>1, <3>1
    <3> QED
      BY <1>1, <1>3, <2>2, <3>1, <3>2, Enqueued
  <2>8. \A d \in Devices : QueueFits(d, queue'[d], call', file[d])
    BY <1>3, <2>5, <2>7
  <2>9. ASSUME NEW k \in Calls
        PROVE  Admitted(k, call'[k], queue'[On[k]]) => Admitted(k, call[k], queue[On[k]])
    <3>1. CASE On[k] = On[c]
      <4>1. \A n \in DOMAIN q : q[n].at \in {"admitted", "written"} =>
                n \in DOMAIN queue[On[c]] /\ q[n] = queue[On[c]][n]
        BY <2>1, <2>3
      <4> QED
        BY <1>6, <2>5, <3>1, <4>1 DEF Admitted
    <3>2. CASE On[k] # On[c]
      BY <1>1, <1>6, <2>5, <3>2 DEF Admitted
    <3> QED
      BY <3>1, <3>2
  <2>10. ASSUME NEW k \in apart
         PROVE  ApartFits(k, call'[k], queue'[On[k]])
    <3>1. CASE On[k] = On[c]
      <4>1. ApartFits(k, call[k], queue[On[c]])
        BY <1>4, <3>1
      <4>2. t.call = k => t.do # "hold"
        BY <1>9, <2>1, <4>1 DEF ApartFits
      <4>3. \A n \in DOMAIN q : q[n].call = k /\ q[n].do = "hold" => q[n].at # "waiting"
        BY <2>3, <4>1, <4>2 DEF ApartFits
      <4> QED
        BY <1>7, <2>5, <3>1, <4>3 DEF ApartFits
    <3>2. CASE On[k] # On[c]
      BY <1>1, <1>4, <1>7, <2>5, <3>2 DEF ApartFits
    <3> QED
      BY <3>1, <3>2
  <2> QED
    BY <2>6, <2>8, <2>9, <2>10
<1>10. QueueMoves(c, w.at)
  BY DEF Move
<1>11. \/ UNCHANGED queue
       \/ \E do \in {"hold", "settle", "release", "refusal"} :
            Queued(On[c], do, c) /\ w.at = AtOf(do) /\ (do = "hold" => call[c].at = "asks")
  BY <1>10 DEF QueueMoves
<1> QED
  BY <1>8, <1>9, <1>11, Zenon

LEMMA MoveKeeps ==
  ASSUME IInv, NEW c \in Calls, NEW w \in Call, NEW cost \in Nat, Move(c, w, cost)
  PROVE  IInv'
<1>1. /\ queue' \in [Devices -> Seq(Task)]
      /\ \A d \in Devices : QueueFits(d, queue'[d], call', file[d])
      /\ \A k \in Calls :
           Admitted(k, call'[k], queue'[On[k]]) => Admitted(k, call[k], queue[On[k]])
      /\ \A k \in apart : ApartFits(k, call'[k], queue'[On[k]])
  BY MoveQueues
<1>2. /\ call \in [Calls -> Call] /\ spent \in [Calls -> Nat] /\ apart \subseteq Calls
      /\ file \in [Devices -> SUBSET Line]
      /\ \A k \in Calls : On[k] \in Devices /\ Hold[k] \in Nat
  BY Constants DEF IInv, Types
<1>3. /\ call'[c] = w /\ \A k \in Calls : k # c => call'[k] = call[k]
      /\ spent'[c] = cost /\ \A k \in Calls : k # c => spent'[k] = spent[k]
      /\ call' \in [Calls -> Call] /\ spent' \in [Calls -> Nat]
  BY <1>2 DEF Move
<1>4. /\ file' = file /\ view' = view /\ unwritten' = unwritten
      /\ apart' = apart /\ forgotten' = forgotten
  BY DEF Move
<1>5. Types'
  BY <1>1, <1>3, <1>4 DEF IInv, Types, Move
<1>6. Fits'
  <2>1. \A d \in Devices : FileFits(d, file[d], call', spent')
    <3> TAKE d \in Devices
    <3>1. PICK cl2 : cl2 = call'
      OBVIOUS
    <3>2. PICK costs2 : costs2 = spent'
      OBVIOUS
    <3>3. FileFits(d, file[d], call, spent) /\ file[d] \in SUBSET Line
      BY <1>2 DEF IInv, Fits
    <3>4. \A k \in Calls : k # c => cl2[k] = call[k] /\ costs2[k] = spent[k]
      BY <1>3, <3>1, <3>2
    <3>5. \/ call[c].at \in Early
          \/ costs2[c] = spent[c] /\ Advances(call[c].at, cl2[c].at)
      BY <1>3, <3>1, <3>2 DEF Move
    <3>6. FileFits(d, file[d], cl2, costs2)
      BY <3>3, <3>4, <3>5, FileKept
    <3> QED
      BY <3>1, <3>2, <3>6
  <2>2. ASSUME NEW k \in Calls
        PROVE  CallFits(k, call'[k], spent'[k], file[On[k]], unwritten[On[k]], forgotten)
    <3>1. CallFits(k, call[k], spent[k], file[On[k]], unwritten[On[k]], forgotten)
      BY DEF IInv, Fits
    <3>2. CallFits(c, w, cost, file[On[c]], unwritten[On[c]], forgotten)
      BY DEF Move
    <3> QED
      BY <1>3, <3>1, <3>2, Zenon
  <2>3. \A d, e \in Devices : CopyFits(view[d][e], file[e])
    BY DEF IInv, Fits
  <2> QED
    BY <1>1, <1>4, <2>1, <2>2, <2>3 DEF Fits
<1>7. \A k \in Calls : com'[k] <= com[k]
  <2> TAKE k \in Calls
  <2>1. spent[k] <= com[k] /\ spent[k] \in 0..Hold[k]
    BY ComCovers DEF IInv
  <2>2. com[k] = IF Admitted(k, call[k], queue[On[k]]) THEN Hold[k] ELSE spent[k]
    BY DEF com
  <2>3. spent'[k] <= com[k]
    <3>1. CASE k # c
      BY <1>3, <2>1, <3>1
    <3>2. CASE k = c
      <4>1. cost \in 0..Hold[c]
        BY DEF Move, CallFits
      <4>2. \/ cost <= spent[c]
            \/ call[c].at = "granted"
        <5>1. \/ cost = spent[c] \/ call[c].at = "granted"
              \/ call[c].at = "sent" /\ cost <= spent[c]
          BY DEF Move
        <5> QED
          BY <1>2, <5>1
      <4>3. CASE cost <= spent[c]
        BY <1>2, <1>3, <2>1, <2>2, <3>2, <4>3
      <4>4. CASE call[c].at = "granted"
        <5>1. com[c] = Hold[c]
          BY <2>2, <3>2, <4>4 DEF Admitted
        <5> QED
          BY <1>3, <3>2, <4>1, <5>1
      <4> QED
        BY <4>2, <4>3, <4>4
    <3> QED
      BY <3>1, <3>2
  <2> QED
    BY <1>1, <2>3, ComFalls DEF IInv
<1>8. Budget'
  BY <1>4, <1>5, <1>7, BudgetKept DEF IInv
<1> QED
  BY <1>5, <1>6, <1>8 DEF IInv

-----------------------------------------------------------------------------
(* Refusals. *)

\* The refusals a device counts are those that stand, or more.
LEMMA RefusalsStand ==
  ASSUME Types, Fits, NEW d \in Devices, NEW p
  PROVE  /\ Cardinality(Standing(d, p)) \in 0..Cardinality(Calls)
         /\ Refusals(d, p) \in Nat /\ Cardinality(Standing(d, p)) <= Refusals(d, p)
<1> DEFINE seen == {c \in Calls : RefusalLine(c) \in Known(d) /\ Part[c] = p}
           kept == {c \in unwritten[d] : Part[c] = p}
           lines == RefusalLines(p, Known(d))
<1>1. \A c : RefusalLine(c).kind = "refusal" /\ RefusalLine(c).call = c
  BY DEF RefusalLine
<1>2. ASSUME NEW l \in lines
      PROVE  l.call \in Calls /\ l = RefusalLine(l.call) /\ Part[l.call] = p /\ l \in Known(d)
  <2>1. l \in Known(d) /\ l.kind = "refusal" /\ Part[l.call] = p
    BY DEF RefusalLines
  <2>2. PICK e \in Devices : l \in file[e]
    <3>1. PICK e \in Devices : l \in IF e = d THEN file[d] ELSE view[d][e]
      BY <2>1 DEF Known
    <3>2. view[d][e] \subseteq file[e]
      BY DEF Fits, CopyFits
    <3> QED
      BY <3>1, <3>2
  <2>3. l \in Line /\ LineFits(e, l, call[l.call], spent[l.call], file[e])
    BY <2>2 DEF Types, Fits, FileFits
  <2>4. l.call \in Calls /\ l.usd = 0
    BY <2>1, <2>3, LineFields DEF LineFits
  <2>5. l = RefusalLine(l.call)
    BY <2>1, <2>3, <2>4 DEF Line, RefusalLine
  <2> QED
    BY <2>1, <2>4, <2>5
<1>3. \A c \in seen : RefusalLine(c) \in lines
  BY <1>1 DEF RefusalLines
<1> DEFINE f == [c \in seen |-> RefusalLine(c)]
<1>4. \A l \in lines : l.call \in seen
  BY <1>2
<1>5. f \in [seen -> lines]
  BY <1>3
<1>6. f \in Surjection(seen, lines)
  <2>1. \A l \in lines : f[l.call] = l
    BY <1>2, <1>4
  <2>2. \A l \in lines : \E c \in seen : f[c] = l
    BY <1>4, <2>1
  <2> HIDE DEF f, seen, lines
  <2> QED
    BY <1>5, <2>2 DEF Surjection
<1>7. f \in Injection(seen, lines)
  <2>1. \A a, b \in seen : f[a] = f[b] => a = b
    BY <1>1
  <2>2. DOMAIN f = seen
    OBVIOUS
  <2> HIDE DEF f, seen, lines
  <2> QED
    BY <1>5, <2>1, <2>2 DEF Injection, IsInjective
<1>8. seen \in SUBSET Calls /\ kept \in SUBSET Calls /\ Standing(d, p) \in SUBSET Calls
  BY DEF Types, Standing
<1> HIDE DEF f, seen, lines
<1>9. /\ IsFiniteSet(seen) /\ Cardinality(seen) \in Nat
      /\ IsFiniteSet(kept) /\ Cardinality(kept) \in Nat
      /\ Cardinality(Standing(d, p)) \in 0..Cardinality(Calls)
  BY <1>8, FiniteCalls
<1>10. IsFiniteSet(lines) /\ Cardinality(lines) \in Nat
  BY <1>6, <1>9, FS_Surjection, FS_CardinalityType
<1>11. Cardinality(seen) <= Cardinality(lines)
  BY <1>7, <1>10, FS_Injection
<1>12. Standing(d, p) \subseteq seen \cup kept
  <2>1. ASSUME NEW c \in Standing(d, p) PROVE c \in seen \cup kept
    <3>1. /\ c \in Calls /\ c \notin forgotten /\ On[c] = d /\ Part[c] = p
          /\ call[c].at = "done" /\ call[c].refused
      BY <2>1 DEF Standing
    <3>2. RefusalLine(c) \in file[d] \/ c \in unwritten[d]
      BY <3>1 DEF Fits, CallFits
    <3>3. file[d] \subseteq Known(d)
      BY DEF Known
    <3> QED
      BY <3>1, <3>2, <3>3 DEF seen
  <2> QED
    BY <2>1
<1> HIDE DEF kept
<1>13. /\ IsFiniteSet(seen \cup kept) /\ Cardinality(seen \cup kept) \in Nat
       /\ Cardinality(seen \cup kept) <= Cardinality(seen) + Cardinality(kept)
  <2>1. IsFiniteSet(seen \cap kept) /\ Cardinality(seen \cap kept) \in Nat
    BY <1>9, FS_Intersection, FS_CardinalityType
  <2>2. /\ IsFiniteSet(seen \cup kept)
        /\ Cardinality(seen \cup kept) =
             Cardinality(seen) + Cardinality(kept) - Cardinality(seen \cap kept)
    BY <1>9, FS_Union
  <2>3. Cardinality(seen \cup kept) \in Nat
    BY <2>2, FS_CardinalityType
  <2> QED
    BY <1>9, <2>1, <2>2, <2>3
<1>14. Cardinality(Standing(d, p)) <= Cardinality(seen \cup kept)
  BY <1>12, <1>13, FS_Subset
<1>15. Refusals(d, p) = Cardinality(lines) + Cardinality(kept)
  BY DEF Refusals, ReadAll, lines, kept
<1> QED
  BY <1>9, <1>10, <1>11, <1>13, <1>14, <1>15

-----------------------------------------------------------------------------
(* The steps of a call. *)

LEMMA CallFields ==
  ASSUME Types, Fits, NEW c \in Calls
  PROVE  /\ call[c] \in Call /\ spent[c] \in Nat /\ spent[c] \in 0..Hold[c]
         /\ CallFits(c, call[c], spent[c], file[On[c]], unwritten[On[c]], forgotten)
         /\ spent = [spent EXCEPT ![c] = spent[c]]
         /\ mishaps \in 0..MaxMishaps /\ call \in [Calls -> Call] /\ spent \in [Calls -> Nat]
         /\ On[c] \in Devices /\ Hold[c] \in Nat \ {0}
BY Constants DEF Types, Fits, CallFits

LEMMA Mishaps ==
  ASSUME Types, Mishap
  PROVE  mishaps' \in 0..MaxMishaps
BY Constants DEF Types, Mishap

LEMMA StartsKeeps ==
  ASSUME IInv, NEW c \in Calls, Starts(c)
  PROVE  IInv'
<1> DEFINE d == On[c]
           n == Cardinality(Standing(d, Part[c]))
<1>1. PICK at : at = IF Refusals(d, Part[c]) >= RefusedLimit THEN "heldBack" ELSE "asks"
  OBVIOUS
<1>2. PICK w : w = [call[c] EXCEPT !.before = n, !.at = at]
  OBVIOUS
<1>3. /\ call[c] \in Call /\ spent[c] \in Nat /\ spent[c] \in 0..Hold[c]
      /\ CallFits(c, call[c], spent[c], file[On[c]], unwritten[On[c]], forgotten)
      /\ spent = [spent EXCEPT ![c] = spent[c]]
      /\ mishaps \in 0..MaxMishaps /\ call \in [Calls -> Call] /\ spent \in [Calls -> Nat]
      /\ On[c] \in Devices
  BY CallFields DEF IInv
<1>4. n \in 0..Cardinality(Calls) /\ Refusals(d, Part[c]) \in Nat /\ n <= Refusals(d, Part[c])
  BY <1>3, RefusalsStand DEF IInv
<1>5. /\ call' = [call EXCEPT ![c] = w] /\ call[c].at = "new" /\ UNCHANGED spent
      /\ UNCHANGED <<file, view, unwritten, apart, forgotten, mishaps, queue>>
  BY <1>1, <1>2 DEF Starts
<1>6. w \in Call /\ w.at = at /\ w.before = n /\ w.refused = call[c].refused
  BY <1>1, <1>2, <1>3, <1>4 DEF Call
<1>7. CallFits(c, w, spent[c], file[On[c]], unwritten[On[c]], forgotten)
  <2>1. ~call[c].refused /\ spent[c] = 0 /\ RefusedLimit \in Nat
    BY <1>3, <1>5, Constants DEF CallFits, Unsent
  <2>2. at = "asks" => n < RefusedLimit
    BY <1>1, <1>4, <2>1
  <2>3. at \in {"heldBack", "asks"}
    BY <1>1
  <2> QED
    BY <1>3, <1>6, <2>1, <2>2, <2>3 DEF CallFits, Held
<1>8. Move(c, w, spent[c])
  <2>1. at \in {"heldBack", "asks"}
    BY <1>1
  <2>2. QueueMoves(c, w.at)
    BY <1>5 DEF QueueMoves
  <2>3. /\ call' = [call EXCEPT ![c] = w] /\ spent' = [spent EXCEPT ![c] = spent[c]]
        /\ UNCHANGED <<file, view, unwritten, apart, forgotten>> /\ mishaps' \in 0..MaxMishaps
    BY <1>3, <1>5
  <2>4. /\ call[c].at \notin Tasked /\ w.at \notin {"new", "granted"}
        /\ call[c].at = "new" /\ call[c].at \in Early
    BY <1>5, <1>6, <2>1 DEF Tasked, Early
  <2>5. call[c].at = "sent" => spent[c] <= spent[c]
    BY <1>3
  <2> QED
    BY <1>7, <2>2, <2>3, <2>4, <2>5 DEF Move
<1> QED
  BY <1>3, <1>6, <1>8, MoveKeeps

States == {"new", "heldBack", "asks", "waits", "declined", "granted", "sent", "settles",
           "releases", "refused", "records", "done"}

LEMMA Restanding ==
  ASSUME NEW w \in Call, NEW at \in States
  PROVE  \E w2 \in Call : /\ w2 = [w EXCEPT !.at = at]
                          /\ w2.at = at /\ w2.cost = w.cost
                          /\ w2.refused = w.refused /\ w2.before = w.before
<1>1. PICK w2 : w2 = [w EXCEPT !.at = at]
  OBVIOUS
<1>2. /\ w2.at = at /\ w2.cost = w.cost /\ w2.refused = w.refused /\ w2.before = w.before
      /\ w2 \in Call
  BY <1>1 DEF Call, States
<1> QED
  BY <1>1, <1>2

\* A call goes on with nothing of it changed but where it stands, and what it was billed.
LEMMA PlainMove ==
  ASSUME IInv, NEW c \in Calls, NEW at \in States, NEW cost \in Nat, Moves(c, at),
         spent' = [spent EXCEPT ![c] = cost],
         UNCHANGED <<file, view, unwritten, apart, forgotten>>, mishaps' \in 0..MaxMishaps,
         QueueMoves(c, at),
         \A w \in Call : w.at = at /\ w.refused = call[c].refused /\ w.before = call[c].before
                         /\ w.cost = call[c].cost =>
           CallFits(c, w, cost, file[On[c]], unwritten[On[c]], forgotten),
         call[c].at \notin Tasked, at \notin {"new", "asks", "granted"},
         call[c].at \in Early \/ (cost = spent[c] /\ Advances(call[c].at, at)),
         cost = spent[c] \/ call[c].at = "granted"
  PROVE  IInv'
<1>1. call \in [Calls -> Call] /\ call[c] \in Call /\ spent[c] \in Nat
  BY CallFields DEF IInv
<1>2. PICK w \in Call : /\ w = [call[c] EXCEPT !.at = at]
                        /\ w.at = at /\ w.cost = call[c].cost
                        /\ w.refused = call[c].refused /\ w.before = call[c].before
  BY <1>1, Restanding
<1>3. call' = [call EXCEPT ![c] = w]
  BY <1>1, <1>2 DEF Moves
<1>4. CallFits(c, w, cost, file[On[c]], unwritten[On[c]], forgotten)
  BY <1>2
<1>5. QueueMoves(c, w.at)
  BY <1>2
<1>6. call[c].at = "sent" => cost <= spent[c]
  BY <1>1
<1>7. Move(c, w, cost)
  BY <1>2, <1>3, <1>4, <1>5, <1>6 DEF Move
<1> QED
  BY <1>7, MoveKeeps

LEMMA StartFailsKeeps ==
  ASSUME IInv, NEW c \in Calls, StartFails(c)
  PROVE  IInv'
<1>1. /\ spent[c] \in Nat /\ spent = [spent EXCEPT ![c] = spent[c]] /\ call[c] \in Call
      /\ CallFits(c, call[c], spent[c], file[On[c]], unwritten[On[c]], forgotten)
  BY CallFields DEF IInv
<1>2. /\ call[c].at = "new" /\ Moves(c, "heldBack") /\ spent' = [spent EXCEPT ![c] = spent[c]]
      /\ UNCHANGED <<file, view, unwritten, apart, forgotten>> /\ UNCHANGED queue
  BY <1>1 DEF StartFails
<1>3. mishaps' \in 0..MaxMishaps
  BY Mishaps DEF StartFails, IInv
<1>4. \A w \in Call : w.at = "heldBack" /\ w.refused = call[c].refused /\ w.before = call[c].before
                      /\ w.cost = call[c].cost =>
        CallFits(c, w, spent[c], file[On[c]], unwritten[On[c]], forgotten)
  BY <1>1, <1>2 DEF CallFits, Held, Unsent
<1>5. QueueMoves(c, "heldBack")
  BY <1>2 DEF QueueMoves
<1>6. "heldBack" \in States /\ call[c].at \notin Tasked /\ call[c].at \in Early
  BY <1>2 DEF States, Tasked, Early
<1> QED
  BY <1>1, <1>2, <1>3, <1>4, <1>5, <1>6, PlainMove

LEMMA AsksKeeps ==
  ASSUME IInv, NEW c \in Calls, Asks(c)
  PROVE  IInv'
<1>1. /\ spent[c] \in Nat /\ spent = [spent EXCEPT ![c] = spent[c]] /\ call[c] \in Call
      /\ CallFits(c, call[c], spent[c], file[On[c]], unwritten[On[c]], forgotten)
      /\ mishaps \in 0..MaxMishaps
  BY CallFields DEF IInv
<1>2. /\ call[c].at = "asks" /\ spent' = [spent EXCEPT ![c] = spent[c]]
      /\ UNCHANGED <<file, view, unwritten, apart, forgotten>> /\ mishaps' \in 0..MaxMishaps
  BY <1>1 DEF Asks
<1>3. PICK at \in {"declined", "waits"} : Moves(c, at) /\ QueueMoves(c, at)
  <2>1. CASE Moves(c, "declined") /\ UNCHANGED queue
    BY <2>1 DEF QueueMoves
  <2>2. CASE Moves(c, "waits") /\ Queued(On[c], "hold", c)
    BY <1>2, <2>2, AtOfs DEF QueueMoves
  <2> QED
    BY <2>1, <2>2 DEF Asks
<1>4. \A w \in Call : w.at = at /\ w.refused = call[c].refused /\ w.before = call[c].before
                      /\ w.cost = call[c].cost =>
        CallFits(c, w, spent[c], file[On[c]], unwritten[On[c]], forgotten)
  BY <1>1, <1>2 DEF CallFits, Held, Unsent
<1>5. at \in States /\ call[c].at \notin Tasked /\ call[c].at \in Early
  BY <1>2 DEF States, Tasked, Early
<1> QED
  BY <1>1, <1>2, <1>3, <1>4, <1>5, PlainMove

LEMMA SendsKeeps ==
  ASSUME IInv, NEW c \in Calls, Sends(c)
  PROVE  IInv'
<1>1. /\ call[c] \in Call /\ Hold[c] \in Nat \ {0} /\ mishaps \in 0..MaxMishaps
      /\ CallFits(c, call[c], spent[c], file[On[c]], unwritten[On[c]], forgotten)
  BY CallFields DEF IInv
<1>2. /\ call[c].at = "granted" /\ Moves(c, "sent") /\ spent' = [spent EXCEPT ![c] = Hold[c]]
      /\ UNCHANGED <<file, view, unwritten, apart, forgotten>> /\ UNCHANGED queue
      /\ mishaps' \in 0..MaxMishaps
  BY <1>1 DEF Sends
<1>3. \A w \in Call : w.at = "sent" /\ w.refused = call[c].refused /\ w.before = call[c].before
                      /\ w.cost = call[c].cost =>
        CallFits(c, w, Hold[c], file[On[c]], unwritten[On[c]], forgotten)
  <2>1. Hold[c] \in 0..Hold[c]
    BY <1>1
  <2> QED
    BY <1>1, <1>2, <2>1 DEF CallFits, Held, Unsent
<1>4. QueueMoves(c, "sent")
  BY <1>2 DEF QueueMoves
<1>5. "sent" \in States /\ call[c].at \notin Tasked /\ call[c].at \in Early
  BY <1>2 DEF States, Tasked, Early
<1> QED
  BY <1>1, <1>2, <1>3, <1>4, <1>5, PlainMove

LEMMA NeverSentKeeps ==
  ASSUME IInv, NEW c \in Calls, NeverSent(c)
  PROVE  IInv'
<1>1. /\ spent[c] \in Nat /\ spent = [spent EXCEPT ![c] = spent[c]] /\ call[c] \in Call
      /\ CallFits(c, call[c], spent[c], file[On[c]], unwritten[On[c]], forgotten)
  BY CallFields DEF IInv
<1>2. /\ call[c].at = "granted" /\ Moves(c, "releases") /\ Queued(On[c], "release", c)
      /\ spent' = [spent EXCEPT ![c] = spent[c]]
      /\ UNCHANGED <<file, view, unwritten, apart, forgotten>>
  BY <1>1 DEF NeverSent
<1>3. mishaps' \in 0..MaxMishaps
  BY Mishaps DEF NeverSent, IInv
<1>4. \A w \in Call : w.at = "releases" /\ w.refused = call[c].refused /\ w.before = call[c].before
                      /\ w.cost = call[c].cost =>
        CallFits(c, w, spent[c], file[On[c]], unwritten[On[c]], forgotten)
  BY <1>1, <1>2 DEF CallFits, Held, Unsent
<1>5. QueueMoves(c, "releases")
  BY <1>2, AtOfs DEF QueueMoves
<1>6. "releases" \in States /\ call[c].at \notin Tasked /\ call[c].at \in Early
  BY <1>2 DEF States, Tasked, Early
<1> QED
  BY <1>1, <1>2, <1>3, <1>4, <1>5, <1>6, PlainMove

LEMMA LostCallKeeps ==
  ASSUME IInv, NEW c \in Calls, Lost(c)
  PROVE  IInv'
<1>1. /\ spent[c] \in Nat /\ spent = [spent EXCEPT ![c] = spent[c]] /\ call[c] \in Call
      /\ CallFits(c, call[c], spent[c], file[On[c]], unwritten[On[c]], forgotten)
  BY CallFields DEF IInv
<1>2. /\ call[c].at = "sent" /\ Moves(c, "done") /\ UNCHANGED queue
      /\ spent' = [spent EXCEPT ![c] = spent[c]]
      /\ UNCHANGED <<file, view, unwritten, apart, forgotten>>
  BY <1>1 DEF Lost, LostKeeps
<1>3. mishaps' \in 0..MaxMishaps
  BY Mishaps DEF Lost, IInv
<1>4. \A w \in Call : w.at = "done" /\ w.refused = call[c].refused /\ w.before = call[c].before
                      /\ w.cost = call[c].cost =>
        CallFits(c, w, spent[c], file[On[c]], unwritten[On[c]], forgotten)
  BY <1>1, <1>2 DEF CallFits, Held, Unsent
<1>5. QueueMoves(c, "done")
  BY <1>2 DEF QueueMoves
<1>6. "done" \in States /\ call[c].at \notin Tasked /\ call[c].at \in Early
  BY <1>2 DEF States, Tasked, Early
<1> QED
  BY <1>1, <1>2, <1>3, <1>4, <1>5, <1>6, PlainMove

LEMMA RecordsKeeps ==
  ASSUME IInv, NEW c \in Calls, Records(c)
  PROVE  IInv'
<1>1. /\ spent[c] \in Nat /\ spent = [spent EXCEPT ![c] = spent[c]] /\ call[c] \in Call
      /\ CallFits(c, call[c], spent[c], file[On[c]], unwritten[On[c]], forgotten)
      /\ mishaps \in 0..MaxMishaps
  BY CallFields DEF IInv
<1>2. /\ call[c].at = "refused" /\ Moves(c, "records") /\ Queued(On[c], "refusal", c)
      /\ spent' = [spent EXCEPT ![c] = spent[c]] /\ mishaps' \in 0..MaxMishaps
      /\ UNCHANGED <<file, view, unwritten, apart, forgotten>>
  BY <1>1 DEF Records
<1>3. \A w \in Call : w.at = "records" /\ w.refused = call[c].refused /\ w.before = call[c].before
                      /\ w.cost = call[c].cost =>
        CallFits(c, w, spent[c], file[On[c]], unwritten[On[c]], forgotten)
  BY <1>1, <1>2 DEF CallFits, Held, Unsent
<1>4. QueueMoves(c, "records")
  BY <1>2, AtOfs DEF QueueMoves
<1>5. "records" \in States /\ call[c].at \notin Tasked
  BY <1>2 DEF States, Tasked
<1>6. Advances(call[c].at, "records")
  BY <1>2 DEF Advances, Settled
<1> QED
  BY <1>1, <1>2, <1>3, <1>4, <1>5, <1>6, PlainMove

LEMMA AnsweredKeeps ==
  ASSUME IInv, NEW c \in Calls, Answered(c)
  PROVE  IInv'
<1>1. /\ spent[c] \in Nat /\ spent = [spent EXCEPT ![c] = spent[c]] /\ call[c] \in Call
      /\ CallFits(c, call[c], spent[c], file[On[c]], unwritten[On[c]], forgotten)
      /\ mishaps \in 0..MaxMishaps /\ call \in [Calls -> Call] /\ Hold[c] \in Nat
  BY CallFields DEF IInv
<1>2. /\ call[c].at = "sent"
      /\ UNCHANGED <<file, view, unwritten, apart, forgotten>> /\ mishaps' \in 0..MaxMishaps
  BY <1>1 DEF Answered
<1>3. spent[c] = Hold[c] /\ HoldLine(c) \in file[On[c]]
  BY <1>1, <1>2 DEF CallFits, Held
<1>4. call[c].at \notin Tasked /\ call[c].at \in Early
  BY <1>2 DEF Tasked, Early
<1>5. PICK attempts \in 0..2, cost \in {x \in Reported : x <= Hold[c]}, refused \in BOOLEAN :
        /\ spent' = IF attempts = 1 THEN [spent EXCEPT ![c] = cost] ELSE spent
        /\ IF Proven(attempts)
           THEN /\ call' = [call EXCEPT ![c].cost = cost, ![c].refused = refused,
                                        ![c].at = "settles"]
                /\ Queued(On[c], "settle", c)
           ELSE /\ call' = [call EXCEPT ![c].refused = refused, ![c].at = Ended(refused)]
                /\ UNCHANGED queue
  BY DEF Answered
<1>6. cost \in Nat /\ cost <= Hold[c] /\ cost \in 0..Hold[c]
  BY <1>1, Constants
<1>7. CASE attempts = 1
  <2>1. /\ spent' = [spent EXCEPT ![c] = cost]
        /\ call' = [call EXCEPT ![c].cost = cost, ![c].refused = refused, ![c].at = "settles"]
        /\ Queued(On[c], "settle", c)
    BY <1>5, <1>7 DEF Proven
  <2>2. PICK w : w = [call[c] EXCEPT !.cost = cost, !.refused = refused, !.at = "settles"]
    OBVIOUS
  <2>3. w \in Call /\ w.at = "settles" /\ w.cost = cost
    BY <1>1, <1>6, <2>2 DEF Call
  <2>4. call' = [call EXCEPT ![c] = w]
    BY <1>1, <2>1, <2>2
  <2>5. QueueMoves(c, w.at)
    BY <2>1, <2>3, AtOfs DEF QueueMoves
  <2>6. CallFits(c, w, cost, file[On[c]], unwritten[On[c]], forgotten)
    BY <1>3, <1>6, <2>3 DEF CallFits, Unsent
  <2>7. Move(c, w, cost)
    BY <1>2, <1>3, <1>4, <1>6, <2>1, <2>3, <2>4, <2>5, <2>6 DEF Move
  <2> QED
    BY <1>6, <2>3, <2>7, MoveKeeps
<1>8. CASE attempts # 1
  <2>1. /\ spent' = [spent EXCEPT ![c] = spent[c]]
        /\ call' = [call EXCEPT ![c].refused = refused, ![c].at = Ended(refused)]
        /\ UNCHANGED queue
    BY <1>1, <1>5, <1>8 DEF Proven
  <2>2. PICK at \in {"refused", "done"} : at = Ended(refused) /\ (at = "done" => ~refused)
    BY DEF Ended
  <2>3. PICK w : w = [call[c] EXCEPT !.refused = refused, !.at = at]
    OBVIOUS
  <2>4. w \in Call /\ w.at = at /\ w.refused = refused
    BY <1>1, <2>3 DEF Call
  <2>5. call' = [call EXCEPT ![c] = w]
    BY <1>1, <2>1, <2>2, <2>3
  <2>6. QueueMoves(c, w.at)
    BY <2>1 DEF QueueMoves
  <2>7. CallFits(c, w, spent[c], file[On[c]], unwritten[On[c]], forgotten)
    <3>1. spent[c] \in 0..Hold[c]
      BY <1>1, <1>3
    <3> QED
      BY <1>3, <2>2, <2>4, <3>1 DEF CallFits, Unsent
  <2>8. spent[c] <= spent[c]
    BY <1>1
  <2>9. Move(c, w, spent[c])
    BY <1>2, <1>4, <2>1, <2>2, <2>4, <2>5, <2>6, <2>7, <2>8 DEF Move
  <2> QED
    BY <1>1, <2>4, <2>9, MoveKeeps
<1> QED
  BY <1>7, <1>8

-----------------------------------------------------------------------------
(* The first task of a queue. *)

LEMMA FirstTask ==
  ASSUME IInv, NEW d \in Devices, NEW n \in Turn(d)
  PROVE  /\ n = 1 /\ 1 \in DOMAIN queue[d] /\ queue[d] \in Seq(Task) /\ queue[d][1] \in Task
         /\ queue[d][1].call \in Calls /\ On[queue[d][1].call] = d
         /\ call[queue[d][1].call].at = AtOf(queue[d][1].do)
         /\ TaskFits(d, queue[d][1], call, file[d]) /\ QueueFits(d, queue[d], call, file[d])
<1>1. n = 1 /\ 1 \in DOMAIN queue[d]
  BY DEF Turn
<1>2. queue[d] \in Seq(Task)
  BY DEF IInv, Types
<1>3. queue[d][1] \in Task
  BY <1>1, <1>2
<1>4. QueueFits(d, queue[d], call, file[d])
  BY DEF IInv, Fits
<1>5. TaskFits(d, queue[d][1], call, file[d])
  BY <1>1, <1>4 DEF QueueFits
<1> QED
  BY <1>1, <1>2, <1>3, <1>4, <1>5, TaskFields DEF TaskFits

\* The first task of a device goes on, and may have added a line that fits to its file.
Proceeds(d, a, lines) ==
  /\ queue' = [queue EXCEPT ![d][1].at = a] /\ file' = [file EXCEPT ![d] = lines]
  /\ UNCHANGED <<view, unwritten, call, spent, forgotten>> /\ mishaps' \in 0..MaxMishaps
  /\ file[d] \subseteq lines /\ \A l \in lines : LineFits(d, l, call[l.call], spent[l.call], lines)
  /\ a = "admitted" => queue[d][1].do = "hold"
  /\ a # "admitted" /\ queue[d][1].do = "hold" => queue[d][1].at = "admitted"
  /\ a = "written" /\ queue[d][1].do = "hold" => HoldLine(queue[d][1].call) \in lines
  /\ a = "written" /\ queue[d][1].do = "refusal" => RefusalLine(queue[d][1].call) \in lines
  /\ \A c \in apart' : c \in apart \/ (a = "admitted" /\ c = queue[d][1].call)
  /\ apart' \subseteq Calls

LEMMA ProceedsFits ==
  ASSUME IInv, NEW d \in Devices, NEW n \in Turn(d), NEW lines \in SUBSET Line,
         NEW a \in {"admitted", "written", "dropped"}, Proceeds(d, a, lines)
  PROVE  /\ Types' /\ Fits'
         /\ \A k \in Calls : /\ call'[k] = call[k] /\ spent'[k] = spent[k]
                             /\ Admitted(k, call'[k], queue'[On[k]]) =>
                                  \/ Admitted(k, call[k], queue[On[k]])
                                  \/ a = "admitted" /\ k = queue[d][1].call
<1>1. /\ n = 1 /\ 1 \in DOMAIN queue[d] /\ queue[d] \in Seq(Task) /\ queue[d][1] \in Task
      /\ queue[d][1].call \in Calls /\ On[queue[d][1].call] = d
      /\ call[queue[d][1].call].at = AtOf(queue[d][1].do)
      /\ TaskFits(d, queue[d][1], call, file[d]) /\ QueueFits(d, queue[d], call, file[d])
  BY FirstTask
<1>2. /\ queue \in [Devices -> Seq(Task)] /\ file \in [Devices -> SUBSET Line]
      /\ \A k \in Calls : On[k] \in Devices
  BY Constants DEF IInv, Types
<1>3. PICK t : t = queue[d][1]
  OBVIOUS
<1>4. PICK q : q = [queue[d] EXCEPT ![1].at = a]
  OBVIOUS
<1>5. /\ q \in Seq(Task) /\ DOMAIN q = DOMAIN queue[d]
      /\ \A m \in DOMAIN queue[d] : q[m] = IF m = 1 THEN [t EXCEPT !.at = a] ELSE queue[d][m]
  BY <1>1, <1>3, <1>4, Restated
<1>6. q[1].at = a /\ q[1].do = t.do /\ q[1].call = t.call
  BY <1>1, <1>3, <1>5 DEF Task
<1>7. queue' = [queue EXCEPT ![d] = q]
  BY <1>2, <1>4 DEF Proceeds
<1>8. queue'[d] = q /\ \A e \in Devices : e # d => queue'[e] = queue[e]
  BY <1>2, <1>7
<1>9. file'[d] = lines /\ \A e \in Devices : e # d => file'[e] = file[e]
  BY <1>2 DEF Proceeds
<1>10. \A e \in Devices : file[e] \subseteq file'[e]
  BY <1>9 DEF Proceeds
<1>11. /\ call' = call /\ spent' = spent /\ view' = view /\ unwritten' = unwritten
       /\ forgotten' = forgotten
  BY DEF Proceeds
<1>12. Types'
  <2>1. queue' \in [Devices -> Seq(Task)]
    BY <1>2, <1>5, <1>7
  <2>2. file' \in [Devices -> SUBSET Line]
    BY <1>2 DEF Proceeds
  <2> QED
    BY <1>11, <2>1, <2>2 DEF IInv, Types, Proceeds
<1>13. Fits'
  <2>1. QueueFits(d, q, call, lines)
    <3>1. /\ a = "admitted" => t.do = "hold"
          /\ a = "written" /\ t.do = "hold" => HoldLine(t.call) \in lines
          /\ a = "written" /\ t.do = "refusal" => RefusalLine(t.call) \in lines
          /\ file[d] \subseteq lines
      BY <1>3 DEF Proceeds
    <3> QED
      BY <1>1, <1>3, <1>4, <3>1, Continued
  <2>2. \A e \in Devices : QueueFits(e, queue'[e], call', file'[e])
    BY <1>8, <1>9, <1>11, <2>1 DEF IInv, Fits
  <2>3. \A e \in Devices : FileFits(e, file'[e], call', spent')
    <3>1. FileFits(d, lines, call, spent)
      BY DEF Proceeds, FileFits
    <3> QED
      BY <1>9, <1>11, <3>1 DEF IInv, Fits
  <2>4. \A e, f \in Devices : CopyFits(view'[e][f], file'[f])
    <3> TAKE e, f \in Devices
    <3>1. CopyFits(view[e][f], file[f])
      BY DEF IInv, Fits
    <3> QED
      BY <1>10, <1>11, <3>1 DEF CopyFits
  <2>5. ASSUME NEW k \in Calls
        PROVE  CallFits(k, call'[k], spent'[k], file'[On[k]], unwritten'[On[k]], forgotten')
    <3>1. CallFits(k, call[k], spent[k], file[On[k]], unwritten[On[k]], forgotten)
      BY DEF IInv, Fits
    <3>2. file[On[k]] \subseteq file'[On[k]]
      BY <1>2, <1>10
    <3> QED
      BY <1>11, <3>1, <3>2 DEF CallFits
  <2>6. ASSUME NEW k \in apart'
        PROVE  ApartFits(k, call'[k], queue'[On[k]])
    <3>1. k \in Calls /\ On[k] \in Devices
      BY <1>2 DEF Proceeds
    <3>2. CASE a = "admitted" /\ k = t.call
      <4>1. On[k] = d /\ call[k].at = "waits"
        BY <1>1, <1>3, <3>2, AtOfs DEF Proceeds
      <4>2. \A m \in DOMAIN q : q[m].call = k => q[m].at = "admitted"
        <5>1. QueueFits(d, q, call, lines)
          BY <2>1
        <5>2. 1 \in DOMAIN q /\ \A m \in DOMAIN q : q[m].call = q[1].call => m = 1
          BY <1>1, <1>5, <5>1 DEF QueueFits, Ordered
        <5> QED
          BY <1>6, <3>2, <5>2
      <4> QED
        BY <1>8, <1>11, <4>1, <4>2 DEF ApartFits
    <3>3. CASE k \in apart
      <4>1. ApartFits(k, call[k], queue[On[k]])
        BY <3>3 DEF IInv, Fits
      <4>2. CASE On[k] = d
        <5>1. \A m \in DOMAIN q : q[m].call = k /\ q[m].do = "hold" => q[m].at # "waiting"
          BY <1>3, <1>5, <1>6, <4>1, <4>2 DEF ApartFits
        <5> QED
          BY <1>8, <1>11, <4>1, <4>2, <5>1 DEF ApartFits
      <4>3. CASE On[k] # d
        BY <1>8, <1>11, <3>1, <4>1, <4>3
      <4> QED
        BY <4>2, <4>3
    <3> QED
      BY <1>3, <3>2, <3>3 DEF Proceeds
  <2> QED
    BY <2>2, <2>3, <2>4, <2>5, <2>6 DEF Fits
<1>14. ASSUME NEW k \in Calls
       PROVE  Admitted(k, call'[k], queue'[On[k]]) =>
                \/ Admitted(k, call[k], queue[On[k]])
                \/ a = "admitted" /\ k = queue[d][1].call
  <2>1. CASE On[k] # d
    BY <1>2, <1>8, <1>11, <2>1
  <2>2. CASE On[k] = d
    <3>1. ASSUME NEW m \in DOMAIN q, q[m].call = k, q[m].do = "hold",
                 q[m].at \in {"admitted", "written"}
          PROVE  \/ Admitted(k, call[k], queue[On[k]])
                 \/ a = "admitted" /\ k = queue[d][1].call
      <4>1. CASE m # 1
        BY <1>5, <2>2, <3>1, <4>1 DEF Admitted
      <4>2. CASE m = 1
        <5>1. k = t.call /\ t.do = "hold" /\ q[1].at = a
          BY <1>6, <3>1, <4>2
        <5>2. CASE t.at = "admitted"
          BY <1>1, <1>3, <2>2, <5>1, <5>2 DEF Admitted
        <5>3. CASE a = "admitted"
          BY <1>3, <5>1, <5>3
        <5> QED
          BY <1>3, <5>1, <5>2, <5>3 DEF Proceeds
      <4> QED
        BY <4>1, <4>2
    <3> QED
      BY <1>8, <1>11, <2>2, <3>1 DEF Admitted
  <2> QED
    BY <2>1, <2>2
<1> QED
  BY <1>11, <1>12, <1>13, <1>14

\* The line of a task.
LEMMA LineOfTask ==
  ASSUME IInv, NEW d \in Devices, NEW n \in Turn(d),
         NEW lines, lines = file[d] \cup {LineOf(queue[d][1])}
  PROVE  /\ LineOf(queue[d][1]) \in Line
         /\ LET l == LineOf(queue[d][1]) IN LineFits(d, l, call[l.call], spent[l.call], lines)
         /\ queue[d][1].do = "hold" => HoldLine(queue[d][1].call) = LineOf(queue[d][1])
         /\ queue[d][1].do = "refusal" => RefusalLine(queue[d][1].call) = LineOf(queue[d][1])
<1>1. PICK t \in Task : t = queue[d][1]
  BY FirstTask
<1>2. PICK c \in Calls : c = t.call
  BY TaskFields
<1>3. /\ On[c] = d /\ call[c].at = AtOf(t.do) /\ t.call = c
      /\ t.do \in {"hold", "settle", "release", "refusal"}
  BY <1>1, <1>2, FirstTask, TaskFields
<1>4. /\ call[c] \in Call /\ spent[c] \in Nat /\ Hold[c] \in Nat
      /\ CallFits(c, call[c], spent[c], file[d], unwritten[d], forgotten)
  BY <1>3, CallFields DEF IInv
<1>5. PICK l : l = LineOf(t)
  OBVIOUS
<1>6. l = [kind |-> t.do, call |-> c,
           usd |-> CASE t.do = "hold"   -> Hold[c]
                     [] t.do = "settle" -> call[c].cost
                     [] OTHER           -> 0]
  BY <1>3, <1>5 DEF LineOf
<1>7. call[c].cost \in Nat
  BY <1>4 DEF Call
<1>8. l.kind = t.do /\ l.call = c /\ l \in Line
  BY <1>3, <1>4, <1>6, <1>7 DEF Line
<1>9. CASE t.do = "hold"
  <2>1. l = HoldLine(c) /\ l.usd = Hold[c] /\ l.kind = "hold"
    BY <1>6, <1>9 DEF HoldLine
  <2>2. HoldLine(c) \in lines
    BY <1>1, <1>5, <2>1
  <2>3. LineFits(d, l, call[c], spent[c], lines)
    BY <1>3, <1>8, <2>1, <2>2 DEF LineFits
  <2> QED
    BY <1>1, <1>2, <1>5, <1>8, <1>9, <2>1, <2>3
<1>10. CASE t.do = "settle"
  <2>1. l.usd = call[c].cost /\ l.kind = "settle" /\ call[c].at = "settles"
    BY <1>3, <1>6, <1>10, AtOfs
  <2>2. HoldLine(c) \in file[d] /\ call[c].cost = spent[c]
    BY <1>4, <2>1 DEF CallFits, Held
  <2>3. LineFits(d, l, call[c], spent[c], lines)
    BY <1>3, <1>8, <2>1, <2>2 DEF LineFits, Settled
  <2> QED
    BY <1>1, <1>2, <1>5, <1>8, <1>10, <2>3
<1>11. CASE t.do = "release"
  <2>1. l.kind = "release" /\ call[c].at = "releases"
    BY <1>3, <1>8, <1>11, AtOfs
  <2>2. HoldLine(c) \in file[d] /\ spent[c] = 0
    BY <1>4, <2>1 DEF CallFits, Held, Unsent
  <2>3. LineFits(d, l, call[c], spent[c], lines)
    BY <1>3, <1>8, <2>1, <2>2 DEF LineFits
  <2> QED
    BY <1>1, <1>2, <1>5, <1>8, <1>11, <2>3
<1>12. CASE t.do = "refusal"
  <2>1. l.kind = "refusal" /\ call[c].at = "records" /\ l = RefusalLine(c) /\ l.usd = 0
    BY <1>3, <1>6, <1>8, <1>12, AtOfs DEF RefusalLine
  <2>2. HoldLine(c) \in file[d]
    BY <1>4, <2>1 DEF CallFits, Held
  <2>3. LineFits(d, l, call[c], spent[c], lines)
    BY <1>3, <1>8, <2>1, <2>2 DEF LineFits
  <2> QED
    BY <1>1, <1>2, <1>5, <1>8, <1>12, <2>1, <2>3
<1> QED
  BY <1>3, <1>9, <1>10, <1>11, <1>12

\* A task that goes on without letting a call through keeps the budget.
LEMMA ProceedsKeeps ==
  ASSUME IInv, NEW d \in Devices, NEW n \in Turn(d), NEW lines \in SUBSET Line,
         NEW a \in {"written", "dropped"}, Proceeds(d, a, lines), apart' = apart
  PROVE  IInv'
<1>1. /\ Types' /\ Fits'
      /\ \A k \in Calls : /\ call'[k] = call[k] /\ spent'[k] = spent[k]
                          /\ Admitted(k, call'[k], queue'[On[k]]) =>
                               Admitted(k, call[k], queue[On[k]])
  <2>1. PICK b \in {"admitted", "written", "dropped"} : b = a
    OBVIOUS
  <2>2. Proceeds(d, b, lines) /\ b # "admitted"
    BY <2>1
  <2> QED
    BY <2>2, ProceedsFits
<1>2. \A k \in Calls : com'[k] <= com[k]
  <2> TAKE k \in Calls
  <2>1. spent'[k] <= com[k]
    BY <1>1, ComCovers DEF IInv
  <2> QED
    BY <1>1, <2>1, ComFalls DEF IInv
<1> QED
  BY <1>1, <1>2, BudgetKept DEF IInv

LEMMA LinesKept ==
  ASSUME IInv, NEW d \in Devices, NEW lines, file[d] \subseteq lines
  PROVE  \A l \in file[d] : LineFits(d, l, call[l.call], spent[l.call], lines)
<1>1. \A l \in file[d] : LineFits(d, l, call[l.call], spent[l.call], file[d])
  BY DEF IInv, Fits, FileFits
<1> QED
  BY <1>1 DEF LineFits

LEMMA AppendsKeeps ==
  ASSUME IInv, NEW d \in Devices, Appends(d)
  PROVE  IInv'
<1>1. PICK n \in Turn(d) :
        LET t == Nth(d, n) IN
        /\ t.at = IF t.do = "hold" THEN "admitted" ELSE "waiting"
        /\ file' = [file EXCEPT ![d] = @ \cup {LineOf(t)}]
        /\ queue' = [queue EXCEPT ![d][n].at = "written"]
  BY DEF Appends
<1>2. /\ n = 1 /\ Nth(d, n) = queue[d][1]
      /\ queue[d][1].do \in {"hold", "settle", "release", "refusal"}
  BY FirstTask, TaskFields DEF Nth
<1>3. PICK lines : lines = file[d] \cup {LineOf(queue[d][1])}
  OBVIOUS
<1>4. /\ LineOf(queue[d][1]) \in Line
      /\ LET l == LineOf(queue[d][1]) IN LineFits(d, l, call[l.call], spent[l.call], lines)
      /\ queue[d][1].do = "hold" => HoldLine(queue[d][1].call) = LineOf(queue[d][1])
      /\ queue[d][1].do = "refusal" => RefusalLine(queue[d][1].call) = LineOf(queue[d][1])
  BY <1>3, LineOfTask
<1>5. lines \in SUBSET Line /\ file[d] \subseteq lines
  BY <1>3, <1>4 DEF IInv, Types
<1>6. \A l \in lines : LineFits(d, l, call[l.call], spent[l.call], lines)
  BY <1>3, <1>4, <1>5, LinesKept
<1>7. /\ queue' = [queue EXCEPT ![d][1].at = "written"] /\ file' = [file EXCEPT ![d] = lines]
      /\ queue[d][1].at = IF queue[d][1].do = "hold" THEN "admitted" ELSE "waiting"
  BY <1>1, <1>2, <1>3
<1>8. /\ UNCHANGED <<view, unwritten, call, spent, forgotten>> /\ mishaps' \in 0..MaxMishaps
      /\ apart' = apart /\ apart \subseteq Calls
  BY DEF Appends, IInv, Types
<1>9. Proceeds(d, "written", lines)
  BY <1>3, <1>4, <1>5, <1>6, <1>7, <1>8 DEF Proceeds
<1>10. PICK a \in {"written", "dropped"} : Proceeds(d, a, lines)
  BY <1>9
<1> QED
  BY <1>5, <1>8, <1>10, ProceedsKeeps

LEMMA DropsKeeps ==
  ASSUME IInv, NEW d \in Devices, Drops(d)
  PROVE  IInv'
<1>1. PICK n \in Turn(d) :
        LET t == Nth(d, n) IN
        /\ t.at = IF t.do = "hold" THEN "admitted" ELSE "waiting"
        /\ queue' = [queue EXCEPT ![d][n].at = "dropped"]
  BY DEF Drops
<1>2. n = 1 /\ Nth(d, n) = queue[d][1]
  BY FirstTask DEF Nth
<1>3. PICK lines : lines = file[d]
  OBVIOUS
<1>4. lines \in SUBSET Line /\ file[d] \subseteq lines
  BY <1>3 DEF IInv, Types
<1>5. \A l \in lines : LineFits(d, l, call[l.call], spent[l.call], lines)
  BY <1>3, <1>4, LinesKept
<1>6. /\ queue' = [queue EXCEPT ![d][1].at = "dropped"]
      /\ queue[d][1].at = IF queue[d][1].do = "hold" THEN "admitted" ELSE "waiting"
  BY <1>1, <1>2
<1>7. file' = [file EXCEPT ![d] = lines]
  BY <1>3 DEF Drops, IInv, Types
<1>8. /\ UNCHANGED <<view, unwritten, call, spent, forgotten>>
      /\ apart' = apart /\ apart \subseteq Calls
  BY DEF Drops, IInv, Types
<1>9. mishaps' \in 0..MaxMishaps
  BY Mishaps DEF Drops, IInv
<1>10. Proceeds(d, "dropped", lines)
  BY <1>4, <1>5, <1>6, <1>7, <1>8, <1>9 DEF Proceeds
<1>11. PICK a \in {"written", "dropped"} : Proceeds(d, a, lines)
  BY <1>10
<1> QED
  BY <1>4, <1>8, <1>11, ProceedsKeeps

\* The first task of a device leaves its queue, and its call goes on.
Leaves(d, c, at, refusals) ==
  /\ c = queue[d][1].call
  /\ queue' = Without(d, 1) /\ Moves(c, at) /\ unwritten' = [unwritten EXCEPT ![d] = refusals]
  /\ UNCHANGED <<file, view, spent, apart, forgotten>> /\ mishaps' \in 0..MaxMishaps
  /\ unwritten[d] \subseteq refusals /\ at \notin {"new", "asks"}
  /\ call[c].at \in Early \/ Advances(call[c].at, at)
  /\ at = "granted" => Admitted(c, call[c], queue[d])
  /\ \A w \in Call : w.at = at /\ w.refused = call[c].refused /\ w.before = call[c].before
                     /\ w.cost = call[c].cost =>
       CallFits(c, w, spent[c], file[d], refusals, forgotten)

LEMMA LeavesKeeps ==
  ASSUME IInv, NEW d \in Devices, NEW n \in Turn(d), NEW c \in Calls, NEW at \in States,
         NEW refusals \in SUBSET Calls, Leaves(d, c, at, refusals)
  PROVE  IInv'
<1>1. /\ 1 \in DOMAIN queue[d] /\ queue[d] \in Seq(Task) /\ c = queue[d][1].call
      /\ On[c] = d /\ QueueFits(d, queue[d], call, file[d])
  BY FirstTask DEF Leaves
<1>2. /\ queue \in [Devices -> Seq(Task)] /\ file \in [Devices -> SUBSET Line]
      /\ unwritten \in [Devices -> SUBSET Calls] /\ call \in [Calls -> Call]
      /\ apart \subseteq Calls /\ spent \in [Calls -> Nat]
      /\ \A k \in Calls : On[k] \in Devices
  BY Constants DEF IInv, Types
<1>3. PICK w \in Call : /\ w = [call[c] EXCEPT !.at = at]
                        /\ w.at = at /\ w.cost = call[c].cost
                        /\ w.refused = call[c].refused /\ w.before = call[c].before
  BY <1>2, Restanding
<1>4. call' = [call EXCEPT ![c] = w]
  BY <1>2, <1>3 DEF Leaves, Moves
<1>5. call'[c] = w /\ (\A k \in Calls : k # c => call'[k] = call[k]) /\ call' \in [Calls -> Call]
  BY <1>2, <1>4
<1>6. PICK p \in Seq(Task) :
        /\ p = RemoveAt(queue[d], 1)
        /\ \A m \in DOMAIN p : /\ m + 1 \in DOMAIN queue[d] /\ m \in Nat \ {0}
                               /\ p[m] = queue[d][m + 1]
  BY <1>1, Headless
<1>7. queue' = [queue EXCEPT ![d] = p]
  BY <1>2, <1>6 DEF Leaves, Without
<1>8. queue'[d] = p /\ \A e \in Devices : e # d => queue'[e] = queue[e]
  BY <1>2, <1>7
<1>9. /\ file' = file /\ view' = view /\ spent' = spent /\ apart' = apart
      /\ forgotten' = forgotten /\ mishaps' \in 0..MaxMishaps
      /\ unwritten'[d] = refusals /\ \A e \in Devices : e # d => unwritten'[e] = unwritten[e]
      /\ unwritten' \in [Devices -> SUBSET Calls]
  BY <1>2 DEF Leaves
<1>10. Types'
  <2>1. queue' \in [Devices -> Seq(Task)]
    BY <1>2, <1>7
  <2> QED
    BY <1>5, <1>9, <2>1 DEF IInv, Types
<1>11. QueueFits(d, p, call', file[d]) /\ \A m \in DOMAIN p : p[m].call # c
  <2>1. PICK cl2 : cl2 = call'
    OBVIOUS
  <2>2. PICK q \in Seq(Task) : q = queue[d]
    BY <1>1
  <2>3. /\ QueueFits(d, q, call, file[d]) /\ 1 \in DOMAIN q
        /\ \A k \in Calls : k # q[1].call => cl2[k] = call[k]
    BY <1>1, <1>5, <2>1, <2>2
  <2>4. /\ QueueFits(d, RemoveAt(q, 1), cl2, file[d])
        /\ \A m \in DOMAIN RemoveAt(q, 1) : RemoveAt(q, 1)[m].call # q[1].call
    BY <2>3, Dequeued
  <2> QED
    BY <1>1, <1>6, <2>1, <2>2, <2>4
<1>12. ASSUME NEW e \in Devices
       PROVE  QueueFits(e, queue'[e], call', file'[e])
  <2>1. CASE e = d
    BY <1>8, <1>9, <1>11, <2>1
  <2>2. CASE e # d
    <3>1. QueueFits(e, queue[e], call, file[e]) /\ queue[e] \in Seq(Task)
      BY <1>2 DEF IInv, Fits
    <3>2. \A m \in DOMAIN queue[e] : queue[e][m].call # c /\ queue[e][m].call \in Calls
      <4> TAKE m \in DOMAIN queue[e]
      <4>1. queue[e][m] \in Task
        BY <3>1
      <4> QED
        BY <1>1, <2>2, <3>1, <4>1, TaskFields DEF QueueFits, TaskFits
    <3> QED
      BY <1>5, <1>8, <1>9, <2>2, <3>1, <3>2 DEF QueueFits, TaskFits
  <2> QED
    BY <2>1, <2>2
<1>13. \A e \in Devices : FileFits(e, file[e], call', spent)
  <2> TAKE e \in Devices
  <2>1. PICK cl2 : cl2 = call'
    OBVIOUS
  <2>2. FileFits(e, file[e], call, spent) /\ file[e] \in SUBSET Line
    BY <1>2 DEF IInv, Fits
  <2>3. \A k \in Calls : k # c => cl2[k] = call[k] /\ spent[k] = spent[k]
    BY <1>5, <2>1
  <2>4. \/ call[c].at \in Early
        \/ spent[c] = spent[c] /\ Advances(call[c].at, cl2[c].at)
    BY <1>3, <1>5, <2>1 DEF Leaves
  <2>5. FileFits(e, file[e], cl2, spent)
    BY <2>2, <2>3, <2>4, FileKept
  <2> QED
    BY <2>1, <2>5
<1>14. ASSUME NEW k \in Calls
       PROVE  CallFits(k, call'[k], spent[k], file[On[k]], unwritten'[On[k]], forgotten)
  <2>1. CASE k = c
    <3>1. CallFits(c, w, spent[c], file[d], refusals, forgotten)
      BY <1>3 DEF Leaves
    <3> QED
      BY <1>1, <1>5, <1>9, <2>1, <3>1
  <2>2. CASE k # c
    <3>1. CallFits(k, call[k], spent[k], file[On[k]], unwritten[On[k]], forgotten)
      BY DEF IInv, Fits
    <3>2. unwritten[On[k]] \subseteq unwritten'[On[k]] /\ call'[k] = call[k]
      BY <1>2, <1>5, <1>9, <2>2 DEF Leaves
    <3> QED
      BY <3>1, <3>2 DEF CallFits
  <2> QED
    BY <2>1, <2>2
<1>15. ASSUME NEW k \in apart
       PROVE  ApartFits(k, call'[k], queue'[On[k]])
  <2>1. ApartFits(k, call[k], queue[On[k]]) /\ k \in Calls /\ On[k] \in Devices
    BY <1>2 DEF IInv, Fits
  <2>2. call'[k].at \notin {"new", "asks"}
    BY <1>3, <1>5, <2>1 DEF ApartFits, Leaves
  <2>3. CASE On[k] = d
    BY <1>6, <1>8, <2>1, <2>2, <2>3 DEF ApartFits
  <2>4. CASE On[k] # d
    BY <1>8, <2>1, <2>2, <2>4 DEF ApartFits
  <2> QED
    BY <2>3, <2>4
<1>16. Fits'
  <2>1. \A e, f \in Devices : CopyFits(view[e][f], file[f])
    BY DEF IInv, Fits
  <2> QED
    BY <1>9, <1>12, <1>13, <1>14, <1>15, <2>1 DEF Fits
<1>17. ASSUME NEW k \in Calls
       PROVE  Admitted(k, call'[k], queue'[On[k]]) => Admitted(k, call[k], queue[On[k]])
  <2>1. CASE k = c
    <3>1. Admitted(k, call'[k], queue'[On[k]]) => at = "granted"
      <4>1. call'[k].at = at /\ queue'[On[k]] = p
        BY <1>1, <1>3, <1>5, <1>8, <2>1
      <4>2. \A m \in DOMAIN p : p[m].call # k
        BY <1>11, <2>1
      <4> QED
        BY <4>1, <4>2 DEF Admitted
    <3> QED
      BY <1>1, <2>1, <3>1 DEF Leaves
  <2>2. CASE k # c /\ On[k] = d
    BY <1>5, <1>6, <1>8, <2>2 DEF Admitted
  <2>3. CASE k # c /\ On[k] # d
    BY <1>2, <1>5, <1>8, <2>3
  <2> QED
    BY <2>1, <2>2, <2>3
<1>18. \A k \in Calls : com'[k] <= com[k]
  <2> TAKE k \in Calls
  <2>1. spent'[k] <= com[k]
    BY <1>9, ComCovers DEF IInv
  <2> QED
    BY <1>17, <2>1, ComFalls DEF IInv
<1> QED
  BY <1>9, <1>10, <1>16, <1>18, BudgetKept DEF IInv

\* Where the call of a task goes on, landed or not.
Finishes(t, at, refusals) ==
  /\ t.do = "hold" => at = "declined" \/ (at = "granted" /\ t.at = "written")
  /\ t.do # "hold" => at = GoesOn(t.call)
  /\ t.do = "refusal" => t.at = "written" \/ t.call \in refusals

LEMMA FinishesKeeps ==
  ASSUME IInv, NEW d \in Devices, NEW n \in Turn(d), NEW at, NEW refusals \in SUBSET Calls,
         queue' = Without(d, 1), Moves(queue[d][1].call, at),
         unwritten' = [unwritten EXCEPT ![d] = refusals], unwritten[d] \subseteq refusals,
         UNCHANGED <<file, view, spent, apart, forgotten>>, mishaps' \in 0..MaxMishaps,
         Finishes(queue[d][1], at, refusals)
  PROVE  IInv'
<1>1. PICK t \in Task : t = queue[d][1]
  BY FirstTask
<1>2. PICK c \in Calls : c = t.call
  BY TaskFields
<1>3. /\ On[c] = d /\ call[c].at = AtOf(t.do) /\ t.call = c /\ 1 \in DOMAIN queue[d]
      /\ t.do \in {"hold", "settle", "release", "refusal"}
      /\ TaskFits(d, t, call, file[d])
  BY <1>1, <1>2, FirstTask, TaskFields
<1>4. /\ call[c] \in Call /\ spent[c] \in Nat /\ Hold[c] \in Nat
      /\ CallFits(c, call[c], spent[c], file[d], unwritten[d], forgotten)
  BY <1>3, CallFields DEF IInv
<1>5. /\ at \in States /\ at \notin {"new", "asks"}
      /\ call[c].at \in Early \/ Advances(call[c].at, at)
      /\ at = "granted" => Admitted(c, call[c], queue[d])
      /\ \A w \in Call : w.at = at /\ w.refused = call[c].refused /\ w.before = call[c].before
                         /\ w.cost = call[c].cost =>
           CallFits(c, w, spent[c], file[d], refusals, forgotten)
  <2>1. CASE t.do = "hold"
    <3>1. call[c].at = "waits" /\ call[c].at \in Early
      BY <1>3, <2>1, AtOfs DEF Early
    <3>2. at = "declined" \/ (at = "granted" /\ t.at = "written")
      BY <1>1, <2>1 DEF Finishes
    <3>3. at = "granted" => HoldLine(c) \in file[d] /\ Admitted(c, call[c], queue[d])
      BY <1>1, <1>3, <2>1, <3>2 DEF TaskFits, Admitted
    <3>4. \A w \in Call : w.at = at /\ w.refused = call[c].refused /\ w.before = call[c].before
                          /\ w.cost = call[c].cost =>
            CallFits(c, w, spent[c], file[d], refusals, forgotten)
      BY <1>4, <3>1, <3>2, <3>3 DEF CallFits, Held, Unsent
    <3> QED
      BY <3>1, <3>2, <3>3, <3>4 DEF States
  <2>2. CASE t.do = "settle"
    <3>1. call[c].at = "settles" /\ at = Ended(call[c].refused)
      BY <1>1, <1>3, <2>2, AtOfs DEF Finishes, GoesOn
    <3>2. at \in {"refused", "done"} /\ (at = "done" => ~call[c].refused)
      BY <3>1 DEF Ended
    <3>3. \A w \in Call : w.at = at /\ w.refused = call[c].refused /\ w.before = call[c].before
                          /\ w.cost = call[c].cost =>
            CallFits(c, w, spent[c], file[d], refusals, forgotten)
      BY <1>4, <3>1, <3>2 DEF CallFits, Held, Unsent
    <3>4. Advances(call[c].at, at)
      BY <3>1, <3>2 DEF Advances, Settled
    <3> QED
      BY <3>2, <3>3, <3>4 DEF States
  <2>3. CASE t.do = "release"
    <3>1. call[c].at = "releases" /\ at = "done"
      BY <1>1, <1>3, <2>3, AtOfs DEF Finishes, GoesOn
    <3>2. \A w \in Call : w.at = at /\ w.refused = call[c].refused /\ w.before = call[c].before
                          /\ w.cost = call[c].cost =>
            CallFits(c, w, spent[c], file[d], refusals, forgotten)
      BY <1>4, <3>1 DEF CallFits, Held, Unsent
    <3>3. Advances(call[c].at, at)
      BY <3>1 DEF Advances, Settled
    <3> QED
      BY <3>1, <3>2, <3>3 DEF States
  <2>4. CASE t.do = "refusal"
    <3>1. call[c].at = "records" /\ at = "done"
      BY <1>1, <1>3, <2>4, AtOfs DEF Finishes, GoesOn
    <3>2. RefusalLine(c) \in file[d] \/ c \in refusals
      BY <1>1, <1>3, <2>4 DEF Finishes, TaskFits
    <3>3. \A w \in Call : w.at = at /\ w.refused = call[c].refused /\ w.before = call[c].before
                          /\ w.cost = call[c].cost =>
            CallFits(c, w, spent[c], file[d], refusals, forgotten)
      BY <1>4, <3>1, <3>2 DEF CallFits, Held, Unsent
    <3>4. Advances(call[c].at, at)
      BY <3>1 DEF Advances, Settled
    <3> QED
      BY <3>1, <3>3, <3>4 DEF States
  <2> QED
    BY <1>3, <2>1, <2>2, <2>3, <2>4
<1>6. Leaves(d, c, at, refusals)
  BY <1>1, <1>2, <1>5 DEF Leaves
<1> QED
  BY <1>5, <1>6, LeavesKeeps

LEMMA FailedKeeps ==
  ASSUME IInv, NEW d \in Devices, NEW n \in Turn(d), Failed(d, queue[d][1]),
         queue' = Without(d, 1), UNCHANGED <<file, view, spent, apart, forgotten>>,
         mishaps' \in 0..MaxMishaps
  PROVE  IInv'
<1>1. PICK t \in Task : t = queue[d][1]
  BY FirstTask
<1>2. t.call \in Calls /\ unwritten \in [Devices -> SUBSET Calls]
  BY TaskFields DEF IInv, Types
<1>3. PICK at : at = IF t.do = "hold" THEN "declined" ELSE GoesOn(t.call)
  OBVIOUS
<1>4. Moves(queue[d][1].call, at)
  BY <1>1, <1>3 DEF Failed
<1>5. PICK refusals \in SUBSET Calls :
        refusals = IF t.do = "refusal" THEN unwritten[d] \cup {t.call} ELSE unwritten[d]
  BY <1>2
<1>6. unwritten' = [unwritten EXCEPT ![d] = refusals] /\ unwritten[d] \subseteq refusals
  BY <1>1, <1>2, <1>5 DEF Failed
<1>7. Finishes(queue[d][1], at, refusals)
  BY <1>1, <1>3, <1>5 DEF Finishes
<1> QED
  BY <1>4, <1>6, <1>7, FinishesKeeps

LEMMA ReadsBackKeeps ==
  ASSUME IInv, NEW d \in Devices, ReadsBack(d)
  PROVE  IInv'
<1>1. PICK n \in Turn(d) :
        LET t == Nth(d, n) IN
        /\ t.at \in {"written", "dropped"}
        /\ IF Landed(t)
           THEN /\ queue' = Without(d, n)
                /\ Moves(t.call, GoesOn(t.call))
                /\ UNCHANGED unwritten
           ELSE /\ queue' = AfterFailure(d, n)
                /\ Failed(d, t)
  BY DEF ReadsBack
<1>2. n = 1 /\ Nth(d, n) = queue[d][1]
  BY FirstTask DEF Nth
<1>3. UNCHANGED <<file, view, spent, apart, forgotten>> /\ mishaps' \in 0..MaxMishaps
  BY DEF ReadsBack, IInv, Types
<1>4. CASE Landed(queue[d][1])
  <2>1. /\ queue' = Without(d, 1) /\ Moves(queue[d][1].call, GoesOn(queue[d][1].call))
        /\ UNCHANGED unwritten /\ queue[d][1].at = "written"
    BY <1>1, <1>2, <1>4 DEF Landed
  <2>2. PICK refusals \in SUBSET Calls : refusals = unwritten[d]
    BY DEF IInv, Types
  <2>3. unwritten' = [unwritten EXCEPT ![d] = refusals] /\ unwritten[d] \subseteq refusals
    BY <2>1, <2>2 DEF IInv, Types
  <2>4. PICK at : at = GoesOn(queue[d][1].call)
    OBVIOUS
  <2>5. queue[d][1].do = "hold" => at = "granted"
    BY <2>4, FirstTask, AtOfs DEF GoesOn
  <2>6. Finishes(queue[d][1], at, refusals)
    BY <2>1, <2>4, <2>5 DEF Finishes
  <2> QED
    BY <1>3, <2>1, <2>3, <2>4, <2>6, FinishesKeeps
<1>5. CASE ~Landed(queue[d][1])
  <2>1. queue' = Without(d, 1) /\ Failed(d, queue[d][1])
    BY <1>1, <1>2, <1>5 DEF AfterFailure
  <2> QED
    BY <1>3, <2>1, FailedKeeps
<1> QED
  BY <1>4, <1>5

LEMMA TaskFailsKeeps ==
  ASSUME IInv, NEW d \in Devices, TaskFails(d)
  PROVE  IInv'
<1>1. PICK n \in Turn(d) : queue' = AfterFailure(d, n) /\ Failed(d, Nth(d, n))
  BY DEF TaskFails
<1>2. n = 1
  BY FirstTask
<1>3. queue' = Without(d, 1) /\ Failed(d, queue[d][1])
  BY <1>1, <1>2 DEF AfterFailure, Nth
<1>4. UNCHANGED <<file, view, spent, apart, forgotten>>
  BY DEF TaskFails
<1>5. mishaps' \in 0..MaxMishaps
  BY Mishaps DEF TaskFails, IInv
<1> QED
  BY <1>3, <1>4, <1>5, FailedKeeps

-----------------------------------------------------------------------------
(* Letting a call through. *)

\* With nothing unseen, a device counts what every other call may come to.
LEMMA AllSeen ==
  ASSUME Types, Fits, NEW d \in Devices, Unseen(d) = {},
         NEW n \in Turn(d), queue[d][n].at = "waiting", NEW k \in Calls
  PROVE  com[k] <= Value(k, Known(d)) /\ Value(k, Known(d)) \in Nat
<1>1. /\ Value(k, Known(d)) \in Nat
      /\ HoldLine(k) \in Known(d) => com[k] <= Value(k, Known(d))
      /\ \A l \in Known(d) : l.call = k => HoldLine(k) \in Known(d)
  BY ValueCovers
<1>2. CASE HoldLine(k) \in Known(d)
  BY <1>1, <1>2
<1>3. ASSUME HoldLine(k) \notin Known(d)
      PROVE  com[k] = 0
  <2>1. On[k] \in Devices /\ file[d] \subseteq Known(d)
    BY Constants DEF Known
  <2>2. CallFits(k, call[k], spent[k], file[On[k]], unwritten[On[k]], forgotten)
    BY DEF Fits
  <2>3. HoldLine(k).call = k /\ HoldLine(k).kind = "hold"
    BY DEF HoldLine
  <2>4. ~ \E l \in Known(d) : l.call = k /\ l.kind = "hold"
    BY <1>1, <1>3
  <2>5. HoldLine(k) \notin file[On[k]]
    <3>1. CASE On[k] = d
      BY <1>3, <2>1, <3>1
    <3>2. CASE On[k] # d
      BY <2>3, <2>4, <3>2 DEF Unseen
    <3> QED
      BY <3>1, <3>2
  <2>6. ASSUME NEW m \in DOMAIN queue[On[k]], queue[On[k]][m].call = k,
               queue[On[k]][m].do = "hold", queue[On[k]][m].at \in {"admitted", "written"}
        PROVE  FALSE
    <3>1. QueueFits(On[k], queue[On[k]], call, file[On[k]])
      BY <2>1 DEF Fits
    <3>2. queue[On[k]][m].at = "admitted"
      BY <2>5, <2>6, <3>1 DEF QueueFits, TaskFits
    <3>3. CASE On[k] = d
      <4>1. m = 1 /\ n = 1
        BY <3>1, <3>2 DEF QueueFits, Ordered, Turn
      <4> QED
        BY <3>2, <3>3, <4>1
    <3>4. CASE On[k] # d
      BY <2>4, <2>6, <3>2, <3>4 DEF Unseen
    <3> QED
      BY <3>3, <3>4
  <2>7. call[k].at # "granted" /\ spent[k] = 0
    BY <2>2, <2>5 DEF CallFits, Held
  <2>8. ~Admitted(k, call[k], queue[On[k]])
    BY <2>6, <2>7 DEF Admitted
  <2> QED
    BY <2>7, <2>8 DEF com
<1> QED
  BY <1>1, <1>2, <1>3

\* The sum over any set of calls, when one is let through.
LEMMA OneMore ==
  ASSUME NEW v, NEW w, NEW S \in SUBSET Calls, NEW c \in Calls,
         \A k \in Calls : v[k] \in Nat /\ w[k] \in Nat,
         \A k \in Calls : k # c => w[k] <= v[k], w[c] <= Hold[c]
  PROVE  /\ SumFunctionOnSet(w, S) \in Nat /\ SumFunctionOnSet(v, S) \in Nat
         /\ c \in S => SumFunctionOnSet(w, S) <= Hold[c] + SumFunctionOnSet(v, S)
         /\ c \notin S => SumFunctionOnSet(w, S) <= SumFunctionOnSet(v, S)
<1>1. IsFiniteSet(S) /\ \A k \in S : v[k] \in Nat /\ w[k] \in Nat
  BY FiniteCalls
<1>2. SumFunctionOnSet(w, S) \in Nat /\ SumFunctionOnSet(v, S) \in Nat
  BY <1>1, SumIsNatural
<1>3. ASSUME c \in S PROVE SumFunctionOnSet(w, S) <= Hold[c] + SumFunctionOnSet(v, S)
  <2>1. \A k \in S : k # c => w[k] <= v[k]
    OBVIOUS
  <2>2. SumFunctionOnSet(w, S) <= w[c] + SumFunctionOnSet(v, S \ {c})
    BY <1>1, <1>3, <2>1, SumChanges
  <2>3. PICK R : R = S \ {c}
    OBVIOUS
  <2>4. R \in SUBSET S /\ \A k \in R : v[k] \in Nat /\ v[k] <= v[k]
    BY <1>1, <2>3
  <2>5. SumFunctionOnSet(v, R) <= SumFunctionOnSet(v, S)
    BY <1>1, <2>4, SumGrows
  <2>6. SumFunctionOnSet(v, R) \in Nat
    <3>1. IsFiniteSet(R)
      BY <1>1, <2>4, FS_Subset
    <3> QED
      BY <2>4, <3>1, SumIsNatural
  <2>7. w[c] \in Nat /\ Hold[c] \in Nat /\ w[c] <= Hold[c]
    BY Constants
  <2> QED
    BY <1>2, <2>2, <2>3, <2>5, <2>6, <2>7
<1>4. ASSUME c \notin S PROVE SumFunctionOnSet(w, S) <= SumFunctionOnSet(v, S)
  <2>1. S \in SUBSET S /\ \A k \in S : w[k] \in Nat /\ w[k] <= v[k]
    BY <1>1, <1>4
  <2> QED
    BY <1>1, <2>1, SumGrows
<1> QED
  BY <1>2, <1>3, <1>4

LEMMA ReadsDeclinesKeeps ==
  ASSUME IInv, NEW d \in Devices, NEW n \in Turn(d), queue[d][1].do = "hold",
         queue' = Without(d, 1), Moves(queue[d][1].call, "declined"),
         UNCHANGED <<file, view, unwritten, spent, apart, forgotten>>, mishaps' \in 0..MaxMishaps
  PROVE  IInv'
<1>1. PICK refusals \in SUBSET Calls : refusals = unwritten[d]
  BY DEF IInv, Types
<1>2. unwritten' = [unwritten EXCEPT ![d] = refusals] /\ unwritten[d] \subseteq refusals
  BY <1>1 DEF IInv, Types
<1>3. Finishes(queue[d][1], "declined", refusals)
  BY DEF Finishes
<1> QED
  BY <1>2, <1>3, FinishesKeeps

LEMMA ReadsAdmitsKeeps ==
  ASSUME IInv, NEW d \in Devices, NEW n \in Turn(d), NEW c \in Calls, c = queue[d][1].call,
         queue[d][1].do = "hold", queue[d][1].at = "waiting", Admits(c, Known(d)),
         queue' = [queue EXCEPT ![d][1].at = "admitted"],
         apart' = IF Unseen(d) = {} THEN apart ELSE apart \cup {c},
         UNCHANGED <<file, view, unwritten, call, spent, forgotten>>, mishaps' \in 0..MaxMishaps
  PROVE  IInv'
<1>1. Types /\ Fits /\ Budget /\ apart \subseteq Calls /\ file \in [Devices -> SUBSET Line]
  BY DEF IInv, Types
<1>2. PICK lines \in SUBSET Line : lines = file[d]
  BY <1>1
<1>3. \A l \in lines : LineFits(d, l, call[l.call], spent[l.call], lines)
  BY <1>2, LinesKept
<1>4. file' = [file EXCEPT ![d] = lines]
  BY <1>1, <1>2
<1>5. Proceeds(d, "admitted", lines)
  BY <1>1, <1>2, <1>3, <1>4 DEF Proceeds
<1>6. /\ Types' /\ Fits'
      /\ \A k \in Calls : /\ call'[k] = call[k] /\ spent'[k] = spent[k]
                          /\ Admitted(k, call'[k], queue'[On[k]]) =>
                               \/ Admitted(k, call[k], queue[On[k]])
                               \/ k = c
  <2>1. PICK a \in {"admitted", "written", "dropped"} : a = "admitted" /\ Proceeds(d, a, lines)
    BY <1>5
  <2> QED
    BY <2>1, ProceedsFits
<1>7. PICK v : v = com
  OBVIOUS
<1>8. PICK w : w = com'
  OBVIOUS
<1>9. \A k \in Calls : v[k] \in Nat /\ w[k] \in Nat
  <2>1. \A k \in Calls : com[k] \in Nat /\ com'[k] \in Nat
    BY <1>1, <1>6, ComsAreNatural
  <2> QED
    BY <1>7, <1>8, <2>1
<1>10. \A k \in Calls : k # c => w[k] <= v[k]
  <2> TAKE k \in Calls
  <2> HAVE k # c
  <2>1. spent'[k] <= com[k]
    BY <1>1, <1>6, ComCovers
  <2>2. com'[k] <= com[k]
    BY <1>1, <1>6, <2>1, ComFalls
  <2> QED
    BY <1>7, <1>8, <2>2
<1>11. w[c] <= Hold[c]
  <2>1. spent'[c] \in 0..Hold[c] /\ Hold[c] \in Nat
    BY <1>1, <1>6, ComCovers, Constants
  <2>2. com'[c] = IF Admitted(c, call'[c], queue'[On[c]]) THEN Hold[c] ELSE spent'[c]
    BY DEF com, Admitted
  <2> QED
    BY <1>8, <2>1, <2>2
<1>12. /\ SumFunctionOnSet(w, Calls) \in Nat /\ SumFunctionOnSet(v, Calls) \in Nat
       /\ SumFunctionOnSet(w, Calls) <= Hold[c] + SumFunctionOnSet(v, Calls)
  BY <1>9, <1>10, <1>11, OneMore
<1>13. /\ SumFunctionOnSet(w, Scoped) \in Nat /\ SumFunctionOnSet(v, Scoped) \in Nat
       /\ c \in Scoped => SumFunctionOnSet(w, Scoped) <= Hold[c] + SumFunctionOnSet(v, Scoped)
       /\ c \notin Scoped => SumFunctionOnSet(w, Scoped) <= SumFunctionOnSet(v, Scoped)
  BY <1>9, <1>10, <1>11, OneMore, Constants
<1>14. /\ SumFunctionOnSet(v, Calls) <= Limit + HeldBy(apart)
       /\ SumFunctionOnSet(v, Scoped) <= Pause + HeldBy(Scoped \cap apart)
  BY <1>1, <1>7 DEF Budget
<1>15. /\ HeldBy(apart) \in Nat /\ HeldBy(Scoped \cap apart) \in Nat
       /\ Limit \in Nat /\ Pause \in Nat /\ Hold[c] \in Nat /\ Pause <= Limit
  BY <1>1, HeldIsNatural, Constants
<1>16. /\ SumFunctionOnSet(w, Calls) <= Limit + HeldBy(apart')
       /\ SumFunctionOnSet(w, Scoped) <= Pause + HeldBy(Scoped \cap apart')
  <2>1. CASE Unseen(d) = {}
    <3>1. apart' = apart
      BY <2>1
    <3>2. PICK u : u = [k \in Calls |-> Value(k, Known(d))]
      OBVIOUS
    <3>3. \A k \in Calls : u[k] \in Nat /\ v[k] <= u[k]
      <4> TAKE k \in Calls
      <4>1. queue[d][n].at = "waiting"
        BY FirstTask
      <4>2. com[k] <= Value(k, Known(d)) /\ Value(k, Known(d)) \in Nat
        BY <1>1, <2>1, <4>1, AllSeen
      <4> QED
        BY <1>7, <3>2, <4>2
    <3>4. SumFunctionOnSet(v, Calls) <= SumFunctionOnSet(u, Calls)
      BY <1>9, <3>3, FiniteCalls, SumGrows
    <3>5. SumFunctionOnSet(v, Scoped) <= SumFunctionOnSet(u, Calls)
      BY <1>9, <3>3, FiniteCalls, Constants, SumGrows
    <3>6. SumFunctionOnSet(u, Calls) \in Nat
      BY <3>3, FiniteCalls, SumIsNatural
    <3>7. SumFunctionOnSet(u, Calls) + Hold[c] <= Ceiling(c)
      BY <3>2 DEF Admits, Summary
    <3>8. Ceiling(c) = IF c \in Scoped THEN Pause ELSE Limit
      BY DEF Ceiling
    <3>9. SumFunctionOnSet(w, Calls) <= Limit
      BY <1>12, <1>15, <3>4, <3>6, <3>7, <3>8
    <3>12. HeldBy(apart') = HeldBy(apart) /\ HeldBy(Scoped \cap apart') = HeldBy(Scoped \cap apart)
      BY <3>1
    <3>13. SumFunctionOnSet(w, Calls) <= Limit + HeldBy(apart')
      BY <1>12, <1>15, <3>9, <3>12
    <3>10. CASE c \in Scoped
      <4>1. SumFunctionOnSet(w, Scoped) <= Pause
        BY <1>13, <1>15, <3>5, <3>6, <3>7, <3>8, <3>10
      <4> QED
        BY <1>13, <1>15, <3>12, <3>13, <4>1
    <3>11. CASE c \notin Scoped
      BY <1>13, <1>14, <1>15, <3>11, <3>12, <3>13
    <3> QED
      BY <3>10, <3>11
  <2>2. CASE Unseen(d) # {}
    <3>1. apart' = apart \cup {c}
      BY <2>2
    <3>2. c \notin apart
      <4>1. On[c] = d /\ 1 \in DOMAIN queue[d]
        BY FirstTask
      <4> QED
        BY <1>1, <4>1 DEF Fits, ApartFits
    <3>3. ASSUME NEW S \in SUBSET Calls, c \in S
          PROVE  HeldBy(S) = Hold[c] + HeldBy(S \ {c})
      <4>1. IsFiniteSet(S) /\ \A k \in S : Hold[k] \in Nat
        BY FiniteCalls, Constants
      <4> QED
        BY <3>3, <4>1, SumTakes DEF HeldBy
    <3>4. HeldBy(apart') = Hold[c] + HeldBy(apart)
      <4>1. PICK S \in SUBSET Calls : S = apart' /\ c \in S /\ S \ {c} = apart
        BY <1>1, <3>1, <3>2
      <4> QED
        BY <3>3, <4>1
    <3>5. CASE c \in Scoped
      <4>3. PICK S : S = Scoped \cap apart'
        OBVIOUS
      <4>1. S \in SUBSET Calls /\ c \in S /\ S \ {c} = Scoped \cap apart
        BY <1>1, <3>1, <3>2, <3>5, <4>3
      <4>2. HeldBy(Scoped \cap apart') = Hold[c] + HeldBy(Scoped \cap apart)
        BY <3>3, <4>1, <4>3
      <4> QED
        BY <1>12, <1>13, <1>14, <1>15, <3>4, <3>5, <4>2
    <3>6. CASE c \notin Scoped
      <4>1. Scoped \cap apart' = Scoped \cap apart
        BY <3>1, <3>6
      <4> QED
        BY <1>12, <1>13, <1>14, <1>15, <3>4, <3>6, <4>1
    <3> QED
      BY <3>5, <3>6
  <2> QED
    BY <2>1, <2>2
<1>17. Budget'
  BY <1>8, <1>16 DEF Budget, HeldBy
<1> QED
  BY <1>6, <1>17 DEF IInv

LEMMA ReadsKeeps ==
  ASSUME IInv, NEW d \in Devices, Reads(d)
  PROVE  IInv'
<1>1. PICK n \in Turn(d) :
        LET t == Nth(d, n) IN
        /\ t.do = "hold" /\ t.at = "waiting"
        /\ IF Admits(t.call, ReadAll(d))
           THEN /\ queue' = [queue EXCEPT ![d][n].at = "admitted"]
                /\ apart' = IF Unseen(d) = {} THEN apart ELSE apart \cup {t.call}
                /\ UNCHANGED call
           ELSE /\ queue' = Without(d, n)
                /\ Moves(t.call, "declined")
                /\ UNCHANGED apart
  BY DEF Reads
<1>2. n = 1 /\ Nth(d, n) = queue[d][1]
  BY FirstTask DEF Nth
<1>3. PICK c \in Calls : c = queue[d][1].call
  BY FirstTask
<1>4. /\ UNCHANGED <<file, view, unwritten, spent, forgotten>> /\ mishaps' \in 0..MaxMishaps
      /\ queue[d][1].do = "hold" /\ queue[d][1].at = "waiting"
  BY <1>1, <1>2 DEF Reads, IInv, Types
<1>5. CASE Admits(c, Known(d))
  <2>1. /\ queue' = [queue EXCEPT ![d][1].at = "admitted"]
        /\ apart' = IF Unseen(d) = {} THEN apart ELSE apart \cup {c}
        /\ UNCHANGED call
    BY <1>1, <1>2, <1>3, <1>5 DEF ReadAll
  <2> QED
    BY <1>3, <1>4, <1>5, <2>1, ReadsAdmitsKeeps
<1>6. CASE ~Admits(c, Known(d))
  <2>1. queue' = Without(d, 1) /\ Moves(queue[d][1].call, "declined") /\ UNCHANGED apart
    BY <1>1, <1>2, <1>3, <1>6 DEF ReadAll
  <2> QED
    BY <1>4, <2>1, ReadsDeclinesKeeps
<1> QED
  BY <1>5, <1>6

-----------------------------------------------------------------------------
(* Her devices, and every step. *)

LEMMA SyncKeeps ==
  ASSUME IInv, NEW d \in Devices, NEW e \in Devices, Sync(d, e)
  PROVE  IInv'
<1>1. /\ view' = [view EXCEPT ![d][e] = file[e]] /\ file' = file /\ queue' = queue
      /\ unwritten' = unwritten /\ call' = call /\ mishaps' = mishaps /\ spent' = spent
      /\ apart' = apart /\ forgotten' = forgotten
  BY DEF Sync
<1>2. /\ view \in [Devices -> [Devices -> SUBSET Line]]
      /\ file \in [Devices -> SUBSET Line]
  BY DEF IInv, Types
<1>3. Types'
  <2>1. view' \in [Devices -> [Devices -> SUBSET Line]]
    BY <1>1, <1>2
  <2> QED
    BY <1>1, <2>1 DEF IInv, Types
<1>4. \A a, b \in Devices : CopyFits(view'[a][b], file[b])
  <2>1. CopyFits(file[e], file[e])
    BY DEF IInv, Fits, FileFits, LineFits, CopyFits
  <2> TAKE a, b \in Devices
  <2>2. CASE a = d /\ b = e
    BY <1>1, <1>2, <2>1, <2>2
  <2>3. CASE ~(a = d /\ b = e)
    <3>1. view'[a][b] = view[a][b]
      BY <1>1, <1>2, <2>3
    <3> QED
      BY <3>1 DEF IInv, Fits
  <2> QED
    BY <2>2, <2>3
<1>5. Fits'
  BY <1>1, <1>4 DEF IInv, Fits
<1>6. com' = com
  BY <1>1 DEF com, Admitted
<1>7. Budget'
  BY <1>1, <1>6 DEF IInv, Budget, HeldBy
<1> QED
  BY <1>3, <1>5, <1>7 DEF IInv

LEMMA CrashKeeps ==
  ASSUME IInv, NEW d \in Devices, Crash(d)
  PROVE  IInv'
<1>1. /\ queue \in [Devices -> Seq(Task)] /\ unwritten \in [Devices -> SUBSET Calls]
      /\ call \in [Calls -> Call] /\ apart \subseteq Calls /\ forgotten \subseteq Calls
      /\ file \in [Devices -> SUBSET Line]
      /\ \A k \in Calls : On[k] \in Devices
  BY Constants DEF IInv, Types
<1>2. /\ queue' = [queue EXCEPT ![d] = <<>>] /\ unwritten' = [unwritten EXCEPT ![d] = {}]
      /\ call' = [c \in Calls |->
                    IF c \in UnderWay(d) THEN [call[c] EXCEPT !.at = "done"] ELSE call[c]]
      /\ forgotten' =
           forgotten \cup {c \in unwritten[d] \cup UnderWay(d) : ~HasLine(d, "refusal", c)}
      /\ file' = file /\ view' = view /\ spent' = spent /\ apart' = apart
  BY DEF Crash
<1>3. mishaps' \in 0..MaxMishaps
  BY Mishaps DEF Crash, IInv
<1>4. /\ queue'[d] = <<>> /\ \A e \in Devices : e # d => queue'[e] = queue[e]
      /\ unwritten'[d] = {} /\ \A e \in Devices : e # d => unwritten'[e] = unwritten[e]
  BY <1>1, <1>2
<1>5. \A k \in Calls : /\ k \notin UnderWay(d) => call'[k] = call[k]
                       /\ k \in UnderWay(d) => /\ call'[k] \in Call /\ call'[k].at = "done"
                                               /\ call'[k].refused = call[k].refused
                                               /\ On[k] = d
  <2> TAKE k \in Calls
  <2>1. CASE k \notin UnderWay(d)
    BY <1>2, <2>1
  <2>2. CASE k \in UnderWay(d)
    <3>1. PICK at \in States : at = "done"
      BY DEF States
    <3>2. call[k] \in Call
      BY <1>1
    <3>3. PICK w \in Call : /\ w = [call[k] EXCEPT !.at = at] /\ w.at = at
                            /\ w.refused = call[k].refused
      BY <3>2, Restanding
    <3>4. call'[k] = w
      BY <1>2, <2>2, <3>1, <3>3
    <3> QED
      BY <2>2, <3>1, <3>3, <3>4 DEF UnderWay
  <2> QED
    BY <2>1, <2>2
<1>6. Types'
  <2>1. queue' \in [Devices -> Seq(Task)]
    BY <1>1, <1>2
  <2>2. unwritten' \in [Devices -> SUBSET Calls]
    BY <1>1, <1>2
  <2>3. call' \in [Calls -> Call]
    <3>1. \A k \in Calls : call'[k] \in Call
      BY <1>1, <1>5
    <3>2. DOMAIN call' = Calls /\ call' = [k \in DOMAIN call' |-> call'[k]]
      BY <1>2
    <3> QED
      BY <3>1, <3>2
  <2>4. forgotten' \subseteq Calls
    BY <1>1, <1>2 DEF UnderWay
  <2> QED
    BY <1>2, <1>3, <2>1, <2>2, <2>3, <2>4 DEF IInv, Types
<1>7. \A e \in Devices : QueueFits(e, queue'[e], call', file[e])
  <2> TAKE e \in Devices
  <2>1. CASE e = d
    BY <1>4, <2>1 DEF QueueFits, Ordered
  <2>2. CASE e # d
    <3>1. QueueFits(e, queue[e], call, file[e]) /\ queue[e] \in Seq(Task)
      BY <1>1 DEF IInv, Fits
    <3>2. \A m \in DOMAIN queue[e] : call'[queue[e][m].call] = call[queue[e][m].call]
      <4> TAKE m \in DOMAIN queue[e]
      <4>1. queue[e][m] \in Task
        BY <3>1
      <4>2. queue[e][m].call \in Calls /\ On[queue[e][m].call] = e
        BY <3>1, <4>1, TaskFields DEF QueueFits, TaskFits
      <4> QED
        BY <1>5, <2>2, <4>2
    <3> QED
      BY <1>4, <2>2, <3>1, <3>2 DEF QueueFits, TaskFits
  <2> QED
    BY <2>1, <2>2
<1>8. \A e \in Devices : FileFits(e, file[e], call', spent)
  <2> SUFFICES ASSUME NEW e \in Devices, NEW l \in file[e]
               PROVE  LineFits(e, l, call'[l.call], spent[l.call], file[e])
    BY DEF FileFits
  <2>1. LineFits(e, l, call[l.call], spent[l.call], file[e])
    BY DEF IInv, Fits, FileFits
  <2>2. l.call \in Calls
    BY <1>1, LineFields
  <2>3. CASE l.call \notin UnderWay(d)
    BY <1>5, <2>1, <2>2, <2>3
  <2>4. CASE l.call \in UnderWay(d)
    <3>1. call'[l.call].at = "done"
      BY <1>5, <2>2, <2>4
    <3> QED
      BY <2>1, <3>1 DEF LineFits, Settled
  <2> QED
    BY <2>3, <2>4
<1>9. \A k \in Calls : HasLine(d, "refusal", k) /\ On[k] = d => RefusalLine(k) \in file[d]
  <2> SUFFICES ASSUME NEW k \in Calls, NEW l \in file[d], l.kind = "refusal", l.call = k
               PROVE  RefusalLine(k) \in file[d]
    BY DEF HasLine
  <2>1. l \in Line /\ l.usd = 0
    BY <1>1 DEF IInv, Fits, FileFits, LineFits
  <2>2. l = RefusalLine(k)
    BY <2>1 DEF Line, RefusalLine
  <2> QED
    BY <2>2
<1>10. ASSUME NEW k \in Calls
       PROVE  CallFits(k, call'[k], spent[k], file[On[k]], unwritten'[On[k]], forgotten')
  <2>1. CallFits(k, call[k], spent[k], file[On[k]], unwritten[On[k]], forgotten)
    BY DEF IInv, Fits
  <2>2. CASE k \in UnderWay(d)
    <3>1. call'[k].at = "done" /\ On[k] = d
      BY <1>5, <2>2
    <3>2. k \notin forgotten' => RefusalLine(k) \in file[d]
      BY <1>2, <1>9, <2>2, <3>1
    <3> QED
      BY <2>1, <3>1, <3>2 DEF CallFits, Held, Unsent
  <2>3. CASE k \notin UnderWay(d) /\ On[k] = d
    <3>1. call'[k] = call[k]
      BY <1>5, <2>3
    <3>2. k \in unwritten[d] /\ k \notin forgotten' => RefusalLine(k) \in file[d]
      BY <1>2, <1>9, <2>3
    <3>3. k \notin forgotten' => k \notin forgotten
      BY <1>2
    <3> QED
      BY <2>1, <2>3, <3>1, <3>2, <3>3 DEF CallFits
  <2>4. CASE k \notin UnderWay(d) /\ On[k] # d
    <3>1. call'[k] = call[k] /\ unwritten'[On[k]] = unwritten[On[k]]
      BY <1>1, <1>4, <1>5, <2>4
    <3>2. k \notin forgotten' => k \notin forgotten
      BY <1>2
    <3> QED
      BY <2>1, <3>1, <3>2 DEF CallFits
  <2> QED
    BY <2>2, <2>3, <2>4
<1>11. ASSUME NEW k \in apart
       PROVE  ApartFits(k, call'[k], queue'[On[k]])
  <2>1. ApartFits(k, call[k], queue[On[k]]) /\ k \in Calls /\ On[k] \in Devices
    BY <1>1 DEF IInv, Fits
  <2>2. call'[k].at \notin {"new", "asks"}
    BY <1>5, <2>1 DEF ApartFits
  <2>3. queue'[On[k]] = <<>> \/ queue'[On[k]] = queue[On[k]]
    BY <1>4, <2>1
  <2> QED
    BY <2>1, <2>2, <2>3 DEF ApartFits
<1>12. Fits'
  <2>1. \A a, b \in Devices : CopyFits(view[a][b], file[b])
    BY DEF IInv, Fits
  <2> QED
    BY <1>2, <1>7, <1>8, <1>10, <1>11, <2>1 DEF Fits
<1>13. ASSUME NEW k \in Calls
       PROVE  Admitted(k, call'[k], queue'[On[k]]) => Admitted(k, call[k], queue[On[k]])
  <2>1. call'[k].at = "granted" => call[k].at = "granted"
    BY <1>5
  <2>2. queue'[On[k]] = <<>> \/ queue'[On[k]] = queue[On[k]]
    BY <1>1, <1>4
  <2> QED
    BY <2>1, <2>2 DEF Admitted
<1>14. \A k \in Calls : com'[k] <= com[k]
  <2> TAKE k \in Calls
  <2>1. spent'[k] <= com[k]
    BY <1>2, ComCovers DEF IInv
  <2> QED
    BY <1>13, <2>1, ComFalls DEF IInv
<1> QED
  BY <1>2, <1>6, <1>12, <1>14, BudgetKept DEF IInv

LEMMA StutterKeeps ==
  ASSUME IInv, UNCHANGED vars
  PROVE  IInv'
<1>1. /\ file' = file /\ view' = view /\ queue' = queue
      /\ unwritten' = unwritten /\ call' = call /\ mishaps' = mishaps /\ spent' = spent
      /\ apart' = apart /\ forgotten' = forgotten
  BY DEF vars
<1>2. Types'
  BY <1>1 DEF IInv, Types
<1>3. Fits'
  BY <1>1 DEF IInv, Fits
<1>4. com' = com
  BY <1>1 DEF com, Admitted
<1>5. Budget'
  BY <1>1, <1>4 DEF IInv, Budget, HeldBy
<1> QED
  BY <1>2, <1>3, <1>5 DEF IInv

LEMMA NextInvariant == IInv /\ [Next]_vars => IInv'
<1> SUFFICES ASSUME IInv, [Next]_vars PROVE IInv'
  OBVIOUS
<1>1. ASSUME NEW c \in Calls,
             \/ Starts(c) \/ StartFails(c) \/ Asks(c) \/ Sends(c) \/ NeverSent(c)
             \/ Answered(c) \/ Lost(c) \/ Records(c)
      PROVE  IInv'
  <2>1. CASE Starts(c)
    BY <2>1, StartsKeeps
  <2>2. CASE StartFails(c)
    BY <2>2, StartFailsKeeps
  <2>3. CASE Asks(c)
    BY <2>3, AsksKeeps
  <2>4. CASE Sends(c)
    BY <2>4, SendsKeeps
  <2>5. CASE NeverSent(c)
    BY <2>5, NeverSentKeeps
  <2>6. CASE Answered(c)
    BY <2>6, AnsweredKeeps
  <2>7. CASE Lost(c)
    BY <2>7, LostCallKeeps
  <2>8. CASE Records(c)
    BY <2>8, RecordsKeeps
  <2> QED
    BY <1>1, <2>1, <2>2, <2>3, <2>4, <2>5, <2>6, <2>7, <2>8
<1>2. ASSUME NEW d \in Devices, QueueTurns(d)
      PROVE  IInv'
  <2>1. CASE Reads(d)
    BY <2>1, ReadsKeeps
  <2>2. CASE Appends(d)
    BY <2>2, AppendsKeeps
  <2>3. CASE Drops(d)
    BY <2>3, DropsKeeps
  <2>4. CASE ReadsBack(d)
    BY <2>4, ReadsBackKeeps
  <2>5. CASE TaskFails(d)
    BY <2>5, TaskFailsKeeps
  <2> QED
    BY <1>2, <2>1, <2>2, <2>3, <2>4, <2>5 DEF QueueTurns
<1>3. ASSUME NEW d \in Devices, Crash(d)
      PROVE  IInv'
  BY <1>3, CrashKeeps
<1>4. ASSUME NEW d \in Devices, NEW e \in Devices, Sync(d, e)
      PROVE  IInv'
  BY <1>4, SyncKeeps
<1>5. CASE UNCHANGED vars
  BY <1>5, StutterKeeps
<1> QED
  BY <1>1, <1>2, <1>3, <1>4, <1>5, Zenon DEF Next

-----------------------------------------------------------------------------
(* The theorems. *)

\* In every reachable state the lines of a file, the tasks on it and the calls of its device
\* agree, every copy is a past state of a file, and what was let through is within the limit
\* (vault-spend-ledger.ts:30-45, allowance.ts).
THEOREM Invariance == Spec => []IInv
BY InitInvariant, NextInvariant, PTL DEF Spec

LEMMA InvariantTypes == IInv => TypeOK
<1> SUFFICES ASSUME IInv PROVE TypeOK
  OBVIOUS
<1>1. ASSUME NEW d \in Devices
      PROVE  /\ file[d] \subseteq Line
             /\ \A e \in Devices \ {d} : view[d][e] \subseteq file[e]
             /\ queue[d] \in Seq(Task)
             /\ \A n \in DOMAIN queue[d] : queue[d][n].at = "waiting" \/ n = 1
             /\ unwritten[d] \subseteq Calls
  <2>1. file[d] \subseteq Line /\ queue[d] \in Seq(Task) /\ unwritten[d] \subseteq Calls
    BY DEF IInv, Types
  <2>2. \A e \in Devices \ {d} : view[d][e] \subseteq file[e]
    BY DEF IInv, Fits, CopyFits
  <2>3. \A n \in DOMAIN queue[d] : queue[d][n].at = "waiting" \/ n = 1
    BY DEF IInv, Fits, QueueFits, Ordered
  <2> QED
    BY <2>1, <2>2, <2>3
<1>2. \A c \in Calls : spent[c] \in 0..Hold[c]
  BY DEF IInv, Fits, CallFits
<1> QED
  BY <1>1, <1>2 DEF IInv, Types, TypeOK

\* Types; only the first task of a file's queue has begun, and a device's copy of another's file
\* is a past state of it (path-queue.ts:67-80).
THEOREM TypeCorrect == Spec => []TypeOK
BY Invariance, InvariantTypes, PTL

LEMMA InvariantCounts == IInv => NeverUnderCounts
<1> SUFFICES ASSUME IInv, NEW d \in Devices
             PROVE  Summary(Known(d)) >=
                      SpentOn({c \in Calls : On[c] = d \/ \E l \in Known(d) : l.call = c})
  BY DEF NeverUnderCounts
<1>1. PICK S \in SUBSET Calls : S = {c \in Calls : On[c] = d \/ \E l \in Known(d) : l.call = c}
  OBVIOUS
<1>2. PICK u : u = [k \in Calls |-> Value(k, Known(d))]
  OBVIOUS
<1>3. \A k \in Calls : u[k] \in Nat /\ spent[k] \in Nat
  <2> TAKE k \in Calls
  <2>1. Value(k, Known(d)) \in Nat
    BY ValueCovers DEF IInv
  <2> QED
    BY <1>2, <2>1 DEF IInv, Types
<1>4. \A k \in S : spent[k] <= u[k]
  <2> TAKE k \in S
  <2>1. /\ k \in Calls /\ u[k] = Value(k, Known(d))
        /\ HoldLine(k) \in Known(d) => spent[k] <= Value(k, Known(d))
        /\ \A l \in Known(d) : l.call = k => HoldLine(k) \in Known(d)
    BY <1>1, <1>2, ValueCovers DEF IInv
  <2>2. CASE HoldLine(k) \in Known(d)
    BY <2>1, <2>2
  <2>3. CASE HoldLine(k) \notin Known(d)
    <3>1. On[k] = d
      BY <1>1, <2>1, <2>3
    <3>2. HoldLine(k) \notin file[d]
      BY <2>3 DEF Known
    <3>3. CallFits(k, call[k], spent[k], file[d], unwritten[d], forgotten)
      BY <2>1, <3>1 DEF IInv, Fits
    <3>4. ~(spent[k] > 0)
      BY <3>2, <3>3 DEF CallFits
    <3> QED
      BY <1>3, <2>1, <3>4
  <2> QED
    BY <2>2, <2>3
<1>5. SumFunctionOnSet(spent, S) <= SumFunctionOnSet(u, Calls)
  <2>1. PICK v : v = spent
    OBVIOUS
  <2>2. IsFiniteSet(Calls) /\ \A k \in S : v[k] \in Nat /\ v[k] <= u[k]
    BY <1>3, <1>4, <2>1, FiniteCalls
  <2>3. SumFunctionOnSet(v, S) <= SumFunctionOnSet(u, Calls)
    BY <1>3, <2>2, SumGrows
  <2> QED
    BY <2>1, <2>3
<1>6. SumFunctionOnSet(spent, S) \in Nat /\ SumFunctionOnSet(u, Calls) \in Nat
  <2>1. IsFiniteSet(S) /\ IsFiniteSet(Calls) /\ \A k \in S : spent[k] \in Nat
    BY <1>3, FiniteCalls
  <2> QED
    BY <1>3, <2>1, SumIsNatural
<1>7. Summary(Known(d)) = SumFunctionOnSet(u, Calls) /\ SpentOn(S) = SumFunctionOnSet(spent, S)
  BY <1>2 DEF Summary, SpentOn
<1> QED
  BY <1>1, <1>5, <1>6, <1>7

\* A device never counts less than its own calls, and the calls of others it knows of, were
\* billed (vault-spend-ledger.ts:30-40, ledger.ts:26-38): a hold is on file before its call is
\* sent, and stays there until the cost is proven.
THEOREM CountsEnough == Spec => []NeverUnderCounts
BY Invariance, InvariantCounts, PTL

LEMMA InvariantLimit == IInv => WithinLimit
<1> SUFFICES ASSUME IInv PROVE WithinLimit
  OBVIOUS
<1>1. PICK v : v = spent
  OBVIOUS
<1>2. PICK w : w = com
  OBVIOUS
<1>3. \A k \in Calls : v[k] \in Nat /\ w[k] \in Nat /\ v[k] <= w[k]
  <2>1. \A k \in Calls : com[k] \in Nat /\ spent[k] <= com[k] /\ spent[k] \in 0..Hold[k]
    BY ComIsNatural, ComCovers DEF IInv
  <2>2. \A k \in Calls : spent[k] \in Nat
    BY DEF IInv, Types
  <2> QED
    BY <1>1, <1>2, <2>1, <2>2
<1>4. ASSUME NEW S \in SUBSET Calls
      PROVE  /\ SumFunctionOnSet(v, S) <= SumFunctionOnSet(w, S)
             /\ SumFunctionOnSet(v, S) \in Nat /\ SumFunctionOnSet(w, S) \in Nat
  <2>1. /\ IsFiniteSet(S) /\ S \in SUBSET S
        /\ \A k \in S : v[k] \in Nat /\ w[k] \in Nat /\ v[k] <= w[k]
    BY <1>3, FiniteCalls
  <2> QED
    BY <2>1, SumGrows, SumIsNatural
<1>5. /\ SumFunctionOnSet(w, Calls) <= Limit + HeldBy(apart)
      /\ SumFunctionOnSet(w, Scoped) <= Pause + HeldBy(Scoped \cap apart)
  BY <1>2 DEF IInv, Budget
<1>6. HeldBy(apart) \in Nat /\ HeldBy(Scoped \cap apart) \in Nat /\ Limit \in Nat /\ Pause \in Nat
  BY HeldIsNatural, Constants DEF IInv, Types
<1>7. SpentOn(Calls) <= Limit + HeldBy(apart)
  <2>1. SumFunctionOnSet(v, Calls) <= Limit + HeldBy(apart)
    BY <1>4, <1>5, <1>6
  <2> QED
    BY <1>1, <2>1 DEF SpentOn
<1>8. SpentOn(Scoped) <= Pause + HeldBy(Scoped \cap apart)
  <2>1. SumFunctionOnSet(v, Scoped) <= Pause + HeldBy(Scoped \cap apart)
    BY <1>4, <1>5, <1>6, Constants
  <2> QED
    BY <1>1, <2>1 DEF SpentOn
<1> QED
  BY <1>7, <1>8 DEF WithinLimit

\* Her calls are never billed more than the limit, nor the scope reads more than their share, but
\* for the holds of calls let through by a device that did not know of another's
\* (vault-spend-ledger.ts:43-45, ledger.ts:45-49).
THEOREM LimitHolds == Spec => []WithinLimit
BY Invariance, InvariantLimit, PTL

LEMMA InvariantRefused == IInv => RefusedIsHeldBack
<1> SUFFICES ASSUME IInv, NEW c \in Scoped, call[c].at = "sent"
             PROVE  call[c].before < RefusedLimit
  BY DEF RefusedIsHeldBack
<1>1. c \in Calls
  BY Constants
<1>2. CallFits(c, call[c], spent[c], file[On[c]], unwritten[On[c]], forgotten)
  BY <1>1 DEF IInv, Fits
<1> QED
  BY <1>2 DEF CallFits

\* A part the service refused as often as the limit is not asked for again on that device, after a
\* restart either, unless a refusal that was never written went with the process
\* (drivers.ts:45-53).
THEOREM RefusedStays == Spec => []RefusedIsHeldBack
BY Invariance, InvariantRefused, PTL

=============================================================================
