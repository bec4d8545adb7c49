------------------------ MODULE OutcomeRevision_proofs ------------------------
(***************************************************************************)
(* Proofs about OutcomeRevision, for any versions, pages, outcomes and     *)
(* deliveries, and however many edits, failures and restarts: the types;   *)
(* that a verified source is the one the file holds; that a version read   *)
(* in full stays read; that what it states is then active under it; and    *)
(* that, once its passes ran, no other version's outcomes are.             *)
(*                                                                         *)
(* The sections in between say what a log lists, from where its marks      *)
(* count, which record stands for a page, and how each of these changes    *)
(* when records come after it.                                             *)
(***************************************************************************)
EXTENDS OutcomeRevision, SequenceTheorems, FiniteSetTheorems, WellFoundedInduction, TLAPS

-----------------------------------------------------------------------------
(* The inductive invariant: types, and what the store's queue and the deliveries agree on. *)

Asking == {"place", "mark", "settle"}

TaskType ==
  [do : {"list", "reading", "place", "mark", "settle", "remove"},
   call : Calls \cup {None}, page : {Text} \cup Pages,
   how : {"image", "partial", "nothing"}, from : Versions \cup {None},
   at : {"waiting", "hashed"}, bytes : Versions \cup {None}]

CallType ==
  [at : {"idle", "reads", "extracts", "places", "resolves", "marks", "settles", "retires"},
   brings : {Text} \cup Pages, how : {"text", "image", "partial"},
   of : Versions \cup {None}, found : SUBSET Outcomes,
   standing : {"open", "reread", "unplaced"},
   current : Versions \cup {None}, listed : Nat, known : SUBSET Versions]

OutcomeType == [status : {"none", "active", "retired"}, stamp : Versions \cup {None}]

\* A page found blank states nothing.
TaskFits(t) ==
  /\ t \in TaskType
  /\ t.at = "hashed" => t.bytes \in Versions /\ t.do # "remove"
  /\ t.do \in Asking => t.call \in Calls
  /\ t.do = "reading" =>
       /\ t.from \in Versions /\ t.page \in DOMAIN Route[t.from]
       /\ t.how = "nothing" => States[t.from][t.page] = {}

\* A delivery brings what its version states, or nothing of a page read in part.
CallFits(w) ==
  /\ w \in CallType
  /\ w.at # "idle" => w.of \in Versions
  /\ w.at \in {"reads", "extracts", "places", "resolves", "marks"} =>
       /\ w.brings \in {Text} \cup DOMAIN Route[w.of]
       /\ w.brings = Text <=> w.how = "text"
       /\ w.brings = Text => Text \in Deliveries(w.of)
       /\ w.found = IF w.how = "partial" THEN {} ELSE States[w.of][w.brings]
  /\ w.at = "reads" => w.how = "image"
  /\ w.at \in {"reads", "extracts", "places"} => w.current = None
  /\ w.at = "resolves" => w.current = IF w.standing = "unplaced" THEN None ELSE w.of
  /\ w.at = "retires" => w.current = w.of

\* Where a delivery stands that has asked the store this.
Awaits(do) == CASE do = "place" -> "places" [] do = "mark" -> "marks" [] do = "settle" -> "settles"

\* Only the first task has hashed the file, and a delivery has asked one thing.
QueueFits(q, cl) ==
  /\ q \in Seq(TaskType)
  /\ \A n \in 1..Len(q) :
       /\ TaskFits(q[n])
       /\ q[n].at = "hashed" => n = 1
       /\ q[n].do \in Asking =>
            /\ cl[q[n].call].at = Awaits(q[n].do)
            /\ \A m \in 1..Len(q) : q[m].do \in Asking /\ q[m].call = q[n].call => m = n

\* A text reading is what the text layer settles, and a blank page states nothing.
RecordFits(r) ==
  r.kind = "unit" =>
    /\ r.reading.how = "text" => r.page \in Settled(r.of)
    /\ r.reading.how = "nothing" /\ r.reading.bytes = r.of /\ r.page \in DOMAIN Route[r.of] \ Settled(r.of)
         => States[r.of][r.page] = {}

LogFits(log) == log \in Seq(Records) /\ \A n \in 1..Len(log) : RecordFits(log[n])

Fields ==
  /\ file \in Versions \cup {None}
  /\ events \in Seq({"modify", "create", "delete"})
  /\ verified \in BOOLEAN /\ unenumerable \in BOOLEAN /\ missed \in BOOLEAN
  /\ outcome \in [Outcomes -> OutcomeType]
  /\ edits \in Nat /\ made \in Nat /\ mishaps \in Nat
  /\ borrowed \subseteq Versions /\ late \subseteq Outcomes
  /\ skipped \subseteq Versions

Logs == LogFits(disk) /\ LogFits(fold)

CallsFit(cl) == cl \in [Calls -> CallType] /\ \A c \in Calls : CallFits(cl[c])

Inv == Fields /\ Logs /\ CallsFit(call) /\ QueueFits(tasks, call)

-----------------------------------------------------------------------------
(* Numbers, and sets put in a sequence. *)

LEMMA LessIsWellFounded ==
  \E R : /\ IsWellFoundedOn(R, Nat)
         /\ \A k \in Nat, n \in Nat : <<k, n>> \notin R => ~(k < n)
<1>1. IsWellFoundedOn(OpToRel(<, Nat), Nat)
  BY NatLessThanWellFounded
<1>2. \A k \in Nat, n \in Nat : <<k, n>> \notin OpToRel(<, Nat) => ~(k < n)
  BY DEF OpToRel
<1> QED
  BY <1>1, <1>2, Zenon

\* A set of numbers has a least one.
LEMMA LeastExists ==
  ASSUME NEW S \in SUBSET Nat, S # {}
  PROVE  \E n \in S : \A k \in S : n <= k
<1>1. PICK R : /\ IsWellFoundedOn(R, Nat)
               /\ \A k \in Nat, n \in Nat : <<k, n>> \notin R => ~(k < n)
  BY LessIsWellFounded
<1>2. \E n \in S : \A k \in S : ~(<<k, n>> \in R)
  BY <1>1, WFMin, Zenon
<1>3. PICK n \in S : \A k \in S : ~(<<k, n>> \in R)
  BY <1>2
<1>4. \A k \in S : n <= k
  <2> TAKE k \in S
  <2>1. k \in Nat /\ n \in Nat
    OBVIOUS
  <2>2. ~(k < n)
    BY <1>1, <1>3, <2>1
  <2> QED
    BY <2>1, <2>2
<1> QED
  BY <1>4

\* A bounded set of numbers has a greatest one.
LEMMA MaxIs ==
  ASSUME NEW n \in Nat, NEW S \in SUBSET (0..n), S # {}
  PROVE  Max(S) \in S /\ \A k \in S : k <= Max(S)
<1> DEFINE T == {n - k : k \in S}
<1>1. T \in SUBSET Nat /\ T # {}
  <2>1. \A k \in S : n - k \in Nat
    OBVIOUS
  <2>2. \A t \in T : \E k \in S : t = n - k
    OBVIOUS
  <2>3. \A t \in T : t \in Nat
    <3> HIDE DEF T
    <3> QED
      BY <2>1, <2>2
  <2> QED
    BY <2>3
<1>2. PICK t \in T : \A k \in T : t <= k
  <2> HIDE DEF T
  <2> QED
    BY <1>1, LeastExists
<1>3. PICK m \in S : t = n - m
  OBVIOUS
<1>4. \A k \in S : m >= k
  <2> TAKE k \in S
  <2>1. t <= n - k
    BY <1>2
  <2> QED
    BY <1>3, <2>1
<1>5. Max(S) \in S /\ \A k \in S : Max(S) >= k
  BY <1>3, <1>4 DEF Max
<1> QED
  BY <1>5

LEMMA MinIs ==
  ASSUME NEW S \in SUBSET Nat, S # {}
  PROVE  Min(S) \in S /\ \A k \in S : Min(S) <= k
BY LeastExists DEF Min

\* The elements of a finite set, each once.
LEMMA SetAsSeq ==
  ASSUME NEW S, IsFiniteSet(S)
  PROVE  /\ Cardinality(S) \in Nat
         /\ SetToSeq(S) \in [1..Cardinality(S) -> S]
         /\ \A x \in S : \E n \in 1..Cardinality(S) : SetToSeq(S)[n] = x
<1>1. Cardinality(S) \in Nat /\ ExistsBijection(1..Cardinality(S), S)
  BY FS_CardinalityType
<1>2. PICK f \in [1..Cardinality(S) -> S] :
        \A a, b \in 1..Cardinality(S) : f[a] = f[b] => a = b
  BY <1>1 DEF ExistsBijection, Bijection, Injection, IsInjective
<1>3. IsInjective(f)
  BY <1>2 DEF IsInjective
<1>4. SetToSeq(S) \in [1..Cardinality(S) -> S] /\ IsInjective(SetToSeq(S))
  BY <1>2, <1>3, Zenon DEF SetToSeq
<1>5. PICK g : g = SetToSeq(S)
  OBVIOUS
<1>6. g \in Injection(1..Cardinality(S), S)
  BY <1>4, <1>5 DEF Injection, IsInjective
<1>7. IsFiniteSet(1..Cardinality(S)) /\ Cardinality(1..Cardinality(S)) = Cardinality(S)
  BY <1>1, FS_Interval
<1>8. g \in Surjection(1..Cardinality(S), S)
  BY <1>6, <1>7, FS_Injection
<1> QED
  BY <1>1, <1>4, <1>5, <1>8 DEF Surjection

-----------------------------------------------------------------------------
(* Logs. *)

LEMMA Joined ==
  ASSUME NEW R, NEW s \in Seq(R), NEW t \in Seq(R)
  PROVE  /\ s \o t \in Seq(R) /\ Len(s \o t) = Len(s) + Len(t)
         /\ Len(s) \in Nat /\ Len(t) \in Nat
         /\ DOMAIN (s \o t) = 1..(Len(s) + Len(t)) /\ DOMAIN s = 1..Len(s) /\ DOMAIN t = 1..Len(t)
         /\ \A i \in 1..Len(s) : (s \o t)[i] = s[i]
         /\ \A i \in 1..Len(t) : (s \o t)[Len(s) + i] = t[i]
OBVIOUS

LEMMA RecordIs ==
  ASSUME NEW r \in Records
  PROVE  /\ r.of \in Versions /\ r.kind \in {"enumerated", "retired", "unit"}
         /\ r.kind = "unit" =>
              /\ r.page \in Pages /\ r.reading \in Readings /\ r.marked \in BOOLEAN
              /\ r = Unit(r.of, r.page, r.reading, r.marked)
         /\ r.kind = "enumerated" => r = Listing(r.of)
         /\ r.kind = "retired" => r = Retirement(r.of)
BY DEF Records, Unit, Listing, Retirement

LEMMA RecordsAre ==
  /\ \A v \in Versions : Listing(v) \in Records /\ Retirement(v) \in Records
  /\ \A v \in Versions, p \in Pages, r \in Readings, m \in BOOLEAN : Unit(v, p, r, m) \in Records
BY DEF Records, Unit, Listing, Retirement

LEMMA PagesAre ==
  /\ None \notin Versions
  /\ Pages \subseteq Nat \ {0}
  /\ \A v \in Versions :
       /\ DOMAIN Route[v] \subseteq Pages /\ IsFiniteSet(DOMAIN Route[v])
       /\ \A p \in DOMAIN Route[v] : Route[v][p] \in Routes
       /\ Settled(v) \subseteq DOMAIN Route[v] /\ IsFiniteSet(Settled(v))
       /\ \A p \in DOMAIN Route[v] : SettledAs(v, p) \in Readings
<1>1. \A v \in Versions : Settled(v) \subseteq DOMAIN Route[v]
  BY DEF Settled
<1>2. \A v \in Versions : IsFiniteSet(DOMAIN Route[v])
  BY UnitManifestAssumption
<1>3. \A v \in Versions : IsFiniteSet(Settled(v))
  BY <1>1, <1>2, FS_Subset
<1>4. \A v \in Versions : \A p \in DOMAIN Route[v] : SettledAs(v, p) \in Readings
  BY DEF SettledAs, Readings
<1>5. \A v \in Versions : DOMAIN Route[v] \subseteq Pages
  BY DEF Pages
<1> QED
  BY <1>1, <1>2, <1>3, <1>4, <1>5, UnitManifestAssumption

LEMMA ListingKind ==
  \A v : /\ Listing(v).kind = "enumerated" /\ Listing(v).of = v
         /\ Retirement(v).kind = "retired" /\ Retirement(v).of = v
         /\ \A p, r, m : /\ Unit(v, p, r, m).kind = "unit" /\ Unit(v, p, r, m).of = v
                         /\ Unit(v, p, r, m).page = p /\ Unit(v, p, r, m).reading = r
                         /\ Unit(v, p, r, m).marked = m
BY DEF Listing, Retirement, Unit

\* What lists a version: its listing, and what its text layer settles, unmarked.
LEMMA EnumerationIs ==
  ASSUME NEW v \in Versions
  PROVE  LET e == Enumeration(v) IN
         /\ e \in Seq(Records) /\ Len(e) \in Nat \ {0} /\ e[1] = Listing(v)
         /\ \A n \in 2..Len(e) : \E p \in Settled(v) : e[n] = Unit(v, p, SettledAs(v, p), FALSE)
<1> DEFINE S == Settled(v)
           K == Cardinality(Settled(v))
           u == [n \in 1..K |-> Unit(v, SetToSeq(S)[n], SettledAs(v, SetToSeq(S)[n]), FALSE)]
<1>1. IsFiniteSet(S) /\ S \subseteq Pages /\ \A p \in S : SettledAs(v, p) \in Readings
  BY PagesAre
<1>2. K \in Nat /\ \A n \in 1..K : SetToSeq(S)[n] \in S
  BY <1>1, SetAsSeq
<1>3. Enumeration(v) = <<Listing(v)>> \o u
  BY DEF Enumeration
<1>4. \A n \in 1..K : u[n] = Unit(v, SetToSeq(S)[n], SettledAs(v, SetToSeq(S)[n]), FALSE)
  OBVIOUS
<1>5. \A n \in 1..K : u[n] \in Records /\ \E p \in S : u[n] = Unit(v, p, SettledAs(v, p), FALSE)
  <2> TAKE n \in 1..K
  <2>1. PICK p : p = SetToSeq(S)[n]
    OBVIOUS
  <2>2. p \in S /\ p \in Pages /\ SettledAs(v, p) \in Readings
    BY <1>1, <1>2, <2>1
  <2>3. u[n] = Unit(v, p, SettledAs(v, p), FALSE)
    BY <1>4, <2>1
  <2> QED
    BY <2>2, <2>3, RecordsAre
<1>6. DOMAIN u = 1..K
  OBVIOUS
<1> HIDE DEF u, K, S
<1>7. u \in Seq(Records) /\ Len(u) = K
  <2>1. u \in [1..K -> Records]
    <3>1. u = [n \in 1..K |-> u[n]]
      BY <1>6 DEF u
    <3> QED
      BY <1>5, <3>1
  <2> QED
    BY <1>2, <2>1
<1>8. Listing(v) \in Records
  BY RecordsAre
<1>9. PICK a : a = Listing(v)
  OBVIOUS
<1>10. PICK e : e = <<a>> \o u
  OBVIOUS
<1>11. e \in Seq(Records) /\ Len(e) = K + 1 /\ e[1] = a /\ \A n \in 2..Len(e) : e[n] = u[n - 1] /\ n - 1 \in 1..K
  BY <1>2, <1>7, <1>8, <1>9, <1>10
<1>12. \A n \in 2..Len(e) : \E p \in S : e[n] = Unit(v, p, SettledAs(v, p), FALSE)
  BY <1>5, <1>11
<1>13. Len(e) \in Nat \ {0}
  BY <1>2, <1>11
<1>14. e = Enumeration(v)
  BY <1>3, <1>9, <1>10
<1> QED
  BY <1>9, <1>11, <1>12, <1>13, <1>14 DEF S

\* The version that is live is that of the last live listing.
LEMMA LiveIs ==
  ASSUME NEW log \in Seq(Records)
  PROVE  \/ Live(log) = None /\ LiveListings(log) = {}
         \/ /\ Live(log) \in Versions
            /\ \E n \in LiveListings(log) :
                 log[n].of = Live(log) /\ \A m \in LiveListings(log) : m <= n
<1>1. CASE LiveListings(log) = {}
  BY <1>1 DEF Live
<1>2. CASE LiveListings(log) # {}
  <2>1. LiveListings(log) \in SUBSET (0..Len(log)) /\ Len(log) \in Nat
    BY DEF LiveListings
  <2>2. PICK n : n = Max(LiveListings(log))
    OBVIOUS
  <2>3. n \in LiveListings(log) /\ \A m \in LiveListings(log) : m <= n
    BY <1>2, <2>1, <2>2, MaxIs
  <2>4. Live(log) = log[n].of
    BY <1>2, <2>2 DEF Live
  <2>5. log[n] \in Records
    BY <2>3 DEF LiveListings
  <2> QED
    BY <2>3, <2>4, <2>5, RecordIs
<1> QED
  BY <1>1, <1>2

Units(u) == u \in Seq(Records) /\ \A n \in 1..Len(u) : u[n].kind = "unit"

\* Readings and marks list and retire nothing.
LEMMA LiveKept ==
  ASSUME NEW log \in Seq(Records), NEW u, Units(u)
  PROVE  Live(log \o u) = Live(log)
<1>1. PICK new : new = log \o u
  OBVIOUS
<1>2. u \in Seq(Records) /\ \A n \in 1..Len(u) : u[n].kind = "unit"
  BY DEF Units
<1>3. /\ Len(log) \in Nat /\ Len(u) \in Nat /\ Len(new) = Len(log) + Len(u)
      /\ DOMAIN new = 1..Len(new) /\ DOMAIN log = 1..Len(log)
      /\ \A i \in 1..Len(log) : new[i] = log[i]
      /\ \A i \in (Len(log) + 1)..Len(new) : new[i].kind = "unit"
  <2>1. \A i \in (Len(log) + 1)..(Len(log) + Len(u)) : i - Len(log) \in 1..Len(u) /\ Len(log) + (i - Len(log)) = i
    BY <1>2
  <2>2. \A i \in (Len(log) + 1)..(Len(log) + Len(u)) : new[i] = u[i - Len(log)]
    BY <1>1, <1>2
  <2> QED
    BY <1>1, <1>2, <2>1, <2>2
<1>4. \A v : Retirement(v).kind = "retired"
  BY DEF Retirement
<1>5. LiveListings(new) = LiveListings(log)
  <2>1. \A n \in 1..Len(new) :
          /\ n > Len(log) => new[n].kind # "enumerated"
          /\ n <= Len(log) => n \in 1..Len(log)
    BY <1>3
  <2>2. ASSUME NEW n \in 1..Len(log)
        PROVE  (\A m \in (n + 1)..Len(new) : new[m] # Retirement(new[n].of))
               <=> (\A m \in (n + 1)..Len(log) : log[m] # Retirement(log[n].of))
    <3>1. PICK r : r = Retirement(log[n].of)
      OBVIOUS
    <3>2. r.kind = "retired" /\ new[n] = log[n]
      BY <1>3, <1>4, <3>1
    <3>3. \A m \in (n + 1)..Len(new) : \/ m \in (n + 1)..Len(log) /\ new[m] = log[m]
                                       \/ m \in (Len(log) + 1)..Len(new) /\ new[m].kind = "unit"
      BY <1>3
    <3>4. \A m \in (n + 1)..Len(log) : m \in (n + 1)..Len(new) /\ new[m] = log[m]
      BY <1>3
    <3>5. (\A m \in (n + 1)..Len(new) : new[m] # r) <=> (\A m \in (n + 1)..Len(log) : log[m] # r)
      BY <3>2, <3>3, <3>4
    <3> QED
      BY <3>1, <3>2, <3>5
  <2> QED
    BY <1>3, <2>1, <2>2 DEF LiveListings
<1>6. \A n \in LiveListings(log) : new[n] = log[n]
  BY <1>3 DEF LiveListings
<1>7. LiveListings(log) # {} => Max(LiveListings(log)) \in LiveListings(log)
  <2>1. LiveListings(log) \in SUBSET (0..Len(log)) /\ Len(log) \in Nat
    BY DEF LiveListings
  <2> QED
    BY <2>1, MaxIs
<1>8. Live(new) = Live(log)
  BY <1>5, <1>6, <1>7 DEF Live
<1> QED
  BY <1>1, <1>8

NoListing(r) == r \in Seq(Records) /\ \A n \in 1..Len(r) : r[n].kind # "enumerated"

\* The log with r and the listing of v after it, which starts at n.
Lists(new, log, r, v) == new = log \o (r \o Enumeration(v))
ListedAt(n, log, r) == n = Len(log) + Len(r) + 1

Listed(new, log, r, v, n) ==
  /\ new \in Seq(Records) /\ DOMAIN new = 1..Len(new) /\ DOMAIN log = 1..Len(log)
  /\ Len(log) \in Nat /\ n \in Nat /\ n > Len(log) /\ n <= Len(new)
  /\ \A i \in 1..Len(log) : new[i] = log[i]
  /\ \A i \in 1..Len(r) : new[Len(log) + i] = r[i]
  /\ \A i \in (Len(log) + 1)..(n - 1) : new[i].kind # "enumerated"
  /\ new[n] = Listing(v)
  /\ \A i \in (n + 1)..Len(new) :
       \E p \in Settled(v) : new[i] = Unit(v, p, SettledAs(v, p), FALSE)

LEMMA ListedIs ==
  ASSUME NEW log \in Seq(Records), NEW r, NoListing(r), NEW v \in Versions,
         NEW new, Lists(new, log, r, v), NEW n, ListedAt(n, log, r)
  PROVE  Listed(new, log, r, v, n)
<1>1. PICK e : e = Enumeration(v)
  OBVIOUS
<1>2. /\ e \in Seq(Records) /\ Len(e) \in Nat \ {0} /\ e[1] = Listing(v)
      /\ \A i \in 2..Len(e) : \E p \in Settled(v) : e[i] = Unit(v, p, SettledAs(v, p), FALSE)
  BY <1>1, EnumerationIs
<1>3. r \in Seq(Records) /\ Len(r) \in Nat /\ \A i \in 1..Len(r) : r[i].kind # "enumerated"
  BY DEF NoListing
<1>4. PICK a : a = Listing(v)
  OBVIOUS
<1>5. PICK t : t = r \o e
  OBVIOUS
<1>6. /\ t \in Seq(Records) /\ Len(t) = Len(r) + Len(e)
      /\ \A i \in 1..Len(r) : t[i] = r[i]
      /\ \A i \in 1..Len(e) : t[Len(r) + i] = e[i]
  BY <1>2, <1>3, <1>5, Joined
<1>7. new = log \o t
  BY <1>1, <1>5 DEF Lists
<1>8. /\ new \in Seq(Records) /\ Len(new) = Len(log) + Len(t) /\ Len(log) \in Nat
      /\ DOMAIN new = 1..Len(new) /\ DOMAIN log = 1..Len(log)
      /\ \A i \in 1..Len(log) : new[i] = log[i]
      /\ \A i \in 1..Len(t) : new[Len(log) + i] = t[i]
  <2>1. t \in Seq(Records)
    BY <1>6
  <2>2. /\ new \in Seq(Records) /\ Len(new) = Len(log) + Len(t) /\ Len(log) \in Nat
        /\ DOMAIN new = 1..(Len(log) + Len(t)) /\ DOMAIN log = 1..Len(log)
        /\ \A i \in 1..Len(log) : new[i] = log[i]
        /\ \A i \in 1..Len(t) : new[Len(log) + i] = t[i]
    <3>1. /\ log \o t \in Seq(Records) /\ Len(log \o t) = Len(log) + Len(t) /\ Len(log) \in Nat
          /\ DOMAIN (log \o t) = 1..(Len(log) + Len(t)) /\ DOMAIN log = 1..Len(log)
          /\ \A i \in 1..Len(log) : (log \o t)[i] = log[i]
          /\ \A i \in 1..Len(t) : (log \o t)[Len(log) + i] = t[i]
      BY <2>1, Joined
    <3> QED
      BY <1>7, <3>1
  <2> QED
    BY <2>2
<1>9. n = Len(log) + Len(r) + 1
  BY DEF ListedAt
<1>10. n \in Nat /\ n > Len(log) /\ n <= Len(new)
  BY <1>2, <1>3, <1>6, <1>8, <1>9
<1>11. \A i \in 1..Len(r) : new[Len(log) + i] = r[i]
  BY <1>2, <1>3, <1>6, <1>8
<1>12. \A i \in (Len(log) + 1)..(n - 1) : new[i].kind # "enumerated"
  <2> TAKE i \in (Len(log) + 1)..(n - 1)
  <2>1. i - Len(log) \in 1..Len(r) /\ Len(log) + (i - Len(log)) = i
    BY <1>3, <1>8, <1>9
  <2> QED
    BY <1>3, <1>11, <2>1
<1>13. new[n] = a
  <2>1. Len(r) + 1 \in 1..Len(t) /\ Len(log) + (Len(r) + 1) = n /\ 1 \in 1..Len(e)
    BY <1>2, <1>3, <1>6, <1>8, <1>9
  <2>2. new[n] = t[Len(r) + 1]
    BY <1>8, <2>1
  <2> QED
    BY <1>2, <1>4, <1>6, <2>1, <2>2
<1>14. \A i \in (n + 1)..Len(new) : i - (n - 1) \in 2..Len(e) /\ new[i] = e[i - (n - 1)]
  <2> TAKE i \in (n + 1)..Len(new)
  <2>1. i - (n - 1) \in 2..Len(e) /\ i - Len(log) \in 1..Len(t)
    BY <1>2, <1>3, <1>6, <1>8, <1>9
  <2>2. Len(log) + (i - Len(log)) = i /\ Len(r) + (i - (n - 1)) = i - Len(log)
    BY <1>2, <1>3, <1>6, <1>8, <1>9
  <2>3. new[i] = t[i - Len(log)]
    BY <1>8, <2>1, <2>2
  <2>4. i - (n - 1) \in 1..Len(e)
    BY <1>2, <2>1
  <2> QED
    BY <1>6, <2>1, <2>2, <2>3, <2>4
<1>15. \A i \in (n + 1)..Len(new) :
         \E p \in Settled(v) : new[i] = Unit(v, p, SettledAs(v, p), FALSE)
  BY <1>2, <1>14, Zenon
<1> QED
  BY <1>4, <1>8, <1>10, <1>11, <1>12, <1>13, <1>15 DEF Listed

LEMMA ListedThen ==
  ASSUME NEW new, NEW log, NEW r, NEW v, NEW n, Listed(new, log, r, v, n)
  PROVE  \A i \in (n + 1)..Len(new) : new[i].kind = "unit"
<1>1. \A p : Unit(v, p, SettledAs(v, p), FALSE).kind = "unit"
  BY DEF Unit
<1>2. \A i \in (n + 1)..Len(new) :
        \E p \in Settled(v) : new[i] = Unit(v, p, SettledAs(v, p), FALSE)
  BY DEF Listed
<1> TAKE i \in (n + 1)..Len(new)
<1>3. PICK p \in Settled(v) : new[i] = Unit(v, p, SettledAs(v, p), FALSE)
  BY <1>2
<1> QED
  BY <1>1, <1>3

\* A version is live once it is listed.
LEMMA LiveListed ==
  ASSUME NEW log \in Seq(Records), NEW r, NoListing(r), NEW v \in Versions
  PROVE  Live(log \o (r \o Enumeration(v))) = v
<1>1. PICK new : Lists(new, log, r, v)
  BY DEF Lists
<1>2. PICK n : ListedAt(n, log, r)
  BY DEF ListedAt
<1>3. /\ new \in Seq(Records) /\ DOMAIN new = 1..Len(new)
      /\ n \in Nat /\ n > Len(log) /\ Len(log) \in Nat /\ n <= Len(new)
      /\ new[n] = Listing(v)
      /\ \A i \in (n + 1)..Len(new) :
           \E p \in Settled(v) : new[i] = Unit(v, p, SettledAs(v, p), FALSE)
  <2>1. Listed(new, log, r, v, n)
    BY <1>1, <1>2, ListedIs, Zenon
  <2> QED
    BY <2>1 DEF Listed
<1>4. \A i \in (n + 1)..Len(new) : new[i].kind = "unit"
  <2>1. \A p, r1 : Unit(v, p, r1, FALSE).kind = "unit"
    BY DEF Unit
  <2> QED
    BY <1>3, <2>1, Zenon
<1>5. new[n].kind = "enumerated" /\ new[n].of = v /\ Retirement(v).kind = "retired"
  BY <1>3 DEF Listing, Retirement
<1>6. n \in LiveListings(new)
  BY <1>3, <1>4, <1>5 DEF LiveListings
<1>7. \A m \in LiveListings(new) : m <= n
  BY <1>3, <1>4 DEF LiveListings
<1>8. PICK m \in LiveListings(new) : new[m].of = Live(new) /\ \A k \in LiveListings(new) : k <= m
  BY <1>3, <1>6, LiveIs
<1>9. m = n
  BY <1>3, <1>6, <1>7, <1>8 DEF LiveListings
<1> QED
  BY <1>1, <1>5, <1>8, <1>9 DEF Lists

-----------------------------------------------------------------------------
(* What a log lists. *)

\* v is the version listed last.
IsLast(log, v) ==
  \E n \in 1..Len(log) :
    log[n] = Listing(v) /\ \A m \in (n + 1)..Len(log) : log[m].kind # "enumerated"

LEMMA LiveIsLast ==
  ASSUME NEW log \in Seq(Records), WellListed(log), Live(log) # None
  PROVE  IsLast(log, Live(log))
<1>1. PICK n \in LiveListings(log) : log[n].of = Live(log)
  BY LiveIs
<1>2. /\ n \in 1..Len(log) /\ log[n].kind = "enumerated" /\ log[n] \in Records /\ Len(log) \in Nat
      /\ \A k \in (n + 1)..Len(log) : log[k] # Retirement(log[n].of)
  BY DEF LiveListings
<1>3. log[n] = Listing(Live(log))
  BY <1>1, <1>2, RecordIs
<1>4. ASSUME NEW m \in (n + 1)..Len(log), log[m].kind = "enumerated"
      PROVE  FALSE
  <2>1. m \in 1..Len(log) /\ n < m
    BY <1>2
  <2>2. PICK k \in (n + 1)..(m - 1) : log[k] = Retirement(log[n].of)
    BY <1>2, <1>4, <2>1 DEF WellListed
  <2>3. k \in (n + 1)..Len(log)
    BY <1>2
  <2> QED
    BY <1>2, <2>2, <2>3
<1> QED
  BY <1>2, <1>3, <1>4 DEF IsLast

LEMMA OneIsLast ==
  ASSUME NEW log \in Seq(Records), NEW v, NEW w, IsLast(log, v), IsLast(log, w)
  PROVE  v = w
<1>1. PICK n \in 1..Len(log) :
        log[n] = Listing(v) /\ \A m \in (n + 1)..Len(log) : log[m].kind # "enumerated"
  BY DEF IsLast
<1>2. PICK k \in 1..Len(log) :
        log[k] = Listing(w) /\ \A m \in (k + 1)..Len(log) : log[m].kind # "enumerated"
  BY DEF IsLast
<1>3. log[n].kind = "enumerated" /\ log[n].of = v /\ log[k].kind = "enumerated" /\ log[k].of = w
  BY <1>1, <1>2, ListingKind
<1>4. Len(log) \in Nat
  OBVIOUS
<1>5. ~(n < k) /\ ~(k < n)
  BY <1>1, <1>2, <1>3, <1>4
<1> QED
  BY <1>3, <1>5

LEMMA LastIsLive ==
  ASSUME NEW log \in Seq(Records), WellListed(log), NEW v, IsLast(log, v)
  PROVE  Live(log) \in {None, v}
BY LiveIsLast, OneIsLast

\* new is the log with r after it.
Appends(new, log, r) == new = log \o r

Appended(new, log, r) ==
  /\ new \in Seq(Records) /\ Len(new) = Len(log) + Len(r)
  /\ Len(log) \in Nat /\ Len(r) \in Nat /\ Len(new) \in Nat
  /\ DOMAIN new = 1..Len(new) /\ DOMAIN log = 1..Len(log)
  /\ \A i \in 1..Len(log) : new[i] = log[i]
  /\ \A i \in (Len(log) + 1)..Len(new) : i - Len(log) \in 1..Len(r) /\ new[i] = r[i - Len(log)]

LEMMA AppendedIs ==
  ASSUME NEW log \in Seq(Records), NEW r \in Seq(Records), NEW new, Appends(new, log, r)
  PROVE  Appended(new, log, r)
<1>1. /\ log \o r \in Seq(Records) /\ Len(log \o r) = Len(log) + Len(r)
      /\ Len(log) \in Nat /\ Len(r) \in Nat
      /\ DOMAIN (log \o r) = 1..(Len(log) + Len(r)) /\ DOMAIN log = 1..Len(log)
      /\ \A i \in 1..Len(log) : (log \o r)[i] = log[i]
      /\ \A i \in 1..Len(r) : (log \o r)[Len(log) + i] = r[i]
  BY Joined
<1>2. /\ new \in Seq(Records) /\ Len(new) = Len(log) + Len(r)
      /\ Len(log) \in Nat /\ Len(r) \in Nat
      /\ DOMAIN new = 1..(Len(log) + Len(r)) /\ DOMAIN log = 1..Len(log)
      /\ \A i \in 1..Len(log) : new[i] = log[i]
      /\ \A i \in 1..Len(r) : new[Len(log) + i] = r[i]
  BY <1>1 DEF Appends
<1>3. \A i \in (Len(log) + 1)..Len(new) : i - Len(log) \in 1..Len(r) /\ Len(log) + (i - Len(log)) = i
  BY <1>2
<1>4. \A i \in (Len(log) + 1)..Len(new) : i - Len(log) \in 1..Len(r) /\ new[i] = r[i - Len(log)]
  BY <1>2, <1>3
<1> QED
  BY <1>2, <1>4 DEF Appended

LEMMA UnlistedAppend ==
  ASSUME NEW log \in Seq(Records), NEW r, NoListing(r), NEW new, Appends(new, log, r)
  PROVE  /\ Appended(new, log, r)
         /\ \A i \in (Len(log) + 1)..Len(new) : new[i].kind # "enumerated"
<1>1. r \in Seq(Records) /\ \A n \in 1..Len(r) : r[n].kind # "enumerated"
  BY DEF NoListing
<1>2. Appended(new, log, r)
  BY <1>1, AppendedIs
<1> QED
  BY <1>1, <1>2 DEF Appended

LEMMA LastStays ==
  ASSUME NEW log \in Seq(Records), NEW r, NoListing(r), NEW new, Appends(new, log, r), NEW v
  PROVE  IsLast(new, v) <=> IsLast(log, v)
<1>1. /\ Appended(new, log, r)
      /\ \A i \in (Len(log) + 1)..Len(new) : new[i].kind # "enumerated"
  BY UnlistedAppend
<1>2. /\ Len(log) \in Nat /\ Len(new) \in Nat /\ Len(log) <= Len(new)
      /\ \A i \in 1..Len(log) : new[i] = log[i]
  BY <1>1 DEF Appended
<1>3. Listing(v).kind = "enumerated"
  BY ListingKind
<1>4. ASSUME IsLast(new, v)
      PROVE  IsLast(log, v)
  <2>1. PICK n \in 1..Len(new) :
          new[n] = Listing(v) /\ \A m \in (n + 1)..Len(new) : new[m].kind # "enumerated"
    BY <1>4 DEF IsLast
  <2>2. n \in 1..Len(log)
    BY <1>1, <1>2, <1>3, <2>1
  <2>3. log[n] = Listing(v) /\ \A m \in (n + 1)..Len(log) : log[m].kind # "enumerated"
    BY <1>2, <2>1, <2>2
  <2> QED
    BY <2>2, <2>3 DEF IsLast
<1>5. ASSUME IsLast(log, v)
      PROVE  IsLast(new, v)
  <2>1. PICK n \in 1..Len(log) :
          log[n] = Listing(v) /\ \A m \in (n + 1)..Len(log) : log[m].kind # "enumerated"
    BY <1>5 DEF IsLast
  <2>2. n \in 1..Len(new) /\ new[n] = Listing(v)
    BY <1>2, <2>1
  <2>3. ASSUME NEW m \in (n + 1)..Len(new)
        PROVE  new[m].kind # "enumerated"
    <3>1. m \in (n + 1)..Len(log) \/ m \in (Len(log) + 1)..Len(new)
      BY <1>2, <2>3
    <3> QED
      BY <1>1, <1>2, <2>1, <3>1
  <2> QED
    BY <2>2, <2>3 DEF IsLast
<1> QED
  BY <1>4, <1>5

LEMMA LastListed ==
  ASSUME NEW log \in Seq(Records), NEW r, NoListing(r), NEW v \in Versions,
         NEW new, Lists(new, log, r, v), NEW w
  PROVE  IsLast(new, w) <=> w = v
<1>1. PICK n : ListedAt(n, log, r)
  BY DEF ListedAt
<1>2. Listed(new, log, r, v, n)
  BY <1>1, ListedIs, Zenon
<1>3. \A i \in (n + 1)..Len(new) : new[i].kind # "enumerated"
  BY <1>2, ListedThen
<1>4. n \in 1..Len(new) /\ new[n] = Listing(v) /\ new \in Seq(Records)
  BY <1>2 DEF Listed
<1>5. IsLast(new, v)
  BY <1>3, <1>4 DEF IsLast
<1> QED
  BY <1>4, <1>5, OneIsLast

LEMMA WellListedStays ==
  ASSUME NEW log \in Seq(Records), NEW r, NoListing(r), NEW new, Appends(new, log, r),
         WellListed(log)
  PROVE  WellListed(new)
<1>1. /\ Appended(new, log, r)
      /\ \A i \in (Len(log) + 1)..Len(new) : new[i].kind # "enumerated"
  BY UnlistedAppend
<1>2. /\ Len(log) \in Nat /\ Len(new) \in Nat /\ Len(log) <= Len(new)
      /\ \A i \in 1..Len(log) : new[i] = log[i]
  BY <1>1 DEF Appended
<1>3. SUFFICES ASSUME NEW n \in 1..Len(new), NEW m \in 1..Len(new), n < m,
                      new[n].kind = "enumerated", new[m].kind = "enumerated"
               PROVE  \E k \in (n + 1)..(m - 1) : new[k] = Retirement(new[n].of)
  BY DEF WellListed
<1>4. n \in 1..Len(log) /\ m \in 1..Len(log)
  BY <1>1, <1>2, <1>3
<1>5. log[n].kind = "enumerated" /\ log[m].kind = "enumerated" /\ new[n] = log[n]
  BY <1>2, <1>3, <1>4
<1>6. PICK k \in (n + 1)..(m - 1) : log[k] = Retirement(log[n].of)
  BY <1>3, <1>4, <1>5 DEF WellListed
<1>7. k \in 1..Len(log)
  BY <1>2, <1>4
<1> QED
  BY <1>2, <1>5, <1>6, <1>7

\* The retirement of the version a log has live.
RetiringOf(log) == IF Live(log) = None THEN <<>> ELSE <<Retirement(Live(log))>>

LEMMA RetiringIs ==
  ASSUME NEW log \in Seq(Records)
  PROVE  /\ NoListing(RetiringOf(log))
         /\ Live(log) # None => Len(RetiringOf(log)) = 1 /\ RetiringOf(log)[1] = Retirement(Live(log))
<1>1. CASE Live(log) = None
  BY <1>1 DEF RetiringOf, NoListing
<1>2. CASE Live(log) # None
  <2>1. PICK x : x = Retirement(Live(log))
    OBVIOUS
  <2>2. x \in Records /\ x.kind = "retired"
    <3>1. Live(log) \in Versions
      BY <1>2, LiveIs
    <3> QED
      BY <2>1, <3>1, RecordsAre, ListingKind
  <2>3. RetiringOf(log) = <<x>>
    BY <1>2, <2>1 DEF RetiringOf
  <2>4. NoListing(<<x>>) /\ Len(<<x>>) = 1 /\ <<x>>[1] = x
    BY <2>2 DEF NoListing
  <2> QED
    BY <2>1, <2>3, <2>4
<1> QED
  BY <1>1, <1>2

LEMMA WellListedLists ==
  ASSUME NEW log \in Seq(Records), NEW v \in Versions,
         NEW new, Lists(new, log, RetiringOf(log), v), WellListed(log)
  PROVE  WellListed(new)
<1>1. PICK r : r = RetiringOf(log)
  OBVIOUS
<1>2. /\ NoListing(r) /\ Lists(new, log, r, v)
      /\ Live(log) # None => Len(r) = 1 /\ r[1] = Retirement(Live(log))
  BY <1>1, RetiringIs
<1>3. PICK n : ListedAt(n, log, r)
  BY DEF ListedAt
<1>4. Listed(new, log, r, v, n)
  BY <1>2, <1>3, ListedIs, Zenon
<1>5. /\ n \in Nat /\ n > Len(log) /\ Len(log) \in Nat /\ n <= Len(new) /\ Len(new) \in Nat
      /\ \A i \in 1..Len(log) : new[i] = log[i]
      /\ \A i \in (Len(log) + 1)..(n - 1) : new[i].kind # "enumerated"
  BY <1>4 DEF Listed
<1>6. \A i \in (n + 1)..Len(new) : new[i].kind # "enumerated"
  BY <1>4, ListedThen
<1>7. SUFFICES ASSUME NEW a \in 1..Len(new), NEW m \in 1..Len(new), a < m,
                      new[a].kind = "enumerated", new[m].kind = "enumerated"
               PROVE  \E k \in (a + 1)..(m - 1) : new[k] = Retirement(new[a].of)
  BY DEF WellListed
<1>8. a \in 1..Len(log) /\ (m \in 1..Len(log) \/ m = n) /\ new[a] = log[a]
  BY <1>5, <1>6, <1>7
<1>9. CASE \E b \in (a + 1)..Len(log) : log[b].kind = "enumerated" /\ b <= m
  <2>1. PICK b \in (a + 1)..Len(log) : log[b].kind = "enumerated" /\ b <= m
    BY <1>9
  <2>2. b \in 1..Len(log) /\ a < b
    BY <1>5, <1>8, <2>1
  <2>3. PICK k \in (a + 1)..(b - 1) : log[k] = Retirement(log[a].of)
    BY <1>7, <1>8, <2>1, <2>2 DEF WellListed
  <2>4. k \in (a + 1)..(m - 1) /\ k \in 1..Len(log)
    BY <1>5, <1>8, <2>1, <2>2
  <2> QED
    BY <1>5, <1>8, <2>3, <2>4
<1>10. CASE ~(\E b \in (a + 1)..Len(log) : log[b].kind = "enumerated" /\ b <= m)
  <2>1. m = n /\ \A b \in (a + 1)..Len(log) : log[b].kind # "enumerated"
    BY <1>5, <1>7, <1>8, <1>10
  <2>2. CASE \E k \in (a + 1)..Len(log) : log[k] = Retirement(log[a].of)
    <3>1. PICK k \in (a + 1)..Len(log) : log[k] = Retirement(log[a].of)
      BY <2>2
    <3>2. k \in (a + 1)..(m - 1) /\ k \in 1..Len(log)
      BY <1>5, <1>8, <2>1
    <3> QED
      BY <1>5, <1>8, <3>1, <3>2
  <2>3. CASE ~(\E k \in (a + 1)..Len(log) : log[k] = Retirement(log[a].of))
    <3>1. a \in LiveListings(log)
      BY <1>7, <1>8, <2>3 DEF LiveListings
    <3>2. \A b \in LiveListings(log) : b <= a
      BY <1>5, <1>8, <2>1 DEF LiveListings
    <3>3. PICK b \in LiveListings(log) :
            log[b].of = Live(log) /\ \A k \in LiveListings(log) : k <= b
      BY <3>1, LiveIs
    <3>4. a = b
      BY <1>5, <1>8, <3>1, <3>2, <3>3 DEF LiveListings
    <3>5. Live(log) # None /\ log[a].of = Live(log)
      BY <3>1, <3>3, <3>4, LiveIs, PagesAre
    <3>6. Len(r) = 1 /\ r[1] = Retirement(log[a].of) /\ n = Len(log) + Len(r) + 1
      BY <1>2, <1>3, <3>5 DEF ListedAt
    <3>7. new[Len(log) + 1] = r[1]
      BY <1>4, <3>6 DEF Listed
    <3>8. Len(log) + 1 \in (a + 1)..(m - 1)
      BY <1>5, <1>8, <2>1, <3>6
    <3> QED
      BY <1>8, <3>6, <3>7, <3>8
  <2> QED
    BY <2>2, <2>3
<1> QED
  BY <1>9, <1>10

-----------------------------------------------------------------------------
(* From where the marks of a version count. *)

Others(log, v) == {0} \cup UNION {Listings(log, w) : w \in Versions \ {v}}
Own(log, v) == {n \in Listings(log, v) : n > Max(Others(log, v))}

LEMMA ListingsAre ==
  ASSUME NEW log \in Seq(Records), NEW v \in Versions
  PROVE  /\ \A n : n \in Listings(log, v) <=> n \in 1..Len(log) /\ log[n] = Listing(v)
         /\ \A n : n \in Others(log, v) <=>
                     \/ n = 0
                     \/ n \in 1..Len(log) /\ log[n].kind = "enumerated" /\ log[n].of # v
<1>1. DOMAIN log = 1..Len(log) /\ \A n \in 1..Len(log) : log[n] \in Records
  OBVIOUS
<1>2. \A w \in Versions : \A n : n \in Listings(log, w) <=> n \in 1..Len(log) /\ log[n].kind = "enumerated" /\ log[n].of = w
  BY <1>1 DEF Listings, Of
<1>3. \A n \in 1..Len(log) : log[n].of \in Versions
  BY <1>1, RecordIs
<1>4. \A n \in 1..Len(log) : log[n].kind = "enumerated" /\ log[n].of = v <=> log[n] = Listing(v)
  BY <1>1, RecordIs, ListingKind
<1>5. \A n : n \in Others(log, v) <=> n = 0 \/ \E w \in Versions \ {v} : n \in Listings(log, w)
  BY DEF Others
<1> QED
  BY <1>2, <1>3, <1>4, <1>5

LEMMA ThresholdIs ==
  ASSUME NEW log \in Seq(Records), NEW v \in Versions
  PROVE  /\ Max(Others(log, v)) \in Others(log, v)
         /\ \A n \in Others(log, v) : n <= Max(Others(log, v))
         /\ Threshold(log, v) = IF Own(log, v) = {} THEN Max(Others(log, v)) ELSE Min(Own(log, v))
         /\ Own(log, v) # {} => /\ Min(Own(log, v)) \in Own(log, v)
                                /\ \A n \in Own(log, v) : Min(Own(log, v)) <= n
         /\ Threshold(log, v) \in 0..Len(log)
<1>1. Len(log) \in Nat
  OBVIOUS
<1>2. Others(log, v) \in SUBSET (0..Len(log)) /\ 0 \in Others(log, v)
  BY <1>1, ListingsAre
<1>3. Max(Others(log, v)) \in Others(log, v) /\ \A n \in Others(log, v) : n <= Max(Others(log, v))
  <2>1. Others(log, v) # {}
    BY <1>2
  <2> QED
    BY <1>1, <1>2, <2>1, MaxIs
<1>4. Own(log, v) \in SUBSET Nat /\ \A n \in Own(log, v) : n \in 0..Len(log)
  BY <1>1, ListingsAre DEF Own
<1>5. Own(log, v) # {} => /\ Min(Own(log, v)) \in Own(log, v)
                          /\ \A n \in Own(log, v) : Min(Own(log, v)) <= n
  BY <1>4, MinIs
<1>6. Threshold(log, v) = IF Own(log, v) = {} THEN Max(Others(log, v)) ELSE Min(Own(log, v))
  BY DEF Threshold, Own, Others
<1>7. Threshold(log, v) \in 0..Len(log)
  BY <1>2, <1>3, <1>4, <1>5, <1>6
<1> QED
  BY <1>3, <1>5, <1>6, <1>7

\* Logs that list the same at the same places have the same threshold.
LEMMA ThresholdStays ==
  ASSUME NEW log \in Seq(Records), NEW r, NoListing(r), NEW new, Appends(new, log, r),
         NEW v \in Versions
  PROVE  Threshold(new, v) = Threshold(log, v)
<1>1. /\ Appended(new, log, r)
      /\ \A i \in (Len(log) + 1)..Len(new) : new[i].kind # "enumerated"
  BY UnlistedAppend
<1>2. /\ Len(log) \in Nat /\ Len(new) \in Nat /\ Len(log) <= Len(new) /\ new \in Seq(Records)
      /\ \A i \in 1..Len(log) : new[i] = log[i]
  BY <1>1 DEF Appended
<1>3. \A n \in 1..Len(new) : (n \in 1..Len(log) /\ new[n] = log[n]) \/ new[n].kind # "enumerated"
  BY <1>1, <1>2
<1>4. \A n \in 1..Len(log) : n \in 1..Len(new)
  BY <1>2
<1>5. Listing(v).kind = "enumerated"
  BY ListingKind
<1>6. \A n : n \in Listings(new, v) <=> n \in Listings(log, v)
  BY <1>2, <1>3, <1>4, <1>5, ListingsAre
<1>7. \A n : n \in Others(new, v) <=> n \in Others(log, v)
  BY <1>2, <1>3, <1>4, ListingsAre
<1>8. Listings(new, v) = Listings(log, v) /\ Others(new, v) = Others(log, v)
  BY <1>6, <1>7
<1>9. Own(new, v) = Own(log, v)
  BY <1>8 DEF Own
<1> QED
  BY <1>2, <1>8, <1>9, ThresholdIs

\* A version listed again while it is the last keeps its threshold; another starts anew.
LEMMA ThresholdListed ==
  ASSUME NEW log \in Seq(Records), NEW r, NoListing(r), NEW v \in Versions,
         NEW new, Lists(new, log, r, v)
  PROVE  /\ IsLast(log, v) => Threshold(new, v) = Threshold(log, v)
         /\ ~IsLast(log, v) => Threshold(new, v) > Len(log)
<1>1. PICK n : ListedAt(n, log, r)
  BY DEF ListedAt
<1>2. Listed(new, log, r, v, n)
  BY <1>1, ListedIs, Zenon
<1>3. /\ new \in Seq(Records) /\ n \in Nat /\ n > Len(log) /\ Len(log) \in Nat
      /\ n <= Len(new) /\ Len(new) \in Nat
      /\ \A i \in 1..Len(log) : new[i] = log[i]
      /\ \A i \in (Len(log) + 1)..(n - 1) : new[i].kind # "enumerated"
      /\ new[n] = Listing(v)
  BY <1>2 DEF Listed
<1>4. \A i \in (n + 1)..Len(new) : new[i].kind = "unit"
  BY <1>2, ListedThen
<1>5. Listing(v).kind = "enumerated" /\ Listing(v).of = v
  BY ListingKind
<1>6. \A i \in 1..Len(new) :
        \/ i = n
        \/ i \in 1..Len(log) /\ new[i] = log[i]
        \/ i > Len(log) /\ i # n /\ new[i].kind # "enumerated"
  BY <1>3, <1>4
<1>7. \A i \in 1..Len(log) : i \in 1..Len(new) /\ i # n
  BY <1>3
<1>8. \A i : i \in Listings(new, v) <=> i = n \/ i \in Listings(log, v)
  BY <1>3, <1>5, <1>6, <1>7, ListingsAre
<1>9. \A i : i \in Others(new, v) <=> i \in Others(log, v)
  BY <1>3, <1>5, <1>6, <1>7, ListingsAre
<1>10. PICK M : M = Max(Others(log, v))
  OBVIOUS
<1>11. /\ M = Max(Others(new, v)) /\ M \in Others(log, v) /\ \A i \in Others(log, v) : i <= M
       /\ M \in 0..Len(log)
  <2>1. Others(new, v) = Others(log, v)
    BY <1>9
  <2> QED
    BY <1>3, <1>10, <2>1, ThresholdIs, ListingsAre
<1>12. \A i : i \in Own(new, v) <=> i = n \/ i \in Own(log, v)
  BY <1>3, <1>8, <1>10, <1>11 DEF Own
<1>13. Threshold(new, v) \in Own(new, v) /\ \A i \in Own(new, v) : Threshold(new, v) <= i
  <2>1. Own(new, v) # {}
    BY <1>12
  <2> QED
    BY <1>3, <2>1, ThresholdIs
<1>14. \A i \in Own(log, v) : i \in 1..Len(log) /\ i > M
  BY <1>10, ListingsAre DEF Own
<1>15. ASSUME IsLast(log, v)
       PROVE  Threshold(new, v) = Threshold(log, v)
  <2>1. PICK k \in 1..Len(log) :
          log[k] = Listing(v) /\ \A m \in (k + 1)..Len(log) : log[m].kind # "enumerated"
    BY <1>15 DEF IsLast
  <2>2. M < k
    <3>1. M = 0 \/ (M \in 1..Len(log) /\ log[M].kind = "enumerated" /\ log[M].of # v)
      BY <1>11, ListingsAre
    <3>2. M # k
      BY <1>5, <2>1, <3>1
    <3>3. ~(M \in (k + 1)..Len(log))
      BY <2>1, <3>1
    <3> QED
      BY <1>3, <1>11, <3>2, <3>3
  <2>3. k \in Own(log, v)
    BY <1>10, <2>1, <2>2, ListingsAre DEF Own
  <2>4. Threshold(log, v) \in Own(log, v) /\ \A i \in Own(log, v) : Threshold(log, v) <= i
    BY <2>3, ThresholdIs
  <2>5. Threshold(new, v) <= k
    BY <1>12, <1>13, <2>3
  <2>6. Threshold(new, v) # n
    BY <1>3, <2>5
  <2>7. Threshold(new, v) \in Own(log, v)
    BY <1>12, <1>13, <2>6
  <2>8. PICK a, b : a = Threshold(new, v) /\ b = Threshold(log, v)
    OBVIOUS
  <2>9. a <= b /\ b <= a /\ a \in 1..Len(log) /\ b \in 1..Len(log)
    BY <1>12, <1>13, <1>14, <2>4, <2>7, <2>8
  <2> QED
    BY <1>3, <2>8, <2>9
<1>16. ASSUME ~IsLast(log, v)
       PROVE  Threshold(new, v) > Len(log)
  <2>1. SUFFICES ASSUME NEW i \in Own(log, v)
                 PROVE  FALSE
    BY <1>3, <1>12, <1>13
  <2>2. i \in 1..Len(log) /\ log[i] = Listing(v) /\ i > M
    BY <1>14, ListingsAre DEF Own
  <2> DEFINE L == {m \in 1..Len(log) : log[m].kind = "enumerated"}
  <2>3. PICK m \in L : \A k \in L : k <= m
    <3>1. L \in SUBSET (0..Len(log)) /\ i \in L
      BY <1>3, <1>5, <2>2
    <3> HIDE DEF L
    <3> QED
      BY <1>3, <3>1, MaxIs
  <2>4. m \in 1..Len(log) /\ log[m].kind = "enumerated" /\ i <= m
    BY <1>5, <2>2, <2>3
  <2>5. \A k \in (m + 1)..Len(log) : log[k].kind # "enumerated"
    BY <1>3, <2>3
  <2>6. log[m] # Listing(v)
    BY <1>16, <2>4, <2>5 DEF IsLast
  <2>7. log[m].of # v
    <3>1. log[m] \in Records
      BY <2>4
    <3> QED
      BY <2>4, <2>6, <3>1, RecordIs
  <2>8. m \in Others(log, v)
    BY <2>4, <2>7, ListingsAre
  <2> QED
    BY <1>3, <1>11, <2>2, <2>4, <2>8
<1> QED
  BY <1>15, <1>16

-----------------------------------------------------------------------------
(* The records that stand for a page. *)

\* A record of a page of a version.
IsOf(n, log, v, p) ==
  n \in 1..Len(log) /\ log[n].kind = "unit" /\ log[n].of = v /\ log[n].page = p

LEMMA LatestIs ==
  ASSUME NEW log \in Seq(Records), NEW v, NEW p, NEW m \in Nat, NEW n, n = Latest(log, v, p, m)
  PROVE  /\ n \in Nat
         /\ n = 0 \/ (IsOf(n, log, v, p) /\ n <= m)
         /\ \A k \in 1..Len(log) : IsOf(k, log, v, p) /\ k <= m => k <= n
<1> DEFINE S == {0} \cup {k \in Of(log, "unit", v) : log[k].page = p /\ k <= m}
<1>1. Len(log) \in Nat /\ DOMAIN log = 1..Len(log)
  OBVIOUS
<1>2. \A k : k \in S <=> k = 0 \/ (IsOf(k, log, v, p) /\ k <= m)
  BY <1>1 DEF Of, IsOf
<1>3. n = Max(S)
  BY DEF Latest
<1>4. S # {} /\ S \in SUBSET (0..Len(log))
  BY <1>1, <1>2 DEF IsOf
<1> HIDE DEF S
<1>5. n \in S /\ \A k \in S : k <= n
  BY <1>1, <1>3, <1>4, MaxIs
<1> QED
  BY <1>1, <1>2, <1>4, <1>5

-----------------------------------------------------------------------------
(* The queue of the store. *)

LEMMA QueueAppend ==
  ASSUME NEW q, NEW cl, QueueFits(q, cl), NEW t, TaskFits(t), t.at = "waiting",
         t.do \in Asking => /\ cl[t.call].at = Awaits(t.do)
                            /\ \A n \in 1..Len(q) : q[n].do \in Asking => q[n].call # t.call
  PROVE  QueueFits(Append(q, t), cl)
<1>1. q \in Seq(TaskType) /\ t \in TaskType /\ Len(q) \in Nat
  BY DEF QueueFits, TaskFits
<1>2. PICK new : new = Append(q, t)
  OBVIOUS
<1>3. /\ new \in Seq(TaskType) /\ Len(new) = Len(q) + 1 /\ new[Len(q) + 1] = t
      /\ \A n \in 1..Len(q) : new[n] = q[n]
  BY <1>1, <1>2
<1>4. \A n \in 1..Len(new) : n \in 1..Len(q) \/ n = Len(q) + 1
  BY <1>1, <1>3
<1>5. ASSUME NEW n \in 1..Len(new)
      PROVE  /\ TaskFits(new[n])
             /\ new[n].at = "hashed" => n = 1
             /\ new[n].do \in Asking =>
                  /\ cl[new[n].call].at = Awaits(new[n].do)
                  /\ \A m \in 1..Len(new) :
                       new[m].do \in Asking /\ new[m].call = new[n].call => m = n
  <2>1. CASE n \in 1..Len(q)
    BY <1>3, <1>4, <2>1 DEF QueueFits
  <2>2. CASE n = Len(q) + 1
    BY <1>3, <1>4, <2>2
  <2> QED
    BY <1>4, <2>1, <2>2
<1> QED
  BY <1>2, <1>3, <1>5 DEF QueueFits

LEMMA QueueTail ==
  ASSUME NEW q, NEW cl, QueueFits(q, cl), q # <<>>
  PROVE  QueueFits(Tail(q), cl)
<1>1. q \in Seq(TaskType) /\ Len(q) \in Nat \ {0}
  BY DEF QueueFits
<1>2. PICK new : new = Tail(q)
  OBVIOUS
<1>3. /\ new \in Seq(TaskType) /\ Len(new) = Len(q) - 1
      /\ \A n \in 1..Len(new) : new[n] = q[n + 1] /\ n + 1 \in 1..Len(q) /\ n + 1 # 1
  BY <1>1, <1>2
<1>4. ASSUME NEW n \in 1..Len(new)
      PROVE  /\ TaskFits(new[n])
             /\ new[n].at = "hashed" => n = 1
             /\ new[n].do \in Asking =>
                  /\ cl[new[n].call].at = Awaits(new[n].do)
                  /\ \A m \in 1..Len(new) :
                       new[m].do \in Asking /\ new[m].call = new[n].call => m = n
  <2>1. new[n] = q[n + 1] /\ n + 1 \in 1..Len(q) /\ n + 1 # 1
    BY <1>3
  <2>2. TaskFits(new[n]) /\ new[n].at # "hashed"
    BY <2>1 DEF QueueFits
  <2>3. ASSUME new[n].do \in Asking
        PROVE  /\ cl[new[n].call].at = Awaits(new[n].do)
               /\ \A m \in 1..Len(new) :
                    new[m].do \in Asking /\ new[m].call = new[n].call => m = n
    <3>1. /\ cl[new[n].call].at = Awaits(new[n].do)
          /\ \A m \in 1..Len(q) : q[m].do \in Asking /\ q[m].call = new[n].call => m = n + 1
      BY <2>1, <2>3 DEF QueueFits
    <3>2. ASSUME NEW m \in 1..Len(new), new[m].do \in Asking, new[m].call = new[n].call
          PROVE  m = n
      <4>1. m + 1 = n + 1
        BY <1>3, <3>1, <3>2
      <4> QED
        BY <4>1
    <3> QED
      BY <3>1, <3>2
  <2> QED
    BY <2>2, <2>3
<1> QED
  BY <1>2, <1>3, <1>4 DEF QueueFits

\* The queue does not mind a delivery that has asked nothing.
LEMMA QueueMoves ==
  ASSUME NEW q, NEW cl, NEW new, QueueFits(q, cl),
         \A n \in 1..Len(q) : q[n].do \in Asking => new[q[n].call].at = cl[q[n].call].at
  PROVE  QueueFits(q, new)
BY DEF QueueFits

LEMMA AwaitsIs ==
  /\ Awaits("place") = "places" /\ Awaits("mark") = "marks" /\ Awaits("settle") = "settles"
BY DEF Awaits

\* A delivery that awaits nothing of the store has nothing in its queue.
LEMMA NotQueued ==
  ASSUME NEW q, NEW cl, QueueFits(q, cl), NEW c,
         cl[c].at \notin {"places", "marks", "settles"}
  PROVE  \A n \in 1..Len(q) : q[n].do \in Asking => q[n].call # c
BY AwaitsIs DEF QueueFits, Asking

LEMMA QueueHead ==
  ASSUME NEW q, NEW cl, QueueFits(q, cl), q # <<>>
  PROVE  /\ Head(q) = q[1] /\ 1 \in 1..Len(q) /\ TaskFits(q[1]) /\ Len(q) \in Nat
         /\ q[1].do \in Asking => cl[q[1].call].at = Awaits(q[1].do)
         /\ q[1].do \in Asking =>
              \A n \in 1..Len(Tail(q)) : Tail(q)[n].do \in Asking => Tail(q)[n].call # q[1].call
<1>1. q \in Seq(TaskType) /\ Len(q) \in Nat \ {0} /\ 1 \in 1..Len(q)
  BY DEF QueueFits
<1>2. PICK new : new = Tail(q)
  OBVIOUS
<1>3. \A n \in 1..Len(new) : new[n] = q[n + 1] /\ n + 1 \in 1..Len(q) /\ n + 1 # 1
  BY <1>1, <1>2
<1>4. q[1].do \in Asking => cl[q[1].call].at = Awaits(q[1].do)
  BY <1>1 DEF QueueFits
<1>5. q[1].do \in Asking => \A n \in 1..Len(new) : new[n].do \in Asking => new[n].call # q[1].call
  BY <1>1, <1>3 DEF QueueFits
<1>6. Head(q) = q[1] /\ TaskFits(q[1])
  BY <1>1 DEF QueueFits
<1> QED
  BY <1>1, <1>2, <1>4, <1>5, <1>6

-----------------------------------------------------------------------------
(* What the tasks write. *)

LEMMA FitsJoined ==
  ASSUME NEW a, LogFits(a), NEW b, LogFits(b)
  PROVE  LogFits(a \o b)
<1>1. a \in Seq(Records) /\ b \in Seq(Records)
  BY DEF LogFits
<1>2. PICK new : Appends(new, a, b)
  BY DEF Appends
<1>3. Appended(new, a, b)
  BY <1>1, <1>2, AppendedIs
<1>4. \A n \in 1..Len(new) : \/ n \in 1..Len(a) /\ new[n] = a[n]
                             \/ n - Len(a) \in 1..Len(b) /\ new[n] = b[n - Len(a)]
  BY <1>3 DEF Appended
<1>5. \A n \in 1..Len(new) : RecordFits(new[n])
  BY <1>4 DEF LogFits
<1>6. LogFits(new)
  BY <1>3, <1>5 DEF LogFits, Appended
<1> QED
  BY <1>2, <1>6 DEF Appends

LEMMA FitsNothing == LogFits(<<>>) /\ Units(<<>>)
BY DEF LogFits, Units

LEMMA FitsListing ==
  ASSUME NEW v \in Versions
  PROVE  LogFits(Enumeration(v))
<1>1. PICK e : e = Enumeration(v)
  OBVIOUS
<1>2. /\ e \in Seq(Records) /\ Len(e) \in Nat \ {0} /\ e[1] = Listing(v)
      /\ \A n \in 2..Len(e) : \E p \in Settled(v) : e[n] = Unit(v, p, SettledAs(v, p), FALSE)
  BY <1>1, EnumerationIs
<1>3. RecordFits(e[1])
  <2>1. e[1].kind = "enumerated"
    BY <1>2, ListingKind
  <2> QED
    BY <2>1 DEF RecordFits
<1>4. ASSUME NEW n \in 2..Len(e)
      PROVE  RecordFits(e[n])
  <2>1. PICK p \in Settled(v) : e[n] = Unit(v, p, SettledAs(v, p), FALSE)
    BY <1>2
  <2>2. e[n].page = p /\ e[n].of = v
    BY <2>1 DEF Unit
  <2> QED
    BY <2>2 DEF RecordFits
<1>5. \A n \in 1..Len(e) : n = 1 \/ n \in 2..Len(e)
  BY <1>2
<1>6. LogFits(e)
  BY <1>2, <1>3, <1>4, <1>5 DEF LogFits
<1> QED
  BY <1>1, <1>6

LEMMA FitsRetiring ==
  ASSUME NEW log, LogFits(log)
  PROVE  LogFits(RetiringOf(log))
<1>1. log \in Seq(Records)
  BY DEF LogFits
<1>2. CASE Live(log) = None
  BY <1>2, FitsNothing DEF RetiringOf
<1>3. CASE Live(log) # None
  <2>1. PICK x : x = Retirement(Live(log))
    OBVIOUS
  <2>2. Live(log) \in Versions
    BY <1>1, <1>3, LiveIs
  <2>3. x \in Records /\ x.kind = "retired"
    BY <2>1, <2>2, RecordsAre, ListingKind
  <2>4. RecordFits(x)
    BY <2>3 DEF RecordFits
  <2>5. LogFits(<<x>>)
    BY <2>3, <2>4 DEF LogFits
  <2> QED
    BY <1>3, <2>1, <2>5 DEF RetiringOf
<1> QED
  BY <1>2, <1>3

\* What looking at the file comes to: nothing, a retirement, or a listing.
LookFits(look, log) ==
  /\ look.verified \in BOOLEAN /\ look.unenumerable \in BOOLEAN
  /\ \/ look.records = <<>>
     \/ look.records = RetiringOf(log)
     \/ \E v \in Versions : look.records = RetiringOf(log) \o Enumeration(v)

LEMMA LookIs ==
  \A r, k, b : Look(r, k, b).records = r /\ Look(r, k, b).verified = k /\ Look(r, k, b).unenumerable = b
BY DEF Look

LEMMA LookMade ==
  ASSUME NEW log, NEW r, NEW k \in BOOLEAN, NEW b \in BOOLEAN,
         \/ r = <<>>
         \/ r = RetiringOf(log)
         \/ \E v \in Versions : r = RetiringOf(log) \o Enumeration(v)
  PROVE  LookFits(Look(r, k, b), log)
<1>1. PICK look : look = Look(r, k, b)
  OBVIOUS
<1>2. look.records = r /\ look.verified = k /\ look.unenumerable = b
  BY <1>1, LookIs
<1>3. look.verified \in BOOLEAN /\ look.unenumerable \in BOOLEAN
  BY <1>2, Zenon
<1>4. LookFits(look, log)
  BY <1>2, <1>3, Zenon DEF LookFits
<1> QED
  BY <1>1, <1>4

LEMMA LookedFits ==
  ASSUME Inv, tasks # <<>>
  PROVE  LookFits(Looked(Underway), fold) /\ LookFits(Unlisted, fold)
<1>1. PICK t : t = Underway
  OBVIOUS
<1>2. TaskFits(t)
  BY <1>1, QueueHead DEF Inv, Underway
<1>3. verified \in BOOLEAN /\ unenumerable \in BOOLEAN
  BY DEF Inv, Fields
<1>4. Retiring = RetiringOf(fold)
  BY DEF Retiring, RetiringOf
<1>5. LookFits(Unlisted, fold)
  BY <1>4, LookMade, Zenon DEF Unlisted
<1>6. CASE t.at = "hashed" /\ Live(fold) # t.bytes
  <2>1. Looked(t) = Look(Retiring \o Enumeration(t.bytes), TRUE, FALSE)
    BY <1>6 DEF Looked
  <2>2. t.bytes \in Versions
    BY <1>2, <1>6 DEF TaskFits
  <2> QED
    BY <1>1, <1>4, <1>5, <2>1, <2>2, LookMade, Zenon
<1>7. CASE ~(t.at = "hashed" /\ Live(fold) # t.bytes)
  <2>1. \/ Looked(t) = Look(<<>>, TRUE, unenumerable)
        \/ Looked(t) = Look(<<>>, verified, unenumerable)
        \/ Looked(t) = Look(<<>>, FALSE, TRUE)
    BY <1>7, Zenon DEF Looked
  <2> QED
    BY <1>1, <1>3, <1>5, <2>1, LookMade, Zenon
<1> QED
  BY <1>6, <1>7

LEMMA LookedLog ==
  ASSUME NEW log, LogFits(log), NEW look, LookFits(look, log)
  PROVE  LogFits(look.records) /\ LogFits(log \o look.records)
<1>1. LogFits(look.records)
  BY FitsNothing, FitsListing, FitsRetiring, FitsJoined DEF LookFits
<1> QED
  BY <1>1, FitsJoined

\* An entry is what the latest record of its page says.
EntryOf(e, n, log, v, p) ==
  /\ IsOf(n, log, v, p) /\ log[n] \in Records
  /\ e.reading = {log[n].reading} /\ e.marked = Counts(log, v, n)

LEMMA EntryIs ==
  ASSUME NEW log \in Seq(Records), NEW v, NEW p, NEW n, n = Latest(log, v, p, Len(log)),
         NEW e, e = Entry(log, v, p)
  PROVE  \/ n = 0 /\ e.reading = {} /\ e.marked = FALSE
         \/ EntryOf(e, n, log, v, p)
<1>1. PICK m \in Nat : m = Len(log)
  OBVIOUS
<1>2. n = 0 \/ IsOf(n, log, v, p)
  BY <1>1, LatestIs
<1>3. CASE n = 0
  BY <1>3 DEF Entry
<1>4. CASE n # 0
  <2>1. e = [reading |-> {log[n].reading}, marked |-> Counts(log, v, n)]
    BY <1>4, Zenon DEF Entry
  <2>2. PICK x, g : x = Counts(log, v, n) /\ g = {log[n].reading}
    OBVIOUS
  <2>3. e = [reading |-> g, marked |-> x]
    BY <2>1, <2>2, Zenon
  <2>4. e.reading = g /\ e.marked = x
    BY <2>3
  <2>5. log[n] \in Records
    BY <1>2, <1>4 DEF IsOf
  <2> QED
    BY <1>2, <1>4, <2>2, <2>4, <2>5, Zenon DEF EntryOf
<1> QED
  BY <1>3, <1>4

\* A reading, where it goes, and whether it is marked: as the entry it repeats.
IsReading(r, t, log) ==
  \E m \in BOOLEAN :
    /\ r = Unit(Live(log), t.page, [how |-> t.how, bytes |-> t.from], m)
    /\ m => /\ Entry(log, Live(log), t.page).reading = {[how |-> t.how, bytes |-> t.from]}
            /\ Entry(log, Live(log), t.page).marked

LEMMA ReadingIs ==
  ASSUME NEW t, NEW log
  PROVE  \/ ReadingRecords(t, log) = <<>>
         \/ /\ Live(log) # None
            /\ \E r : IsReading(r, t, log) /\ ReadingRecords(t, log) = <<r>>
<1>1. CASE Live(log) = None \/ Barred(t)
  BY <1>1, Zenon DEF ReadingRecords
<1>2. CASE ~(Live(log) = None \/ Barred(t))
  <2>1. PICK v, reading : v = Live(log) /\ reading = [how |-> t.how, bytes |-> t.from]
    OBVIOUS
  <2>2. PICK m : m = (SameReading(log, v, t.page, reading) /\ Entry(log, v, t.page).marked)
    OBVIOUS
  <2>3. m \in BOOLEAN /\ (m => Entry(log, v, t.page).reading = {reading} /\ Entry(log, v, t.page).marked)
    BY <2>2, Zenon DEF SameReading
  <2>4. ReadingRecords(t, log) = <<Unit(v, t.page, reading, m)>>
    BY <1>2, <2>1, <2>2, Zenon DEF ReadingRecords
  <2>5. IsReading(Unit(v, t.page, reading, m), t, log)
    BY <2>1, <2>3, Zenon DEF IsReading
  <2> QED
    BY <1>2, <2>4, <2>5, Zenon
<1> QED
  BY <1>1, <1>2

\* A mark: on the latest reading of a page the delivery carries, which was read in full.
IsMark(r, c, log, v) ==
  \E p \in Carried(c), n \in 1..Len(log) :
    /\ n = Latest(log, v, p, Len(log)) /\ IsOf(n, log, v, p) /\ InFull(log[n].reading)
    /\ r = Unit(v, p, log[n].reading, TRUE)

LEMMA CarriedIs ==
  ASSUME NEW c, call[c].of \in Versions
  PROVE  IsFiniteSet(Carried(c))
<1>1. IsFiniteSet(DOMAIN Route[call[c].of])
  BY PagesAre
<1>2. TextPages(call[c].of) \subseteq DOMAIN Route[call[c].of]
  BY DEF TextPages
<1>3. IsFiniteSet(TextPages(call[c].of))
  BY <1>1, <1>2, FS_Subset
<1>4. IsFiniteSet({call[c].brings})
  BY FS_Singleton
<1> QED
  BY <1>3, <1>4 DEF Carried

LEMMA MarksAre ==
  ASSUME NEW c, call[c].of \in Versions, NEW log \in Seq(Records), NEW v \in Versions \cup {None}
  PROVE  \/ MarkRecords(c, log, v) = <<>>
         \/ /\ v = call[c].of
            /\ MarkRecords(c, log, v) \in Seq(Records)
            /\ \A i \in 1..Len(MarkRecords(c, log, v)) : IsMark(MarkRecords(c, log, v)[i], c, log, v)
<1>1. CASE v = None \/ ~StillLive(c, v)
  BY <1>1, Zenon DEF MarkRecords
<1>2. CASE ~(v = None \/ ~StillLive(c, v))
  <2> DEFINE due == {p \in Carried(c) \cap Named(log, v) : Markable(log, v, p)}
             K == Cardinality(due)
             say(p) == Unit(v, p, CHOOSE r \in Entry(log, v, p).reading : TRUE, TRUE)
             u == [n \in 1..K |-> say(SetToSeq(due)[n])]
  <2>1. v = call[c].of
    BY <1>2 DEF StillLive
  <2>2. MarkRecords(c, log, v) = u
    BY <1>2, Zenon DEF MarkRecords
  <2>3. IsFiniteSet(due)
    <3>1. due \subseteq Carried(c)
      OBVIOUS
    <3> QED
      BY <3>1, CarriedIs, FS_Subset
  <2>4. \A p \in due : p \in Carried(c) /\ Markable(log, v, p)
    OBVIOUS
  <2>5. ASSUME NEW p \in due
        PROVE  say(p) \in Records /\ IsMark(say(p), c, log, v)
    <3>1. PICK e, n : e = Entry(log, v, p) /\ n = Latest(log, v, p, Len(log))
      OBVIOUS
    <3>2. \E r \in e.reading : InFull(r)
      BY <2>4, <3>1 DEF Markable
    <3>3. EntryOf(e, n, log, v, p)
      BY <3>1, <3>2, EntryIs
    <3>4. InFull(log[n].reading) /\ (CHOOSE r \in e.reading : TRUE) = log[n].reading
      BY <3>2, <3>3 DEF EntryOf
    <3>5. say(p) = Unit(v, p, log[n].reading, TRUE)
      BY <3>1, <3>4
    <3>6. p \in Pages /\ log[n].reading \in Readings
      BY <3>3, RecordIs DEF EntryOf, IsOf
    <3>7. say(p) \in Records
      BY <1>2, <3>5, <3>6, RecordsAre
    <3>8. p \in Carried(c)
      BY <2>4
    <3>9. PICK r : r = say(p)
      OBVIOUS
    <3>10. IsMark(r, c, log, v)
      <4>1. n \in 1..Len(log) /\ IsOf(n, log, v, p)
        BY <3>3 DEF EntryOf, IsOf
      <4> QED
        BY <3>1, <3>4, <3>5, <3>8, <3>9, <4>1, Zenon DEF IsMark
    <3> QED
      BY <3>7, <3>9, <3>10
  <2>6. DOMAIN u = 1..K /\ \A n \in 1..K : u[n] = say(SetToSeq(due)[n])
    OBVIOUS
  <2> HIDE DEF due, say
  <2>7. K \in Nat /\ \A n \in 1..K : SetToSeq(due)[n] \in due
    BY <2>3, SetAsSeq
  <2>8. \A n \in 1..K : u[n] \in Records /\ IsMark(u[n], c, log, v)
    <3> TAKE n \in 1..K
    <3>1. PICK p \in due : p = SetToSeq(due)[n]
      BY <2>7
    <3>2. u[n] = say(p)
      BY <2>6, <3>1
    <3> QED
      BY <2>5, <3>2
  <2> HIDE DEF u, K
  <2>9. u \in Seq(Records) /\ Len(u) = K
    <3>1. u \in [1..K -> Records]
      <4>1. u = [n \in 1..K |-> u[n]]
        BY <2>6 DEF u
      <4> QED
        BY <2>8, <4>1
    <3> QED
      BY <2>7, <3>1
  <2> QED
    BY <2>1, <2>2, <2>8, <2>9
<1> QED
  BY <1>1, <1>2

LEMMA CurrentIs ==
  ASSUME Inv, NEW t, NEW look, LookFits(look, fold)
  PROVE  Current(t, look) \in Versions \cup {None}
<1>1. PICK log : log = fold \o look.records
  OBVIOUS
<1>2. log \in Seq(Records)
  BY <1>1, LookedLog DEF Inv, Logs, LogFits
<1>3. Live(log) \in Versions \cup {None}
  BY <1>2, LiveIs
<1> QED
  BY <1>1, <1>3 DEF Current

\* The delivery that awaits the task under way.
LEMMA Awaited ==
  ASSUME Inv, tasks # <<>>, Underway.do \in Asking
  PROVE  /\ Underway.call \in Calls /\ CallFits(call[Underway.call])
         /\ call[Underway.call].at = Awaits(Underway.do)
         /\ call[Underway.call].of \in Versions
<1>1. PICK t : t = Underway
  OBVIOUS
<1>2. TaskFits(t) /\ t.do \in Asking /\ call[t.call].at = Awaits(t.do)
  BY <1>1, QueueHead DEF Inv, Underway
<1>3. t.call \in Calls
  BY <1>2 DEF TaskFits
<1>4. CallFits(call[t.call])
  BY <1>3 DEF Inv, CallsFit
<1>5. call[t.call].at # "idle"
  BY <1>2, AwaitsIs DEF Asking
<1>6. call[t.call].of \in Versions
  BY <1>4, <1>5 DEF CallFits
<1> QED
  BY <1>1, <1>2, <1>3, <1>4, <1>6

LEMMA WorkFitsIn ==
  ASSUME Inv, tasks # <<>>, NEW look, LookFits(look, fold)
  PROVE  /\ LogFits(Work(Underway, look))
         /\ \/ Units(Work(Underway, look))
            \/ Underway.do = "remove" /\ Work(Underway, look) = RetiringOf(fold)
<1>1. PICK t, work, log : t = Underway /\ work = Work(t, look) /\ log = fold \o look.records
  OBVIOUS
<1>2. TaskFits(t) /\ LogFits(fold) /\ LogFits(log) /\ log \in Seq(Records)
  BY <1>1, QueueHead, LookedLog DEF Inv, Underway, Logs, LogFits
<1>3. CASE t.do = "reading"
  <2>1. work = ReadingRecords(t, log)
    BY <1>1, <1>3 DEF Work
  <2>2. CASE work = <<>>
    BY <1>1, <2>2, FitsNothing
  <2>3. CASE work # <<>>
    <3>1. PICK r : Live(log) # None /\ IsReading(r, t, log) /\ work = <<r>>
      BY <2>1, <2>3, ReadingIs
    <3>2. PICK v, reading : v = Live(log) /\ reading = [how |-> t.how, bytes |-> t.from]
      OBVIOUS
    <3>3. PICK m \in BOOLEAN : r = Unit(v, t.page, reading, m)
      BY <3>1, <3>2, Zenon DEF IsReading
    <3>4. v \in Versions
      BY <1>2, <3>1, <3>2, LiveIs
    <3>5. /\ t.from \in Versions /\ t.page \in DOMAIN Route[t.from]
          /\ t.how = "nothing" => States[t.from][t.page] = {}
          /\ t.how \in {"image", "partial", "nothing"}
      BY <1>2, <1>3 DEF TaskFits, TaskType
    <3>6. t.page \in Pages /\ reading \in Readings
      BY <3>2, <3>5, PagesAre DEF Readings
    <3>7. r \in Records
      BY <3>3, <3>4, <3>6, RecordsAre
    <3>8. r.kind = "unit" /\ r.of = v /\ r.page = t.page /\ r.reading = reading
      BY <3>3 DEF Unit
    <3>9. RecordFits(r)
      BY <3>2, <3>5, <3>8 DEF RecordFits
    <3>10. LogFits(<<r>>) /\ Units(<<r>>)
      BY <3>7, <3>8, <3>9 DEF LogFits, Units
    <3> QED
      BY <1>1, <3>1, <3>10
  <2> QED
    BY <2>2, <2>3
<1>4. CASE t.do = "mark"
  <2>1. PICK c, v : c = t.call /\ v = Current(t, look)
    OBVIOUS
  <2>2. work = MarkRecords(c, log, v)
    BY <1>1, <1>4, <2>1 DEF Work
  <2>3. call[c].of \in Versions
    BY <1>1, <1>4, <2>1, Awaited DEF Asking
  <2>4. v \in Versions \cup {None}
    BY <2>1, CurrentIs
  <2>5. CASE work = <<>>
    BY <1>1, <2>5, FitsNothing
  <2>6. CASE work # <<>>
    <3>1. v \in Versions /\ work \in Seq(Records) /\ \A i \in 1..Len(work) : IsMark(work[i], c, log, v)
      BY <1>2, <2>2, <2>3, <2>4, <2>6, MarksAre
    <3>2. ASSUME NEW i \in 1..Len(work)
          PROVE  work[i].kind = "unit" /\ RecordFits(work[i])
      <4>1. \E p \in Carried(c), n \in 1..Len(log) :
              IsOf(n, log, v, p) /\ work[i] = Unit(v, p, log[n].reading, TRUE)
        BY <3>1 DEF IsMark
      <4>1a. PICK p \in Carried(c) : \E n \in 1..Len(log) :
              IsOf(n, log, v, p) /\ work[i] = Unit(v, p, log[n].reading, TRUE)
        BY <4>1
      <4>1b. PICK n \in 1..Len(log) : IsOf(n, log, v, p) /\ work[i] = Unit(v, p, log[n].reading, TRUE)
        BY <4>1a
      <4>2. /\ work[i].kind = "unit" /\ work[i].of = v /\ work[i].page = p
            /\ work[i].reading = log[n].reading
        BY <4>1b DEF Unit
      <4>3. RecordFits(log[n]) /\ log[n].kind = "unit" /\ log[n].of = v /\ log[n].page = p
        BY <1>2, <4>1b DEF LogFits, IsOf
      <4> QED
        BY <4>2, <4>3 DEF RecordFits
    <3>3. LogFits(work) /\ Units(work)
      BY <3>1, <3>2 DEF LogFits, Units
    <3> QED
      BY <1>1, <3>3
  <2> QED
    BY <2>5, <2>6
<1>5. CASE t.do = "remove"
  <2>1. work = RetiringOf(fold)
    BY <1>1, <1>5 DEF Work, Retiring, RetiringOf
  <2> QED
    BY <1>1, <1>2, <1>5, <2>1, FitsRetiring
<1>6. CASE t.do \notin {"reading", "mark", "remove"}
  <2>1. work = <<>>
    BY <1>1, <1>6 DEF Work
  <2> QED
    BY <1>1, <2>1, FitsNothing
<1> QED
  BY <1>3, <1>4, <1>5, <1>6

-----------------------------------------------------------------------------
(* The deliveries. *)

LEMMA NoCallFits == CallFits(NoCall) /\ NoCall.at = "idle"
BY DEF CallFits, NoCall, CallType

\* One delivery moves.
Sets(new, cl, c, w) == new = [cl EXCEPT ![c] = w]

LEMMA ChangedCall ==
  ASSUME NEW cl, CallsFit(cl), NEW c \in Calls, NEW w, CallFits(w), NEW new, Sets(new, cl, c, w)
  PROVE  CallsFit(new) /\ new[c] = w /\ \A d \in Calls \ {c} : new[d] = cl[d]
BY DEF CallsFit, CallFits, Sets

LEMMA MovedCall ==
  ASSUME NEW w, CallFits(w), NEW at, NEW new, new = [w EXCEPT !.at = at],
         \/ at = "extracts" /\ w.at = "reads"
         \/ at = "places" /\ w.at = "extracts"
         \/ at = "marks" /\ w.at = "resolves"
         \/ at = "settles" /\ w.at \in {"resolves", "marks"}
  PROVE  CallFits(new) /\ new.at = at
<1>1. w \in CallType /\ w.of \in Versions /\ at \in {"extracts", "places", "marks", "settles"}
  BY DEF CallFits
<1>2. new \in CallType
  BY <1>1 DEF CallType
<1>3. /\ new.at = at /\ new.of = w.of /\ new.brings = w.brings /\ new.how = w.how
      /\ new.found = w.found /\ new.current = w.current /\ new.standing = w.standing
  BY <1>1 DEF CallType
<1> QED
  BY <1>1, <1>2, <1>3 DEF CallFits

LEMMA MovesFits ==
  ASSUME CallsFit(call), NEW c \in Calls, NEW at, Moves(c, at),
         \/ at = "idle"
         \/ at = "extracts" /\ call[c].at = "reads"
         \/ at = "places" /\ call[c].at = "extracts"
         \/ at = "marks" /\ call[c].at = "resolves"
         \/ at = "settles" /\ call[c].at \in {"resolves", "marks"}
  PROVE  CallsFit(call') /\ call'[c].at = at /\ \A d \in Calls \ {c} : call'[d] = call[d]
<1>1. PICK new : new = call'
  OBVIOUS
<1>2. CASE at = "idle"
  <2>1. Sets(new, call, c, NoCall)
    BY <1>1, <1>2 DEF Moves, Sets
  <2>2. CallsFit(new)
    BY <2>1, NoCallFits, ChangedCall
  <2>3. new[c] = NoCall
    BY <2>1, NoCallFits, ChangedCall
  <2>4. \A d \in Calls \ {c} : new[d] = call[d]
    BY <2>1, NoCallFits, ChangedCall
  <2> QED
    BY <1>1, <1>2, <2>2, <2>3, <2>4, NoCallFits
<1>3. CASE at # "idle"
  <2>1. PICK w : w = [call[c] EXCEPT !.at = at]
    OBVIOUS
  <2>2. CallFits(call[c]) /\ DOMAIN call = Calls
    BY DEF CallsFit
  <2>3. CallFits(w) /\ w.at = at
    BY <1>3, <2>1, <2>2, MovedCall
  <2>4. Sets(new, call, c, w)
    BY <1>1, <1>3, <2>1, <2>2 DEF Moves, Sets
  <2>5. CallsFit(new)
    BY <2>3, <2>4, ChangedCall
  <2>6. new[c] = w
    BY <2>3, <2>4, ChangedCall
  <2>7. \A d \in Calls \ {c} : new[d] = call[d]
    BY <2>3, <2>4, ChangedCall
  <2> QED
    BY <1>1, <2>3, <2>5, <2>6, <2>7
<1> QED
  BY <1>2, <1>3

\* The queue does not mind what happens to a delivery that awaits nothing in it.
Unasked(q, c) == \A n \in 1..Len(q) : q[n].do \in Asking => q[n].call # c
Spares(new, cl, c) == \A d \in Calls \ {c} : new[d] = cl[d]

LEMMA OthersWait ==
  ASSUME NEW q, NEW cl, QueueFits(q, cl), NEW c, NEW new, Spares(new, cl, c), Unasked(q, c)
  PROVE  QueueFits(q, new)
<1>1. \A n \in 1..Len(q) : q[n].do \in Asking => q[n].call \in Calls
  BY DEF QueueFits, TaskFits
<1>2. \A n \in 1..Len(q) : q[n].do \in Asking => new[q[n].call].at = cl[q[n].call].at
  BY <1>1 DEF Spares, Unasked
<1> QED
  BY <1>2, QueueMoves

LEMMA TaskIs ==
  \A do : /\ Task(do).do = do /\ Task(do).at = "waiting" /\ Task(do).call = None
          /\ Task(do).page = Text /\ Task(do).how = "image" /\ Task(do).from = None
          /\ Task(do).bytes = None
BY DEF Task

LEMMA PlainFits ==
  ASSUME NEW do \in {"list", "remove"}
  PROVE  TaskFits(Task(do)) /\ Task(do).at = "waiting" /\ Task(do).do \notin Asking
BY DEF Task, TaskFits, TaskType, Asking

LEMMA ForFits ==
  ASSUME NEW do \in Asking, NEW c \in Calls
  PROVE  /\ TaskFits(For(do, c)) /\ For(do, c).at = "waiting" /\ For(do, c).do = do
         /\ For(do, c).call = c
BY DEF Task, For, TaskFits, TaskType, Asking

LEMMA ReadingTask ==
  ASSUME CallsFit(call), NEW c \in Calls, call[c].at = "reads",
         NEW how \in {"image", "partial", "nothing"}, how = "nothing" => call[c].found = {}
  PROVE  /\ TaskFits(Reading(c, how)) /\ Reading(c, how).at = "waiting"
         /\ Reading(c, how).do \notin Asking
<1>1. PICK w : w = call[c]
  OBVIOUS
<1>2. CallFits(w) /\ w.at = "reads"
  BY <1>1 DEF CallsFit
<1>3. w.how = "image" /\ w.of \in Versions /\ w.brings \in {Text} \cup DOMAIN Route[w.of]
  BY <1>2 DEF CallFits
<1>4. w.brings \in DOMAIN Route[w.of] /\ w.found = States[w.of][w.brings]
  BY <1>2, <1>3 DEF CallFits
<1>5. w.brings \in Pages
  BY <1>3, <1>4, PagesAre
<1>6. PICK t : t = Reading(c, how)
  OBVIOUS
<1>7. t = [do |-> "reading", call |-> None, page |-> w.brings, how |-> how, from |-> w.of,
           at |-> "waiting", bytes |-> None]
  BY <1>1, <1>6 DEF Reading, Task
<1>8. TaskFits(t) /\ t.at = "waiting" /\ t.do = "reading"
  BY <1>1, <1>3, <1>4, <1>5, <1>7 DEF TaskFits, TaskType, Asking
<1> QED
  BY <1>6, <1>8 DEF Asking

-----------------------------------------------------------------------------
(* Every step keeps the invariant. *)

LEMMA EditsKeeps ==
  ASSUME Inv, Edits
  PROVE  Inv'
<1>1. Fields'
  <2>1. edits' \in Nat
    BY DEF Edits, Inv, Fields
  <2>2. PICK v \in (Versions \cup {None}) \ {file} :
          /\ file' = v
          /\ events' = Append(events, CASE v = None    -> "delete"
                                        [] file = None -> "create"
                                        [] OTHER       -> "modify")
    BY DEF Edits
  <2>3. PICK e : e = CASE v = None -> "delete" [] file = None -> "create" [] OTHER -> "modify"
    OBVIOUS
  <2>4. e \in {"modify", "create", "delete"}
    BY <2>3
  <2>5. events' \in Seq({"modify", "create", "delete"}) /\ file' \in Versions \cup {None}
    BY <2>2, <2>3, <2>4 DEF Inv, Fields
  <2> QED
    BY <2>1, <2>5 DEF Edits, Inv, Fields, store
<1> QED
  BY <1>1 DEF Edits, Inv, Logs, store

LEMMA ObservesKeeps ==
  ASSUME Inv, Observes
  PROVE  Inv'
<1>1. events' \in Seq({"modify", "create", "delete"}) /\ Head(events) \in {"modify", "create", "delete"}
  BY DEF Observes, Inv, Fields
<1>2. /\ verified' \in BOOLEAN /\ unenumerable' \in BOOLEAN
      /\ missed' \in BOOLEAN
  <2>1. CASE Head(events) = "modify"
    <3>1. unenumerable' = FALSE /\ verified' = FALSE
      BY <2>1 DEF Observes, Distrusts
    <3>2. missed' = (missed \/ ListsOldBytes)
      BY <2>1 DEF Observes
    <3>3. missed' \in BOOLEAN
      BY <3>2, Zenon
    <3> QED
      BY <3>1, <3>3
  <2>2. CASE Head(events) = "create"
    BY <2>2 DEF Observes, Inv, Fields
  <2>3. CASE Head(events) = "delete"
    BY <2>3 DEF Observes, Inv, Fields
  <2> QED
    BY <1>1, <2>1, <2>2, <2>3
<1>3. QueueFits(tasks', call')
  <2>1. call' = call
    BY DEF Observes
  <2>2. CASE Head(events) = "delete"
    <3>1. tasks' = Append(tasks, Task("remove"))
      BY <2>2 DEF Observes, Asks
    <3>2. QueueFits(Append(tasks, Task("remove")), call)
      BY PlainFits, QueueAppend DEF Inv
    <3> QED
      BY <2>1, <3>1, <3>2
  <2>3. CASE Head(events) # "delete"
    <3>1. tasks' = tasks
      BY <1>1, <2>3 DEF Observes
    <3> QED
      BY <2>1, <3>1 DEF Inv
  <2> QED
    BY <2>2, <2>3
<1>4. Fields'
  BY <1>1, <1>2 DEF Observes, Inv, Fields
<1> QED
  BY <1>3, <1>4 DEF Observes, Inv, Logs

LEMMA CensusKeeps ==
  ASSUME Inv, Census
  PROVE  Inv'
<1>1. tasks' = Append(tasks, Task("list")) /\ call' = call
  BY DEF Census, Asks
<1>2. QueueFits(Append(tasks, Task("list")), call)
  BY PlainFits, QueueAppend DEF Inv
<1>3. Fields' /\ Logs'
  BY DEF Census, Inv, Fields, Logs
<1> QED
  BY <1>1, <1>2, <1>3 DEF Inv

LEMMA HashesKeeps ==
  ASSUME Inv, Hashes
  PROVE  Inv'
<1>1. PICK q, t : q = tasks /\ t = [tasks[1] EXCEPT !.at = "hashed", !.bytes = file]
  OBVIOUS
<1>2. q # <<>> /\ QueueFits(q, call) /\ call' = call
  BY <1>1 DEF Hashes, Inv
<1>3. Head(q) = q[1] /\ 1 \in 1..Len(q) /\ TaskFits(q[1]) /\ Len(q) \in Nat
  BY <1>2, QueueHead
<1>4. q \in Seq(TaskType) /\ q[1] \in TaskType
  BY <1>2, <1>3 DEF QueueFits
<1>5. file \in Versions /\ q[1].do # "remove"
  BY <1>1, <1>3 DEF Hashes, MustHash, Rehashes, Underway, Inv, Fields
<1>6. TaskFits(t) /\ t.do = q[1].do /\ t.call = q[1].call
  <2>1. t.do = q[1].do /\ t.call = q[1].call /\ t.page = q[1].page /\ t.how = q[1].how
        /\ t.from = q[1].from /\ t.at = "hashed" /\ t.bytes = file /\ t \in TaskType
    BY <1>1, <1>4, <1>5 DEF TaskType
  <2> QED
    BY <1>3, <1>5, <2>1 DEF TaskFits
<1>7. PICK new : new = tasks'
  OBVIOUS
<1>8. new = [q EXCEPT ![1] = t]
  <2>1. tasks' = [tasks EXCEPT ![1].at = "hashed", ![1].bytes = file]
    BY DEF Hashes
  <2> QED
    BY <1>1, <1>3, <1>4, <1>7, <2>1
<1>9. /\ new \in Seq(TaskType) /\ Len(new) = Len(q) /\ new[1] = t
      /\ \A n \in 1..Len(q) : n # 1 => new[n] = q[n]
  BY <1>3, <1>4, <1>6, <1>8 DEF TaskFits
<1>10. \A n \in 1..Len(new) :
         /\ new[n].do = q[n].do /\ new[n].call = q[n].call
         /\ TaskFits(new[n]) /\ (new[n].at = "hashed" => n = 1)
  BY <1>2, <1>6, <1>9 DEF QueueFits
<1>11. QueueFits(new, call)
  BY <1>2, <1>9, <1>10 DEF QueueFits
<1>12. Fields' /\ Logs'
  BY DEF Hashes, Inv, Fields, Logs
<1> QED
  BY <1>2, <1>7, <1>11, <1>12 DEF Inv

LEMMA KnownIs ==
  ASSUME NEW log
  PROVE  Known(log) \subseteq Versions
BY DEF Known

\* Where a delivery goes on.
LEMMA PlacedFits ==
  ASSUME NEW w, CallFits(w), w.at = "places", NEW v \in Versions \cup {None}, NEW log \in Seq(Records),
         Standing(log, v, w.of) # "late",
         NEW new, new = [w EXCEPT !.at = "resolves", !.current = v,
                                  !.listed = IF v = None THEN 0 ELSE Threshold(log, v),
                                  !.standing = Standing(log, v, w.of)]
  PROVE  CallFits(new)
<1>1. w \in CallType /\ w.of \in Versions
  BY DEF CallFits
<1>2. PICK k, s : k = (IF v = None THEN 0 ELSE Threshold(log, v)) /\ s = Standing(log, v, w.of)
  OBVIOUS
<1>3. k \in Nat
  <2>1. CASE v = None
    BY <1>2, <2>1
  <2>2. CASE v # None
    <3>1. Threshold(log, v) \in 0..Len(log)
      BY <2>2, ThresholdIs
    <3> QED
      BY <1>2, <2>2, <3>1
  <2> QED
    BY <2>1, <2>2
<1>4. s \in {"open", "reread", "unplaced"} /\ v = IF s = "unplaced" THEN None ELSE w.of
  <2>1. CASE v = None
    BY <1>1, <1>2, <2>1, PagesAre DEF Standing
  <2>2. CASE v # None /\ v # w.of
    BY <1>1, <1>2, <2>2, PagesAre DEF Standing
  <2>3. CASE v # None /\ v = w.of
    BY <1>1, <1>2, <2>3, PagesAre DEF Standing
  <2> QED
    BY <2>1, <2>2, <2>3
<1>5. new = [w EXCEPT !.at = "resolves", !.current = v, !.listed = k, !.standing = s]
  BY <1>2
<1>6. new \in CallType
  BY <1>1, <1>3, <1>4, <1>5 DEF CallType
<1>7. /\ new.at = "resolves" /\ new.of = w.of /\ new.brings = w.brings /\ new.how = w.how
      /\ new.found = w.found /\ new.current = v /\ new.standing = s
  BY <1>1, <1>5 DEF CallType
<1> QED
  BY <1>1, <1>4, <1>6, <1>7 DEF CallFits

LEMMA RetiresFits ==
  ASSUME NEW v \in Versions, NEW known \in SUBSET Versions,
         NEW new, new = [NoCall EXCEPT !.at = "retires", !.of = v, !.current = v, !.known = known]
  PROVE  CallFits(new)
<1>1. NoCall \in CallType
  BY NoCallFits DEF CallFits
<1>2. new \in CallType
  BY <1>1 DEF CallType
<1>3. new.at = "retires" /\ new.of = v /\ new.current = v
  BY <1>1 DEF CallType
<1> QED
  BY <1>2, <1>3 DEF CallFits

LEMMA AnswersFits ==
  ASSUME Inv, tasks # <<>>, NEW log \in Seq(Records), NEW v \in Versions \cup {None},
         Answers(Underway, log, v)
  PROVE  CallsFit(call') /\ QueueFits(tasks', call')
<1>1. PICK t, c, q, new : t = Underway /\ c = t.call /\ q = Tail(tasks) /\ new = call'
  OBVIOUS
<1>2. QueueFits(q, call) /\ CallsFit(call) /\ DOMAIN call = Calls
  BY <1>1, QueueTail DEF Inv, CallsFit
<1>3. CASE t.do \in Asking
  <2>1. /\ c \in Calls /\ CallFits(call[c]) /\ call[c].at = Awaits(t.do)
        /\ call[c].of \in Versions
    BY <1>1, <1>3, Awaited
  <2>2. Unasked(q, c)
    BY <1>1, <1>3, QueueHead DEF Inv, Underway, Unasked
  <2>3. ASSUME NEW w, CallFits(w), Sets(new, call, c, w)
        PROVE  CallsFit(new) /\ QueueFits(q, new)
    <3>1. CallsFit(new)
      BY <1>2, <2>1, <2>3, ChangedCall
    <3>2. Spares(new, call, c)
      BY <1>2, <2>1, <2>3, ChangedCall DEF Spares
    <3> QED
      BY <1>2, <2>2, <3>1, <3>2, OthersWait
  <2>4. CASE t.do = "place"
    <3>1. tasks' = q
      BY <1>1, <2>4 DEF Answers
    <3>2. CASE Standing(log, v, call[c].of) = "late"
      <4>1. Moves(c, "idle")
        BY <1>1, <2>4, <3>2 DEF Answers
      <4>2. Sets(new, call, c, NoCall)
        BY <1>1, <4>1 DEF Moves, Sets
      <4>3. CallsFit(new) /\ QueueFits(q, new)
        BY <2>3, <4>2, NoCallFits
      <4> QED
        BY <1>1, <3>1, <4>3
    <3>3. CASE Standing(log, v, call[c].of) # "late"
      <4>1. PICK w : w = [call[c] EXCEPT !.at = "resolves", !.current = v,
                                         !.listed = IF v = None THEN 0 ELSE Threshold(log, v),
                                         !.standing = Standing(log, v, call[c].of)]
        OBVIOUS
      <4>2. call' = [call EXCEPT ![c].at = "resolves", ![c].current = v,
                                 ![c].listed = IF v = None THEN 0 ELSE Threshold(log, v),
                                 ![c].standing = Standing(log, v, call[c].of)]
        BY <1>1, <2>4, <3>3 DEF Answers
      <4>3. Sets(new, call, c, w)
        BY <1>1, <1>2, <2>1, <4>1, <4>2 DEF Sets
      <4>4. CallFits(w)
        BY <2>1, <2>4, <3>3, <4>1, AwaitsIs, PlacedFits
      <4>5. CallsFit(new) /\ QueueFits(q, new)
        BY <2>3, <4>3, <4>4
      <4> QED
        BY <1>1, <3>1, <4>5
    <3> QED
      BY <3>2, <3>3
  <2>5. CASE t.do = "mark"
    <3>1. Moves(c, "settles") /\ tasks' = Append(q, For("settle", c))
      BY <1>1, <2>5 DEF Answers
    <3>2. CallsFit(call') /\ call'[c].at = "settles" /\ \A d \in Calls \ {c} : call'[d] = call[d]
      BY <1>2, <2>1, <2>5, <3>1, AwaitsIs, MovesFits
    <3>3. QueueFits(q, new)
      <4>1. Spares(new, call, c)
        BY <1>1, <3>2 DEF Spares
      <4> QED
        BY <1>2, <2>2, <4>1, OthersWait
    <3>4. PICK s : s = For("settle", c)
      OBVIOUS
    <3>5. TaskFits(s) /\ s.at = "waiting" /\ s.do = "settle" /\ s.call = c
      BY <2>1, <3>4, ForFits DEF Asking
    <3>6. new[s.call].at = Awaits(s.do)
      BY <1>1, <3>2, <3>5, AwaitsIs
    <3>7. QueueFits(Append(q, s), new)
      BY <2>2, <3>3, <3>5, <3>6, QueueAppend DEF Unasked
    <3> QED
      BY <1>1, <3>1, <3>2, <3>4, <3>7
  <2>6. CASE t.do = "settle"
    <3>1. tasks' = q
      BY <1>1, <2>6 DEF Answers
    <3>2. CASE v = None \/ ~ReadInFull(log, v)
      <4>1. Moves(c, "idle")
        BY <1>1, <2>6, <3>2 DEF Answers
      <4>2. Sets(new, call, c, NoCall)
        BY <1>1, <4>1 DEF Moves, Sets
      <4>3. CallsFit(new) /\ QueueFits(q, new)
        BY <2>3, <4>2, NoCallFits
      <4> QED
        BY <1>1, <3>1, <4>3
    <3>3. CASE ~(v = None \/ ~ReadInFull(log, v))
      <4>1. PICK w : w = [NoCall EXCEPT !.at = "retires", !.of = v, !.current = v,
                                        !.known = Known(log)]
        OBVIOUS
      <4>2. Sets(new, call, c, w)
        BY <1>1, <2>6, <3>3, <4>1 DEF Answers, Sets
      <4>3. CallFits(w)
        <5>1. PICK k : k = Known(log)
          OBVIOUS
        <5>2. k \in SUBSET Versions
          BY <5>1, KnownIs
        <5> QED
          BY <3>3, <4>1, <5>1, <5>2, RetiresFits
      <4>4. CallsFit(new) /\ QueueFits(q, new)
        BY <2>3, <4>2, <4>3
      <4> QED
        BY <1>1, <3>1, <4>4
    <3> QED
      BY <3>2, <3>3
  <2> QED
    BY <1>3, <2>4, <2>5, <2>6 DEF Asking
<1>4. CASE t.do \notin Asking
  <2>1. tasks' = q /\ call' = call
    BY <1>1, <1>4 DEF Answers, Asking
  <2> QED
    BY <1>2, <2>1
<1> QED
  BY <1>3, <1>4

LEMMA BorrowsFits ==
  ASSUME Inv, tasks # <<>>, NEW look, LookFits(look, fold)
  PROVE  Borrows(Underway, look, Work(Underway, look)) \subseteq Versions
<1>1. PICK t, work, v : t = Underway /\ work = Work(t, look) /\ v = Current(t, look)
  OBVIOUS
<1>2. CASE t.do # "mark" \/ work = <<>>
  BY <1>1, <1>2, Zenon DEF Borrows
<1>3. CASE t.do = "mark" /\ work # <<>>
  <2>1. v \in Versions \cup {None}
    BY <1>1, CurrentIs
  <2>2. work = MarkRecords(t.call, fold \o look.records, v)
    BY <1>1, <1>3 DEF Work
  <2>3. v # None
    BY <1>3, <2>2, Zenon DEF MarkRecords
  <2>4. Borrows(t, look, work) \subseteq {v}
    BY <1>1, <1>3 DEF Borrows
  <2> QED
    BY <1>1, <2>1, <2>3, <2>4
<1> QED
  BY <1>2, <1>3

LEMMA PassOfFits ==
  ASSUME Inv, tasks # <<>>
  PROVE  /\ PassOf(Underway) \subseteq Versions
         /\ \A v : Skips(Underway, v) \subseteq Versions
<1>1. PICK t : t = Underway
  OBVIOUS
<1>2. t.do \in {"mark", "settle"} => call[t.call].of \in Versions
  BY <1>1, Awaited DEF Asking
<1> QED
  BY <1>1, <1>2 DEF PassOf, Skips

LEMMA EndsFits ==
  ASSUME Inv, tasks # <<>>, NEW look, LookFits(look, fold), Ends(look)
  PROVE  /\ Logs' /\ CallsFit(call') /\ QueueFits(tasks', call')
         /\ verified' \in BOOLEAN /\ unenumerable' \in BOOLEAN /\ missed' \in BOOLEAN
         /\ borrowed' \subseteq Versions /\ skipped' \subseteq Versions
<1>1. PICK t, work, log : t = Underway /\ work = Work(t, look) /\ log = fold \o look.records \o work
  OBVIOUS
<1>2. LogFits(work) /\ LogFits(look.records) /\ LogFits(fold) /\ LogFits(disk)
  BY <1>1, WorkFitsIn, LookedLog DEF Inv, Logs
<1>3. LogFits(log) /\ LogFits(disk \o look.records \o work)
  <2>1. LogFits(fold \o look.records) /\ LogFits(disk \o look.records)
    BY <1>2, FitsJoined
  <2> QED
    BY <1>1, <1>2, <2>1, FitsJoined
<1>4. /\ fold' = log /\ disk' = disk \o look.records \o work
      /\ borrowed' = borrowed \cup Borrows(t, look, work)
      /\ Answers(Underway, log, Current(Underway, look))
      /\ verified' = (look.verified /\ Underway.do # "remove")
      /\ unenumerable' = (look.unenumerable /\ Underway.do # "remove")
      /\ missed' = (missed /\ (Hashed => ListsOldBytes))
  BY <1>1, Zenon DEF Ends
<1>5. Logs'
  BY <1>3, <1>4 DEF Logs
<1>6. CallsFit(call') /\ QueueFits(tasks', call')
  <2>1. log \in Seq(Records) /\ Current(Underway, look) \in Versions \cup {None}
    BY <1>3, CurrentIs DEF LogFits
  <2>2. PICK v \in Versions \cup {None} : v = Current(Underway, look)
    BY <2>1
  <2> QED
    BY <1>4, <2>1, <2>2, AnswersFits
<1>7. verified' \in BOOLEAN /\ unenumerable' \in BOOLEAN /\ missed' \in BOOLEAN
  BY <1>4, Zenon
<1>8. borrowed' \subseteq Versions
  BY <1>1, <1>4, BorrowsFits DEF Inv, Fields
<1>9. skipped' \subseteq Versions
  <2>1. PICK skips : skips = Skips(Underway, Current(Underway, look))
    OBVIOUS
  <2>2. skipped' = skipped \cup skips
    BY <2>1, Zenon DEF Ends
  <2>3. skips \subseteq Versions
    BY <2>1, PassOfFits
  <2> QED
    BY <2>2, <2>3 DEF Inv, Fields
<1> QED
  BY <1>5, <1>6, <1>7, <1>8, <1>9

LEMMA MishapIs ==
  ASSUME mishaps \in Nat, Mishap
  PROVE  mishaps' \in Nat
BY DEF Mishap

LEMMA WorksKeeps ==
  ASSUME Inv, Works
  PROVE  Inv'
<1>1. PICK look : look = Looked(Underway)
  OBVIOUS
<1>2. tasks # <<>> /\ LookFits(look, fold) /\ Ends(look)
  BY <1>1, LookedFits DEF Works
<1>3. /\ Logs' /\ CallsFit(call') /\ QueueFits(tasks', call')
      /\ verified' \in BOOLEAN /\ unenumerable' \in BOOLEAN /\ missed' \in BOOLEAN
      /\ borrowed' \subseteq Versions /\ skipped' \subseteq Versions
  BY <1>2, EndsFits
<1>4. Fields'
  BY <1>3 DEF Works, Inv, Fields
<1> QED
  BY <1>3, <1>4 DEF Inv

LEMMA CannotListKeeps ==
  ASSUME Inv, CannotList
  PROVE  Inv'
<1>1. PICK look : look = Unlisted
  OBVIOUS
<1>2. tasks # <<>> /\ LookFits(look, fold) /\ Ends(look)
  BY <1>1, LookedFits DEF CannotList, Hashed
<1>3. /\ Logs' /\ CallsFit(call') /\ QueueFits(tasks', call')
      /\ verified' \in BOOLEAN /\ unenumerable' \in BOOLEAN /\ missed' \in BOOLEAN
      /\ borrowed' \subseteq Versions /\ skipped' \subseteq Versions
  BY <1>2, EndsFits
<1>4. mishaps' \in Nat
  BY MishapIs DEF CannotList, Inv, Fields
<1>5. Fields'
  BY <1>3, <1>4 DEF CannotList, Inv, Fields
<1> QED
  BY <1>3, <1>5 DEF Inv

LEMMA RejectedFits ==
  ASSUME Inv, tasks # <<>>, Rejected(Underway)
  PROVE  CallsFit(call') /\ QueueFits(Tail(tasks), call')
<1>1. PICK t, c, q, new : t = Underway /\ c = t.call /\ q = Tail(tasks) /\ new = call'
  OBVIOUS
<1>2. QueueFits(q, call) /\ CallsFit(call) /\ DOMAIN call = Calls
  BY <1>1, QueueTail DEF Inv, CallsFit
<1>3. CASE t.do \in Asking
  <2>1. /\ c \in Calls /\ CallFits(call[c]) /\ call[c].at = Awaits(t.do)
    BY <1>1, <1>3, Awaited
  <2>2. Unasked(q, c)
    BY <1>1, <1>3, QueueHead DEF Inv, Underway, Unasked
  <2>3. ASSUME NEW w, CallFits(w), Sets(new, call, c, w)
        PROVE  CallsFit(new) /\ QueueFits(q, new)
    <3>1. CallsFit(new)
      BY <1>2, <2>1, <2>3, ChangedCall
    <3>2. Spares(new, call, c)
      BY <1>2, <2>1, <2>3, ChangedCall DEF Spares
    <3> QED
      BY <1>2, <2>2, <3>1, <3>2, OthersWait
  <2>4. CASE t.do = "place"
    <3>1. PICK w : w = [call[c] EXCEPT !.at = "resolves", !.standing = "unplaced"]
      OBVIOUS
    <3>2. Sets(new, call, c, w)
      BY <1>1, <1>2, <2>1, <2>4, <3>1 DEF Rejected, Sets
    <3>3. call[c].at = "places" /\ call[c] \in CallType /\ call[c].of \in Versions
      BY <2>1, <2>4, AwaitsIs DEF CallFits
    <3>4. w \in CallType
      BY <3>1, <3>3 DEF CallType
    <3>5. /\ w.at = "resolves" /\ w.of = call[c].of /\ w.brings = call[c].brings
          /\ w.how = call[c].how /\ w.found = call[c].found /\ w.current = call[c].current
          /\ w.standing = "unplaced"
      BY <3>1, <3>3 DEF CallType
    <3>6. CallFits(w)
      BY <2>1, <3>3, <3>4, <3>5 DEF CallFits
    <3> QED
      BY <1>1, <2>3, <3>2, <3>6
  <2>5. CASE t.do # "place"
    <3>1. Sets(new, call, c, NoCall)
      BY <1>1, <1>3, <2>5 DEF Rejected, Moves, Sets, Asking
    <3> QED
      BY <1>1, <2>3, <3>1, NoCallFits
  <2> QED
    BY <2>4, <2>5
<1>4. CASE t.do \notin Asking
  <2>1. call' = call
    BY <1>1, <1>4 DEF Rejected, Asking
  <2> QED
    BY <1>1, <1>2, <2>1
<1> QED
  BY <1>3, <1>4

LEMMA AppendFailsKeeps ==
  ASSUME Inv, AppendFails
  PROVE  Inv'
<1>1. PICK t, look : t = Underway /\ look = Looked(t)
  OBVIOUS
<1>2. PICK work : work = Work(t, look)
  OBVIOUS
<1>3. tasks # <<>> /\ LookFits(look, fold)
  BY <1>1, LookedFits DEF AppendFails
<1>4. LogFits(look.records) /\ LogFits(work) /\ LogFits(fold) /\ LogFits(disk)
  BY <1>1, <1>2, <1>3, WorkFitsIn, LookedLog DEF Inv, Logs
<1>5. CallsFit(call') /\ QueueFits(tasks', call')
  <2>1. Rejected(Underway) /\ tasks' = Tail(tasks)
    BY DEF AppendFails
  <2> QED
    BY <1>3, <2>1, RejectedFits
<1>6. Logs' /\ verified' \in BOOLEAN /\ unenumerable' \in BOOLEAN /\ missed' \in BOOLEAN
      /\ borrowed' \subseteq Versions
  <2>1. CASE ListingFails
    <3>1. disk' \in {disk, disk \o look.records}
          /\ UNCHANGED <<fold, verified, unenumerable, missed, borrowed>>
      BY <1>1, <2>1 DEF ListingFails
    <3>2. LogFits(disk \o look.records)
      BY <1>4, FitsJoined
    <3>3. LogFits(disk') /\ LogFits(fold')
      BY <1>4, <3>1, <3>2
    <3> QED
      BY <3>1, <3>3 DEF Inv, Fields, Logs
  <2>2. CASE WorkFails
    <3>1. /\ fold' = fold \o look.records
          /\ disk' \in {disk \o look.records, disk \o look.records \o work}
          /\ verified' = (look.verified /\ t.do # "remove")
          /\ unenumerable' = (look.unenumerable /\ t.do # "remove")
          /\ missed' = (missed /\ (Hashed => ListsOldBytes))
          /\ borrowed' = borrowed \cup Borrows(t, look, work)
      BY <1>1, <1>2, <2>2 DEF WorkFails
    <3>2. LogFits(disk \o look.records) /\ LogFits(fold \o look.records)
      BY <1>4, FitsJoined
    <3>3. LogFits(disk \o look.records \o work)
      BY <1>4, <3>2, FitsJoined
    <3>4. Logs'
      BY <3>1, <3>2, <3>3 DEF Logs
    <3>5. verified' \in BOOLEAN /\ unenumerable' \in BOOLEAN /\ missed' \in BOOLEAN
      BY <3>1, Zenon
    <3>6. borrowed' \subseteq Versions
      BY <1>1, <1>2, <1>3, <3>1, BorrowsFits DEF Inv, Fields
    <3> QED
      BY <3>4, <3>5, <3>6
  <2> QED
    BY <2>1, <2>2 DEF AppendFails
<1>7. mishaps' \in Nat
  BY MishapIs DEF AppendFails, Inv, Fields
<1>8. skipped' \subseteq Versions
  BY <1>3, PassOfFits DEF AppendFails, Inv, Fields
<1>9. Fields'
  BY <1>6, <1>7, <1>8 DEF AppendFails, Inv, Fields
<1> QED
  BY <1>5, <1>6, <1>9 DEF Inv

LEMMA RestartsKeeps ==
  ASSUME Inv, Restarts
  PROVE  Inv'
<1>1. PICK look : look = Looked(Underway)
  OBVIOUS
<1>2. LogFits(disk')
  <2>1. CASE disk' = disk
    BY <2>1 DEF Inv, Logs
  <2>2. CASE disk' # disk
    <3>1. Hashed /\ disk' = disk \o look.records
      BY <1>1, <2>2 DEF Restarts
    <3>2. LookFits(look, fold)
      BY <1>1, <3>1, LookedFits DEF Hashed
    <3>3. LogFits(look.records) /\ LogFits(disk)
      BY <3>2, LookedLog DEF Inv, Logs
    <3>4. LogFits(disk \o look.records)
      BY <3>3, FitsJoined
    <3> QED
      BY <3>1, <3>4
  <2> QED
    BY <2>1, <2>2
<1>3. fold' = disk' /\ call' = [c \in Calls |-> NoCall] /\ tasks' = <<>>
  BY DEF Restarts
<1>4. Logs'
  BY <1>2, <1>3 DEF Logs
<1>5. CallsFit(call')
  <2>1. CallsFit([c \in Calls |-> NoCall])
    BY NoCallFits DEF CallsFit, CallFits
  <2> QED
    BY <1>3, <2>1
<1>6. QueueFits(tasks', call')
  BY <1>3 DEF QueueFits
<1>7. mishaps' \in Nat
  BY MishapIs DEF Restarts, Inv, Fields
<1>8. Fields'
  <2>1. verified' \in BOOLEAN /\ unenumerable' \in BOOLEAN /\ missed' \in BOOLEAN
    BY DEF Restarts
  <2>2. events' \in Seq({"modify", "create", "delete"})
    BY DEF Restarts
  <2> QED
    BY <1>7, <2>1, <2>2 DEF Restarts, Inv, Fields
<1> QED
  BY <1>4, <1>5, <1>6, <1>8 DEF Inv

LEMMA StartsKeeps ==
  ASSUME Inv, NEW c \in Calls, Starts(c)
  PROVE  Inv'
<1>1. PICK d \in (Deliveries(file) \cap {Text})
              \cup (DOMAIN Route[file] \cap UNION {ImagePages(v) : v \in Versions}) :
       call' = [call EXCEPT ![c] = [NoCall EXCEPT !.of = file, !.brings = d, !.found = States[file][d],
                                      !.how = IF d = Text THEN "text" ELSE "image",
                                      !.at = IF d = Text THEN "extracts" ELSE "reads"]]
  BY DEF Starts
<1>2. file \in Versions
  BY DEF Starts, Inv, Fields
<1>3. \/ d = Text /\ Text \in Deliveries(file)
      \/ d # Text /\ d \in DOMAIN Route[file] /\ d \in Pages
  BY <1>1, <1>2, PagesAre DEF Text
<1>4. PICK w : w = [NoCall EXCEPT !.of = file, !.brings = d, !.found = States[file][d],
                                  !.how = IF d = Text THEN "text" ELSE "image",
                                  !.at = IF d = Text THEN "extracts" ELSE "reads"]
  OBVIOUS
<1>5. NoCall \in CallType /\ NoCall.current = None
  BY NoCallFits DEF CallFits, NoCall
<1>6. States[file][d] \in SUBSET Outcomes
  BY <1>2, <1>3, OutcomeRevisionAssumption
<1>7. /\ w \in CallType /\ w.of = file /\ w.brings = d /\ w.found = States[file][d]
      /\ w.how = (IF d = Text THEN "text" ELSE "image") /\ w.current = None
      /\ w.at = (IF d = Text THEN "extracts" ELSE "reads")
  BY <1>2, <1>3, <1>4, <1>5, <1>6 DEF CallType
<1>8. CallFits(w)
  BY <1>2, <1>3, <1>7 DEF CallFits
<1>9. PICK new : new = call'
  OBVIOUS
<1>10. Sets(new, call, c, w) /\ CallsFit(call)
  BY <1>1, <1>4, <1>9 DEF Sets, Inv
<1>11. CallsFit(new)
  BY <1>8, <1>10, ChangedCall
<1>12. Spares(new, call, c)
  BY <1>8, <1>10, ChangedCall DEF Spares
<1>13. QueueFits(tasks, call) /\ call[c].at = "idle"
  BY DEF Starts, Inv
<1>14. Unasked(tasks, c)
  BY <1>13, NotQueued DEF Unasked
<1>15. QueueFits(tasks, new)
  BY <1>12, <1>13, <1>14, OthersWait
<1>16. made' \in Nat
  BY DEF Starts, Inv, Fields
<1>17. Fields' /\ Logs' /\ tasks' = tasks
  BY <1>16 DEF Starts, Inv, Fields, Logs, store
<1> QED
  BY <1>9, <1>11, <1>15, <1>17 DEF Inv

\* A delivery that awaits nothing moves, and may ask something of the store.
LEMMA MovesKeeps ==
  ASSUME Inv, NEW c \in Calls, call[c].at \in {"reads", "extracts", "resolves", "retires"},
         CallsFit(call'), \A d \in Calls \ {c} : call'[d] = call[d],
         \/ tasks' = tasks
         \/ \E t : /\ tasks' = Append(tasks, t) /\ TaskFits(t) /\ t.at = "waiting"
                   /\ t.do \in Asking => t.call = c /\ call'[c].at = Awaits(t.do)
  PROVE  QueueFits(tasks', call')
<1>1. PICK q, new : q = tasks /\ new = call'
  OBVIOUS
<1>2. Spares(new, call, c) /\ QueueFits(q, call)
  BY <1>1 DEF Spares, Inv
<1>3. Unasked(q, c)
  BY <1>2, NotQueued DEF Unasked
<1>4. QueueFits(q, new)
  BY <1>2, <1>3, OthersWait
<1>5. CASE tasks' = tasks
  BY <1>1, <1>4, <1>5
<1>6. CASE tasks' # tasks
  <2>1. PICK t : /\ tasks' = Append(q, t) /\ TaskFits(t) /\ t.at = "waiting"
                 /\ t.do \in Asking => t.call = c /\ new[c].at = Awaits(t.do)
    BY <1>1, <1>6
  <2>2. QueueFits(Append(q, t), new)
    BY <1>3, <1>4, <2>1, QueueAppend DEF Unasked
  <2> QED
    BY <1>1, <2>1, <2>2
<1> QED
  BY <1>5, <1>6

LEMMA ReadsPageKeeps ==
  ASSUME Inv, NEW c \in Calls, ReadsPage(c)
  PROVE  Inv'
<1>1. call[c].at = "reads" /\ CallsFit(call)
  BY DEF ReadsPage, Inv
<1>2. PICK at, how : /\ Asks(Reading(c, how)) /\ Moves(c, at)
                     /\ at \in {"extracts", "idle"} /\ how \in {"image", "nothing"}
                     /\ how = "nothing" => call[c].found = {}
  BY DEF ReadsPage
<1>3. CallsFit(call') /\ \A d \in Calls \ {c} : call'[d] = call[d]
  BY <1>1, <1>2, MovesFits
<1>4. PICK t : t = Reading(c, how)
  OBVIOUS
<1>5. TaskFits(t) /\ t.at = "waiting" /\ t.do \notin Asking
  BY <1>1, <1>2, <1>4, ReadingTask
<1>6. tasks' = Append(tasks, t)
  BY <1>2, <1>4 DEF Asks
<1>7. QueueFits(tasks', call')
  BY <1>1, <1>3, <1>5, <1>6, MovesKeeps
<1>8. Fields' /\ Logs'
  BY DEF ReadsPage, Inv, Fields, Logs
<1> QED
  BY <1>3, <1>7, <1>8 DEF Inv

LEMMA ReadsInPartKeeps ==
  ASSUME Inv, NEW c \in Calls, ReadsInPart(c)
  PROVE  Inv'
<1>1. call[c].at = "reads" /\ CallsFit(call) /\ DOMAIN call = Calls /\ CallFits(call[c])
  BY DEF ReadsInPart, Inv, CallsFit
<1>2. PICK w, new : /\ Sets(new, call, c, w) /\ new = call'
                    /\ \/ w = [call[c] EXCEPT !.at = "extracts", !.how = "partial", !.found = {}]
                       \/ w = NoCall
  BY <1>1 DEF ReadsInPart, Sets
<1>3. CallFits(w)
  <2>1. CASE w = NoCall
    BY <2>1, NoCallFits
  <2>2. CASE w # NoCall
    <3>1. PICK u : u = call[c]
      OBVIOUS
    <3>2. w = [u EXCEPT !.at = "extracts", !.how = "partial", !.found = {}]
      BY <1>2, <2>2, <3>1
    <3>3. u \in CallType /\ u.of \in Versions /\ u.at = "reads" /\ u.how = "image"
          /\ u.brings # Text /\ u.brings \in {Text} \cup DOMAIN Route[u.of] /\ u.current = None
      BY <1>1, <3>1 DEF CallFits
    <3>4. w \in CallType
      BY <3>2, <3>3 DEF CallType
    <3>5. /\ w.at = "extracts" /\ w.of = u.of /\ w.brings = u.brings /\ w.how = "partial"
          /\ w.found = {} /\ w.current = u.current
      BY <3>2, <3>3 DEF CallType
    <3> QED
      BY <3>3, <3>4, <3>5 DEF CallFits
  <2> QED
    BY <2>1, <2>2
<1>4. CallsFit(new)
  BY <1>1, <1>2, <1>3, ChangedCall
<1>5. \A d \in Calls \ {c} : new[d] = call[d]
  BY <1>1, <1>2, <1>3, ChangedCall
<1>6. PICK t : t = Reading(c, "partial")
  OBVIOUS
<1>7. TaskFits(t) /\ t.at = "waiting" /\ t.do \notin Asking
  BY <1>1, <1>6, ReadingTask
<1>8. tasks' = Append(tasks, t)
  BY <1>6 DEF ReadsInPart, Asks
<1>9. QueueFits(tasks', call')
  BY <1>1, <1>2, <1>4, <1>5, <1>7, <1>8, MovesKeeps
<1>10. mishaps' \in Nat
  BY MishapIs DEF ReadsInPart, Inv, Fields
<1>11. Fields' /\ Logs'
  BY <1>10 DEF ReadsInPart, Inv, Fields, Logs
<1> QED
  BY <1>2, <1>4, <1>9, <1>11 DEF Inv

LEMMA CallFailsKeeps ==
  ASSUME Inv, NEW c \in Calls, CallFails(c)
  PROVE  Inv'
<1>1. call[c].at \in {"reads", "extracts"} /\ CallsFit(call) /\ Moves(c, "idle")
  BY DEF CallFails, Inv
<1>2. CallsFit(call') /\ \A d \in Calls \ {c} : call'[d] = call[d]
  BY <1>1, MovesFits
<1>3. tasks' = tasks
  BY DEF CallFails, store
<1>4. QueueFits(tasks', call')
  BY <1>1, <1>2, <1>3, MovesKeeps
<1>5. mishaps' \in Nat
  BY MishapIs DEF CallFails, Inv, Fields
<1>6. Fields' /\ Logs'
  BY <1>5 DEF CallFails, Inv, Fields, Logs, store
<1> QED
  BY <1>2, <1>4, <1>6 DEF Inv

LEMMA ExtractsKeeps ==
  ASSUME Inv, NEW c \in Calls, Extracts(c)
  PROVE  Inv'
<1>1. call[c].at = "extracts" /\ CallsFit(call) /\ Moves(c, "places")
  BY DEF Extracts, Inv
<1>2. CallsFit(call') /\ call'[c].at = "places" /\ \A d \in Calls \ {c} : call'[d] = call[d]
  BY <1>1, MovesFits
<1>3. PICK t : t = For("place", c)
  OBVIOUS
<1>4. TaskFits(t) /\ t.at = "waiting" /\ t.do = "place" /\ t.call = c
  BY <1>3, ForFits DEF Asking
<1>5. tasks' = Append(tasks, t)
  BY <1>3 DEF Extracts, Asks
<1>6. QueueFits(tasks', call')
  BY <1>1, <1>2, <1>4, <1>5, AwaitsIs, MovesKeeps
<1>7. Fields' /\ Logs'
  BY DEF Extracts, Inv, Fields, Logs
<1> QED
  BY <1>2, <1>6, <1>7 DEF Inv

LEMMA LateFits ==
  ASSUME Inv, NEW c \in Calls, late' = Late(c)
  PROVE  late' \subseteq Outcomes
BY DEF Late, Inv, Fields

LEMMA ResolvedIs ==
  ASSUME Inv, NEW c \in Calls, call[c].at = "resolves", NEW o \in Outcomes
  PROVE  Resolved(c, o) \in OutcomeType
<1>1. call[c].of \in Versions
  BY DEF Inv, CallsFit, CallFits
<1>2. outcome[o] \in OutcomeType
  BY DEF Inv, Fields
<1> QED
  BY <1>1, <1>2 DEF Resolved, OutcomeType

LEMMA ResolvesKeeps ==
  ASSUME Inv, NEW c \in Calls, Resolves(c)
  PROVE  Inv'
<1>1. call[c].at = "resolves" /\ CallsFit(call)
  BY DEF Resolves, Inv
<1>2. PICK at, do : /\ Moves(c, at) /\ tasks' = Append(tasks, For(do, c))
                    /\ \/ at = "settles" /\ do = "settle"
                       \/ at = "marks" /\ do = "mark"
  BY DEF Resolves, Asks
<1>3. CallsFit(call') /\ call'[c].at = at /\ \A d \in Calls \ {c} : call'[d] = call[d]
  BY <1>1, <1>2, MovesFits
<1>4. PICK t : t = For(do, c)
  OBVIOUS
<1>5. TaskFits(t) /\ t.at = "waiting" /\ t.do = do /\ t.call = c
  BY <1>2, <1>4, ForFits DEF Asking
<1>6. call'[c].at = Awaits(t.do)
  BY <1>2, <1>3, <1>5, AwaitsIs
<1>7. QueueFits(tasks', call')
  BY <1>1, <1>2, <1>3, <1>4, <1>5, <1>6, MovesKeeps
<1>8. outcome' \in [Outcomes -> OutcomeType]
  BY <1>1, ResolvedIs DEF Resolves
<1>9. late' \subseteq Outcomes
  BY LateFits DEF Resolves
<1>10. Fields' /\ Logs'
  BY <1>8, <1>9 DEF Resolves, Inv, Fields, Logs
<1> QED
  BY <1>3, <1>7, <1>10 DEF Inv

LEMMA ResolveFailsKeeps ==
  ASSUME Inv, NEW c \in Calls, ResolveFails(c)
  PROVE  Inv'
<1>1. call[c].at = "resolves" /\ CallsFit(call) /\ Moves(c, "idle") /\ CallFits(call[c])
  BY DEF ResolveFails, Inv, CallsFit
<1>2. CallsFit(call') /\ \A d \in Calls \ {c} : call'[d] = call[d]
  BY <1>1, MovesFits
<1>3. tasks' = tasks
  BY DEF ResolveFails, store
<1>4. QueueFits(tasks', call')
  BY <1>1, <1>2, <1>3, MovesKeeps
<1>5. mishaps' \in Nat
  BY MishapIs DEF ResolveFails, Inv, Fields
<1>6. outcome' \in [Outcomes -> OutcomeType]
  <2>1. PICK o \in call[c].found : outcome' = [outcome EXCEPT ![o] = Resolved(c, o)]
    BY DEF ResolveFails
  <2>2. o \in Outcomes
    BY <1>1, <2>1 DEF CallFits, CallType
  <2>3. PICK x \in OutcomeType : x = Resolved(c, o)
    BY <1>1, <2>2, ResolvedIs
  <2>4. outcome' = [outcome EXCEPT ![o] = x]
    BY <2>1, <2>3
  <2> QED
    BY <2>2, <2>3, <2>4 DEF Inv, Fields
<1>7. late' \subseteq Outcomes
  BY LateFits DEF ResolveFails
<1>8. Fields' /\ Logs'
  BY <1>5, <1>6, <1>7 DEF ResolveFails, Inv, Fields, Logs, store
<1> QED
  BY <1>2, <1>4, <1>8 DEF Inv

LEMMA RetiresKeeps ==
  ASSUME Inv, NEW c \in Calls, Retires(c)
  PROVE  Inv'
<1>1. call[c].at = "retires" /\ CallsFit(call) /\ Moves(c, "idle")
  BY DEF Retires, Inv
<1>2. CallsFit(call') /\ \A d \in Calls \ {c} : call'[d] = call[d]
  BY <1>1, MovesFits
<1>3. tasks' = tasks
  BY DEF Retires, store
<1>4. QueueFits(tasks', call')
  BY <1>1, <1>2, <1>3, MovesKeeps
<1>5. outcome' \in [Outcomes -> OutcomeType]
  <2>1. outcome' = [o \in Outcomes |->
                      IF RetiredBy(c, o) THEN [outcome[o] EXCEPT !.status = "retired"] ELSE outcome[o]]
    BY DEF Retires
  <2>2. \A o \in Outcomes : outcome[o] \in OutcomeType
    BY DEF Inv, Fields
  <2>3. \A o \in Outcomes : [outcome[o] EXCEPT !.status = "retired"] \in OutcomeType
    BY <2>2 DEF OutcomeType
  <2> QED
    BY <2>1, <2>2, <2>3
<1>6. late' \subseteq Outcomes
  BY LateFits DEF Retires
<1>7. Fields' /\ Logs'
  BY <1>5, <1>6 DEF Retires, Inv, Fields, Logs, store
<1> QED
  BY <1>2, <1>4, <1>7 DEF Inv

LEMMA ReadAsIs ==
  ASSUME NEW v \in Versions, NEW p \in DOMAIN Route[v]
  PROVE  /\ ReadAs(v, p) \in {"text", "image", "nothing"}
         /\ ReadAs(v, p) = "text" => p \in Settled(v) /\ Route[v][p] = "text"
         /\ ReadAs(v, p) = "image" => p \in ImagePages(v) /\ p \notin Settled(v)
         /\ ReadAs(v, p) = "nothing" /\ p \notin Settled(v) => States[v][p] = {}
<1>1. Route[v][p] \in Routes
  BY PagesAre
<1>2. CASE p \in Settled(v)
  <2>1. ReadAs(v, p) = SettledAs(v, p).how /\ Route[v][p] \in {"text", "furniture"}
    BY <1>2 DEF ReadAs, Settled
  <2>2. SettledAs(v, p).how = IF Route[v][p] = "furniture" THEN "nothing" ELSE "text"
    BY DEF SettledAs
  <2> QED
    BY <1>2, <2>1, <2>2
<1>3. CASE p \notin Settled(v)
  <2>1. Route[v][p] \in {"image", "both"} /\ p \in ImagePages(v)
    BY <1>1, <1>3 DEF Settled, Routes, ImagePages
  <2>2. CASE Route[v][p] = "both"
    <3>1. ReadAs(v, p) = "image"
      BY <1>3, <2>2 DEF ReadAs
    <3> QED
      BY <1>3, <2>1, <3>1
  <2>3. CASE Route[v][p] = "image" /\ States[v][p] # {}
    <3>1. ReadAs(v, p) = "image"
      BY <1>3, <2>3 DEF ReadAs
    <3> QED
      BY <1>3, <2>1, <3>1
  <2>4. CASE Route[v][p] = "image" /\ States[v][p] = {}
    <3>1. ReadAs(v, p) = "nothing"
      BY <1>3, <2>4 DEF ReadAs
    <3> QED
      BY <2>4, <3>1
  <2> QED
    BY <2>1, <2>2, <2>3, <2>4
<1> QED
  BY <1>2, <1>3

\* What a page was read as, in the log of a version read in full.
IsRead(r, v) ==
  \E p \in DOMAIN Route[v] :
    r = Unit(v, p, [how |-> ReadAs(v, p), bytes |-> v], ReadAs(v, p) # "nothing")

LEMMA FullLogIs ==
  ASSUME NEW v \in Versions
  PROVE  \E u : /\ Appends(FullLog(v), Enumeration(v), u)
                /\ Units(u) /\ LogFits(u) /\ \A n \in 1..Len(u) : IsRead(u[n], v)
                /\ \A p \in DOMAIN Route[v] : \E n \in 1..Len(u) : u[n].page = p
<1> DEFINE S == DOMAIN Route[v]
           K == Cardinality(S)
           say(p) == Unit(v, p, [how |-> ReadAs(v, p), bytes |-> v], ReadAs(v, p) # "nothing")
           u == [n \in 1..K |-> say(SetToSeq(S)[n])]
<1>1. FullLog(v) = Enumeration(v) \o u
  BY DEF FullLog
<1>2. IsFiniteSet(S) /\ \A p \in S : p \in Pages
  BY PagesAre
<1>3. K \in Nat /\ \A n \in 1..K : SetToSeq(S)[n] \in S
  BY <1>2, SetAsSeq
<1>4. \A p \in S : \E n \in 1..K : SetToSeq(S)[n] = p
  BY <1>2, SetAsSeq
<1>5. DOMAIN u = 1..K /\ \A n \in 1..K : u[n] = say(SetToSeq(S)[n])
  OBVIOUS
<1>6. ASSUME NEW p \in S
      PROVE  /\ say(p) \in Records /\ RecordFits(say(p)) /\ IsRead(say(p), v)
             /\ say(p).kind = "unit" /\ say(p).page = p
  <2>1. PICK r, x : /\ r = say(p) /\ x = [how |-> ReadAs(v, p), bytes |-> v]
    OBVIOUS
  <2>2. PICK m : m = (ReadAs(v, p) # "nothing")
    OBVIOUS
  <2>3. m \in BOOLEAN
    BY <2>2, Zenon
  <2>4. r = Unit(v, p, x, m)
    BY <2>1, <2>2, Zenon
  <2>5. x \in Readings /\ p \in Pages /\ x.how = ReadAs(v, p) /\ x.bytes = v
    <3>1. ReadAs(v, p) \in {"text", "image", "nothing"} /\ p \in Pages
      BY <1>2, ReadAsIs
    <3> QED
      BY <2>1, <3>1 DEF Readings
  <2>6. r \in Records
    BY <2>3, <2>4, <2>5, RecordsAre
  <2>7. r.kind = "unit" /\ r.page = p /\ r.of = v /\ r.reading = x
    BY <2>4 DEF Unit
  <2>8. RecordFits(r)
    BY <2>5, <2>7, ReadAsIs DEF RecordFits
  <2>9. IsRead(r, v)
    BY <2>1, Zenon DEF IsRead
  <2> QED
    BY <2>1, <2>6, <2>7, <2>8, <2>9
<1> HIDE DEF S, say
<1>7. ASSUME NEW n \in 1..K
      PROVE  u[n] \in Records /\ RecordFits(u[n]) /\ IsRead(u[n], v) /\ u[n].kind = "unit"
  <2>1. PICK p \in S : p = SetToSeq(S)[n]
    BY <1>3
  <2>2. u[n] = say(p)
    BY <1>5, <2>1
  <2> QED
    BY <1>6, <2>2
<1>8. \A p \in S : \E n \in 1..K : u[n].page = p
  <2> TAKE p \in S
  <2>1. PICK n \in 1..K : SetToSeq(S)[n] = p
    BY <1>4
  <2>2. u[n] = say(p)
    BY <1>5, <2>1
  <2> QED
    BY <1>6, <2>2
<1> HIDE DEF u, K
<1>9. u \in Seq(Records) /\ Len(u) = K
  <2>1. u \in [1..K -> Records]
    <3>1. u = [n \in 1..K |-> u[n]]
      BY <1>5 DEF u
    <3> QED
      BY <1>7, <3>1
  <2> QED
    BY <1>3, <2>1
<1>10. Units(u) /\ LogFits(u) /\ \A n \in 1..Len(u) : IsRead(u[n], v)
  BY <1>7, <1>9 DEF Units, LogFits
<1>11. \A p \in DOMAIN Route[v] : \E n \in 1..Len(u) : u[n].page = p
  BY <1>8, <1>9 DEF S
<1>12. Appends(FullLog(v), Enumeration(v), u)
  BY <1>1 DEF Appends
<1> QED
  BY <1>10, <1>11, <1>12

LEMMA InitFits ==
  ASSUME Init
  PROVE  Inv
<1>1. First \in Versions
  BY OutcomeRevisionAssumption
<1>2. LogFits(disk)
  <2>1. CASE disk = <<>>
    BY <2>1, FitsNothing
  <2>2. CASE disk # <<>>
    <3>1. disk = FullLog(First)
      BY <2>2 DEF Init
    <3>2. PICK u : Appends(FullLog(First), Enumeration(First), u) /\ LogFits(u)
      BY <1>1, FullLogIs
    <3>3. LogFits(Enumeration(First) \o u)
      BY <1>1, <3>2, FitsListing, FitsJoined
    <3> QED
      BY <3>1, <3>2, <3>3 DEF Appends
  <2> QED
    BY <2>1, <2>2
<1>3. fold = disk /\ tasks = <<>> /\ call = [c \in Calls |-> NoCall]
  BY DEF Init
<1>4. Logs
  BY <1>2, <1>3 DEF Logs
<1>5. CallsFit(call)
  <2>1. CallsFit([c \in Calls |-> NoCall])
    BY NoCallFits DEF CallsFit, CallFits
  <2> QED
    BY <1>3, <2>1
<1>6. QueueFits(tasks, call)
  BY <1>3 DEF QueueFits
<1>7. Fields
  <2>1. outcome \in [Outcomes -> OutcomeType]
    BY <1>1 DEF Init, OutcomeType
  <2>2. verified \in BOOLEAN /\ unenumerable \in BOOLEAN /\ missed \in BOOLEAN
    BY DEF Init
  <2>3. events \in Seq({"modify", "create", "delete"}) /\ file \in Versions \cup {None}
    BY <1>1 DEF Init
  <2> QED
    BY <2>1, <2>2, <2>3 DEF Init, Fields
<1> QED
  BY <1>4, <1>5, <1>6, <1>7 DEF Inv

LEMMA StutterKeeps ==
  ASSUME Inv, UNCHANGED vars
  PROVE  Inv'
BY DEF Inv, Fields, Logs, vars, store

LEMMA StepKeeps ==
  ASSUME Inv, [Next]_vars
  PROVE  Inv'
BY EditsKeeps, ObservesKeeps, CensusKeeps, HashesKeeps, CannotListKeeps, WorksKeeps,
   AppendFailsKeeps, RestartsKeeps, StartsKeeps, ReadsPageKeeps, ReadsInPartKeeps, CallFailsKeeps,
   ExtractsKeeps, ResolvesKeeps, ResolveFailsKeeps, RetiresKeeps, StutterKeeps DEF Next

LEMMA InvHolds == Spec => []Inv
<1>1. Init => Inv
  BY InitFits
<1>2. Inv /\ [Next]_vars => Inv'
  BY StepKeeps
<1> QED
  BY <1>1, <1>2, PTL DEF Spec

LEMMA InvTypes ==
  ASSUME Inv
  PROVE  TypeOK
<1>1. Fields /\ Logs /\ CallsFit(call) /\ QueueFits(tasks, call)
  BY DEF Inv
<1>2. disk \in Seq(Records) /\ fold \in Seq(Records)
  BY <1>1 DEF Logs, LogFits
<1>3. {verified, unenumerable, missed} \subseteq BOOLEAN
  <2>1. verified \in BOOLEAN /\ unenumerable \in BOOLEAN /\ missed \in BOOLEAN
    BY <1>1 DEF Fields
  <2> QED
    BY <2>1, Zenon
<1>4. tasks \in Seq(TaskType) /\ \A n \in DOMAIN tasks : tasks[n].at = "hashed" => n = 1
  BY <1>1 DEF QueueFits
<1>5. call \in [Calls -> CallType]
  BY <1>1 DEF CallsFit
<1>6. {edits, made, mishaps} \subseteq Nat
  BY <1>1 DEF Fields
<1> QED
  BY <1>1, <1>2, <1>3, <1>4, <1>5, <1>6 DEF TypeOK, Fields, TaskType, CallType, OutcomeType

\* Every variable keeps its type, only the task under way has hashed the file, and a delivery's
\* place in its course is one it can be in.
THEOREM TypeCorrect == Spec => []TypeOK
<1>1. Inv => TypeOK
  BY InvTypes
<1> QED
  BY <1>1, InvHolds, PTL

-----------------------------------------------------------------------------
(* A verified source is the file's, or a change of it has been announced. *)

\* An event that withdraws the trust is to come, or a removal is.
Tells(ev) == \E n \in 1..Len(ev) : ev[n] \in {"modify", "delete"}
Removes(q) == \E n \in 1..Len(q) : q[n].do = "remove"

Stale(q, f) == \E n \in 1..Len(q) : n = 1 /\ q[n].at = "hashed" /\ q[n].bytes # f

Fresh ==
  /\ verified /\ ~missed /\ Live(fold) # file => Tells(events) \/ Removes(tasks)
  /\ ~missed /\ Stale(tasks, file) => Tells(events) \/ Removes(tasks)
  /\ verified => Live(fold) # None

LEMMA QueueAsked ==
  ASSUME NEW q, q \in Seq(TaskType), NEW t \in TaskType, t.at = "waiting"
  PROVE  /\ \A f : Stale(Append(q, t), f) => Stale(q, f)
         /\ Removes(q) => Removes(Append(q, t))
         /\ t.do = "remove" => Removes(Append(q, t))
<1>1. PICK new : new = Append(q, t)
  OBVIOUS
<1>2. /\ Len(new) = Len(q) + 1 /\ new[Len(q) + 1] = t /\ Len(q) \in Nat
      /\ \A n \in 1..Len(q) : new[n] = q[n]
  BY <1>1
<1>3. \A f : Stale(new, f) => Stale(q, f)
  BY <1>2 DEF Stale
<1>4. Removes(q) => Removes(new)
  BY <1>2 DEF Removes
<1>5. t.do = "remove" => Removes(new)
  BY <1>2 DEF Removes
<1> QED
  BY <1>1, <1>3, <1>4, <1>5

LEMMA QueueDone ==
  ASSUME NEW q, NEW cl, QueueFits(q, cl), q # <<>>
  PROVE  /\ \A f : ~Stale(Tail(q), f)
         /\ Removes(q) /\ q[1].do # "remove" => Removes(Tail(q))
<1>1. PICK new : new = Tail(q)
  OBVIOUS
<1>2. q \in Seq(TaskType) /\ Len(q) \in Nat \ {0}
  BY DEF QueueFits
<1>3. /\ Len(new) = Len(q) - 1
      /\ \A n \in 1..Len(new) : new[n] = q[n + 1] /\ n + 1 \in 1..Len(q) /\ n + 1 # 1
  BY <1>1, <1>2
<1>4. \A f : ~Stale(new, f)
  BY <1>3 DEF Stale, QueueFits
<1>5. ASSUME Removes(q), q[1].do # "remove"
      PROVE  Removes(new)
  <2>1. PICK n \in 1..Len(q) : q[n].do = "remove"
    BY <1>5 DEF Removes
  <2>2. n - 1 \in 1..Len(new) /\ (n - 1) + 1 = n
    BY <1>2, <1>3, <1>5, <2>1
  <2>3. new[n - 1] = q[n]
    BY <1>3, <2>2
  <2> QED
    BY <2>1, <2>2, <2>3 DEF Removes
<1> QED
  BY <1>1, <1>4, <1>5

LEMMA OldBytesAre ==
  ASSUME Inv
  PROVE  /\ ListsOldBytes <=> Stale(tasks, file)
         /\ Stale(tasks, file) => Hashed
         /\ Hashed => Underway = tasks[1] /\ tasks[1].at = "hashed" /\ tasks[1].bytes \in Versions
                      /\ tasks[1].do # "remove"
         /\ Hashed /\ tasks[1].bytes # file => Stale(tasks, file)
<1>1. tasks # <<>> => /\ Head(tasks) = tasks[1] /\ 1 \in 1..Len(tasks) /\ TaskFits(tasks[1])
  BY QueueHead DEF Inv
<1>2. Stale(tasks, file) => tasks # <<>>
  BY DEF Stale
<1>3. Hashed <=> tasks # <<>> /\ Head(tasks).at = "hashed"
  BY DEF Hashed, Underway
<1>4. Stale(tasks, file) <=> tasks # <<>> /\ tasks[1].at = "hashed" /\ tasks[1].bytes # file
  BY <1>1, <1>2 DEF Stale
<1> QED
  BY <1>1, <1>3, <1>4 DEF ListsOldBytes, TaskFits, Underway

\* A task asked of the store changes nothing a reader is told.
LEMMA AsksFresh ==
  ASSUME Inv, Fresh, UNCHANGED <<file, events, fold, verified, missed>>,
         \/ tasks' = tasks
         \/ \E t : tasks' = Append(tasks, t) /\ TaskFits(t) /\ t.at = "waiting"
  PROVE  Fresh'
<1>1. PICK q : q = tasks
  OBVIOUS
<1>2. q \in Seq(TaskType)
  BY <1>1 DEF Inv, QueueFits
<1>3. /\ Stale(tasks', file) => Stale(q, file)
      /\ Removes(q) => Removes(tasks')
  <2>1. CASE tasks' = tasks
    BY <1>1, <2>1
  <2>2. CASE tasks' # tasks
    <3>1. PICK t : tasks' = Append(q, t) /\ TaskFits(t) /\ t.at = "waiting"
      BY <1>1, <2>2
    <3>2. t \in TaskType
      BY <3>1 DEF TaskFits
    <3>3. /\ Stale(Append(q, t), file) => Stale(q, file)
          /\ Removes(q) => Removes(Append(q, t))
      BY <1>2, <3>1, <3>2, QueueAsked
    <3> QED
      BY <3>1, <3>3
  <2> QED
    BY <2>1, <2>2
<1> QED
  BY <1>1, <1>3 DEF Fresh

\* After a look that verifies, what is live is what was hashed, or what was verified already.
LEMMA LookedLive ==
  ASSUME Inv, tasks # <<>>, NEW look, look = Looked(Underway)
  PROVE  /\ look.verified /\ Hashed => Live(fold \o look.records) = Underway.bytes
         /\ look.verified /\ ~Hashed => verified /\ Live(fold \o look.records) = Live(fold)
         /\ ~Hashed => look.records = <<>>
<1>1. PICK t : t = Underway
  OBVIOUS
<1>2. TaskFits(t) /\ fold \in Seq(Records)
  BY <1>1, QueueHead DEF Inv, Underway, Logs, LogFits
<1>3. Hashed <=> t.at = "hashed"
  BY <1>1 DEF Hashed
<1>4. fold \o <<>> = fold
  BY <1>2
<1>5. CASE t.at = "hashed" /\ Live(fold) = t.bytes
  <2>1. Looked(t) = Look(<<>>, TRUE, unenumerable)
    BY <1>5 DEF Looked
  <2>2. look.records = <<>>
    BY <1>1, <2>1 DEF Look
  <2> QED
    BY <1>1, <1>3, <1>4, <1>5, <2>2
<1>6. CASE t.at = "hashed" /\ Live(fold) # t.bytes
  <2>1. Looked(t) = Look(Retiring \o Enumeration(t.bytes), TRUE, FALSE)
    BY <1>6 DEF Looked
  <2>2. look.records = RetiringOf(fold) \o Enumeration(t.bytes)
    BY <1>1, <2>1 DEF Look, Retiring, RetiringOf
  <2>3. t.bytes \in Versions /\ NoListing(RetiringOf(fold))
    BY <1>2, <1>6, RetiringIs DEF TaskFits
  <2>4. Live(fold \o (RetiringOf(fold) \o Enumeration(t.bytes))) = t.bytes
    BY <1>2, <2>3, LiveListed
  <2> QED
    BY <1>1, <1>3, <1>6, <2>2, <2>4
<1>7. CASE t.at # "hashed" /\ (Barred(t) \/ ~Rehashes(t))
  <2>1. Looked(t) = Look(<<>>, verified, unenumerable)
    BY <1>7, Zenon DEF Looked
  <2>2. look.records = <<>> /\ look.verified = verified
    BY <1>1, <2>1, LookIs
  <2> QED
    BY <1>1, <1>3, <1>4, <1>7, <2>2
<1>8. CASE t.at # "hashed" /\ ~(Barred(t) \/ ~Rehashes(t))
  <2>1. Looked(t) = Look(<<>>, FALSE, TRUE)
    BY <1>8, Zenon DEF Looked
  <2>2. look.records = <<>> /\ look.verified = FALSE
    BY <1>1, <2>1 DEF Look
  <2> QED
    BY <1>1, <1>3, <1>4, <1>8, <2>2
<1> QED
  BY <1>5, <1>6, <1>7, <1>8

\* The queue once the task under way is done with.
LEMMA AnswersTail ==
  ASSUME Inv, tasks # <<>>, NEW log, NEW v, Answers(Underway, log, v)
  PROVE  \/ tasks' = Tail(tasks)
         \/ \E t : tasks' = Append(Tail(tasks), t) /\ t \in TaskType /\ t.at = "waiting"
<1>1. CASE Underway.do = "mark"
  <2>1. PICK t : t = For("settle", Underway.call)
    OBVIOUS
  <2>2. tasks' = Append(Tail(tasks), t)
    BY <1>1, <2>1 DEF Answers
  <2>3. Underway.call \in Calls
    BY <1>1, Awaited DEF Asking
  <2>4. t \in TaskType /\ t.at = "waiting"
    BY <2>1, <2>3, ForFits DEF TaskFits, Asking
  <2> QED
    BY <2>2, <2>4
<1>2. CASE Underway.do # "mark"
  BY <1>2 DEF Answers
<1> QED
  BY <1>1, <1>2

LEMMA TailFresh ==
  ASSUME Inv, tasks # <<>>,
         \/ tasks' = Tail(tasks)
         \/ \E t : tasks' = Append(Tail(tasks), t) /\ t \in TaskType /\ t.at = "waiting"
  PROVE  /\ \A f : ~Stale(tasks', f)
         /\ Removes(tasks) /\ Underway.do # "remove" => Removes(tasks')
<1>1. PICK q : q = Tail(tasks)
  OBVIOUS
<1>2. /\ \A f : ~Stale(q, f)
      /\ Removes(tasks) /\ tasks[1].do # "remove" => Removes(q)
  BY <1>1, QueueDone DEF Inv
<1>3. Underway = tasks[1]
  BY QueueHead DEF Inv, Underway
<1>4. q \in Seq(TaskType)
  BY <1>1, QueueTail DEF Inv, QueueFits
<1>5. CASE tasks' = Tail(tasks)
  BY <1>1, <1>2, <1>3, <1>5
<1>6. CASE tasks' # Tail(tasks)
  <2>1. PICK t : tasks' = Append(q, t) /\ t \in TaskType /\ t.at = "waiting"
    BY <1>1, <1>6
  <2>2. /\ \A f : Stale(Append(q, t), f) => Stale(q, f)
        /\ Removes(q) => Removes(Append(q, t))
    BY <1>4, <2>1, QueueAsked
  <2> QED
    BY <1>2, <1>3, <2>1, <2>2
<1> QED
  BY <1>5, <1>6

\* What the end of a task leaves, when it had looked at the file and written what it had to.
LEMMA DoneFresh ==
  ASSUME Inv, Fresh, tasks # <<>>, UNCHANGED <<file, events>>,
         \/ tasks' = Tail(tasks)
         \/ \E t : tasks' = Append(Tail(tasks), t) /\ t \in TaskType /\ t.at = "waiting",
         NEW look, look = Looked(Underway),
         verified' = (look.verified /\ Underway.do # "remove"),
         missed' = (missed /\ (Hashed => ListsOldBytes)),
         Underway.do # "remove" => Live(fold') = Live(fold \o look.records)
  PROVE  Fresh'
<1>1. /\ \A f : ~Stale(tasks', f)
      /\ Removes(tasks) /\ Underway.do # "remove" => Removes(tasks')
  BY TailFresh
<1>2. ~Stale(tasks', file')
  BY <1>1
<1>3. ASSUME verified'
      PROVE  /\ Live(fold') # None
             /\ ~missed' /\ Live(fold') # file => Tells(events) \/ Removes(tasks')
  <2>1. look.verified /\ Underway.do # "remove" /\ Live(fold') = Live(fold \o look.records)
    BY <1>3
  <2>2. CASE Hashed
    <3>1. Live(fold') = Underway.bytes /\ Underway.bytes \in Versions /\ Underway = tasks[1]
      BY <2>1, <2>2, LookedLive, OldBytesAre
    <3>2. Live(fold') # file => ListsOldBytes /\ Stale(tasks, file)
      BY <2>2, <3>1, OldBytesAre
    <3>3. ~missed' /\ Live(fold') # file => Tells(events) \/ Removes(tasks)
      BY <3>2 DEF Fresh
    <3> QED
      BY <1>1, <2>1, <3>1, <3>3, PagesAre
  <2>3. CASE ~Hashed
    <3>1. verified /\ Live(fold') = Live(fold)
      BY <2>1, <2>3, LookedLive
    <3>2. missed' <=> missed
      BY <2>3
    <3> QED
      BY <1>1, <2>1, <3>1, <3>2 DEF Fresh
  <2> QED
    BY <2>2, <2>3
<1>4. Fresh'
  <2>1. verified' => Live(fold') # None
    BY <1>3
  <2>2. verified' /\ ~missed' /\ Live(fold') # file' => Tells(events') \/ Removes(tasks')
    BY <1>3
  <2> QED
    BY <1>2, <2>1, <2>2 DEF Fresh
<1> QED
  BY <1>4

LEMMA WorksFresh ==
  ASSUME Inv, Fresh, Works
  PROVE  Fresh'
<1>1. PICK look, work : look = Looked(Underway) /\ work = Work(Underway, look)
  OBVIOUS
<1>2. tasks # <<>> /\ Ends(look) /\ LookFits(look, fold)
  BY <1>1, LookedFits DEF Works
<1>3. PICK log, v : log = fold \o look.records \o work /\ v = Current(Underway, look)
  OBVIOUS
<1>4. Answers(Underway, log, v)
  BY <1>1, <1>2, <1>3 DEF Ends
<1>5. \/ tasks' = Tail(tasks)
      \/ \E t : tasks' = Append(Tail(tasks), t) /\ t \in TaskType /\ t.at = "waiting"
  BY <1>2, <1>4, AnswersTail
<1>6. Underway.do # "remove" => Live(fold') = Live(fold \o look.records)
  <2>1. SUFFICES ASSUME Underway.do # "remove"
                 PROVE  Live(fold') = Live(fold \o look.records)
    OBVIOUS
  <2>2. Units(work)
    BY <1>1, <1>2, <2>1, WorkFitsIn
  <2>3. PICK seen : seen = fold \o look.records
    OBVIOUS
  <2>4. seen \in Seq(Records)
    BY <1>2, <2>3, LookedLog DEF Inv, Logs, LogFits
  <2>5. Live(seen \o work) = Live(seen)
    BY <2>2, <2>4, LiveKept
  <2>6. fold' = log
    BY <1>1, <1>2, <1>3 DEF Ends
  <2> QED
    BY <1>3, <2>3, <2>5, <2>6
<1>7. UNCHANGED <<file, events>>
  BY DEF Works
<1>8. verified' = (look.verified /\ Underway.do # "remove")
  BY <1>2 DEF Ends
<1>9. missed' = (missed /\ (Hashed => ListsOldBytes))
  BY <1>2 DEF Ends
<1> QED
  BY <1>1, <1>2, <1>5, <1>6, <1>7, <1>8, <1>9, DoneFresh

LEMMA CannotListFresh ==
  ASSUME Inv, Fresh, CannotList
  PROVE  Fresh'
<1>1. PICK look, work : look = Unlisted /\ work = Work(Underway, look)
  OBVIOUS
<1>2. tasks # <<>> /\ Ends(look)
  BY <1>1 DEF CannotList, Hashed
<1>3. PICK log, v : log = fold \o look.records \o work /\ v = Current(Underway, look)
  OBVIOUS
<1>4. Answers(Underway, log, v)
  BY <1>1, <1>2, <1>3 DEF Ends
<1>5. \/ tasks' = Tail(tasks)
      \/ \E t : tasks' = Append(Tail(tasks), t) /\ t \in TaskType /\ t.at = "waiting"
  BY <1>2, <1>4, AnswersTail
<1>6. \A f : ~Stale(tasks', f)
  BY <1>2, <1>5, TailFresh
<1>7. look.verified = FALSE
  BY <1>1 DEF Unlisted, Look
<1>8. verified' = (look.verified /\ Underway.do # "remove")
  BY <1>2 DEF Ends
<1>9. ~verified'
  BY <1>7, <1>8
<1> QED
  BY <1>6, <1>9 DEF Fresh

LEMMA AppendFailsFresh ==
  ASSUME Inv, Fresh, AppendFails
  PROVE  Fresh'
<1>1. PICK look : look = Looked(Underway)
  OBVIOUS
<1>2. tasks # <<>> /\ tasks' = Tail(tasks) /\ UNCHANGED <<file, events>>
  BY DEF AppendFails
<1>3. CASE ListingFails
  <2>1. UNCHANGED <<fold, verified, missed>> /\ look.records # <<>>
    BY <1>1, <1>3 DEF ListingFails
  <2>2. Underway.do # "remove"
    BY <1>1, <1>2, <2>1, LookedLive, OldBytesAre
  <2>3. /\ \A f : ~Stale(tasks', f)
        /\ Removes(tasks) /\ Underway.do # "remove" => Removes(tasks')
    BY <1>2, TailFresh
  <2> QED
    BY <1>2, <2>1, <2>2, <2>3 DEF Fresh
<1>4. CASE WorkFails
  <2>1. fold' = fold \o look.records
    BY <1>1, <1>4 DEF WorkFails
  <2>2. verified' = (look.verified /\ Underway.do # "remove")
    BY <1>1, <1>4 DEF WorkFails
  <2>3. missed' = (missed /\ (Hashed => ListsOldBytes))
    BY <1>1, <1>4 DEF WorkFails
  <2>4. Live(fold') = Live(fold \o look.records)
    BY <2>1
  <2> QED
    BY <1>1, <1>2, <2>2, <2>3, <2>4, DoneFresh
<1> QED
  BY <1>3, <1>4 DEF AppendFails

LEMMA EditsFresh ==
  ASSUME Inv, Fresh, Edits
  PROVE  Fresh'
<1>1. PICK v, e : /\ v # file /\ file' = v
                  /\ events' = Append(events, e)
                  /\ e = CASE v = None -> "delete" [] file = None -> "create" [] OTHER -> "modify"
  BY DEF Edits
<1>2. PICK ev, new : ev = events /\ new = Append(ev, e)
  OBVIOUS
<1>3. ev \in Seq({"modify", "create", "delete"}) /\ e \in {"modify", "create", "delete"}
  BY <1>1, <1>2 DEF Inv, Fields
<1>4. /\ Len(new) = Len(ev) + 1 /\ new[Len(ev) + 1] = e /\ Len(ev) \in Nat
      /\ \A n \in 1..Len(ev) : new[n] = ev[n]
  BY <1>2, <1>3
<1>5. Tells(ev) => Tells(new)
  BY <1>4 DEF Tells
<1>6. file # None => Tells(new)
  <2>1. file # None => e \in {"modify", "delete"}
    BY <1>1
  <2> QED
    BY <1>4, <2>1 DEF Tells
<1>7. UNCHANGED <<fold, verified, missed, tasks>>
  BY DEF Edits, store
<1>8. file = None /\ Stale(tasks, v) => Stale(tasks, file)
  <2>1. SUFFICES ASSUME file = None, Stale(tasks, v)
                 PROVE  Stale(tasks, file)
    OBVIOUS
  <2>2. tasks # <<>> /\ tasks[1].at = "hashed" /\ 1 \in 1..Len(tasks)
    BY <2>1 DEF Stale
  <2>3. TaskFits(tasks[1])
    BY <2>2, QueueHead DEF Inv
  <2>4. tasks[1].bytes # file
    BY <2>1, <2>2, <2>3, PagesAre DEF TaskFits
  <2> QED
    BY <2>2, <2>4 DEF Stale
<1>9. file = None /\ verified => Live(fold) # file
  BY DEF Fresh
<1>10. events' = new /\ file' = v
  BY <1>1, <1>2
<1>11. CASE file # None
  BY <1>6, <1>7, <1>10, <1>11 DEF Fresh
<1>12. CASE file = None
  <2>1. Tells(events) => Tells(events')
    BY <1>2, <1>5, <1>10
  <2> QED
    BY <1>7, <1>8, <1>9, <1>10, <1>12, <2>1 DEF Fresh
<1> QED
  BY <1>11, <1>12

LEMMA ObservesFresh ==
  ASSUME Inv, Fresh, Observes
  PROVE  Fresh'
<1>1. PICK ev, new : ev = events /\ new = Tail(ev)
  OBVIOUS
<1>2. ev \in Seq({"modify", "create", "delete"}) /\ ev # <<>> /\ events' = new
  BY <1>1 DEF Observes, Inv, Fields
<1>3. /\ Len(new) = Len(ev) - 1 /\ Len(ev) \in Nat \ {0} /\ Head(ev) = ev[1]
      /\ ev[1] \in {"modify", "create", "delete"}
      /\ \A n \in 1..Len(new) : new[n] = ev[n + 1]
  BY <1>1, <1>2
<1>4. ASSUME ev[1] = "create", Tells(ev)
      PROVE  Tells(new)
  <2>1. PICK n \in 1..Len(ev) : ev[n] \in {"modify", "delete"}
    BY <1>4 DEF Tells
  <2>2. n - 1 \in 1..Len(new) /\ (n - 1) + 1 = n
    BY <1>3, <1>4, <2>1
  <2>3. new[n - 1] = ev[n]
    BY <1>3, <2>2
  <2> QED
    BY <2>1, <2>2, <2>3 DEF Tells
<1>5. UNCHANGED <<file, fold>>
  BY DEF Observes
<1>6. CASE ev[1] = "modify"
  <2>1. ~verified' /\ tasks' = tasks
    BY <1>1, <1>3, <1>6 DEF Observes, Distrusts
  <2>2. missed' = (missed \/ ListsOldBytes)
    BY <1>1, <1>3, <1>6 DEF Observes
  <2>3. ~missed' => ~Stale(tasks, file)
    BY <2>2, OldBytesAre
  <2> QED
    BY <1>5, <2>1, <2>3 DEF Fresh
<1>7. CASE ev[1] = "create"
  <2>1. UNCHANGED <<verified, tasks, missed>>
    BY <1>1, <1>3, <1>7 DEF Observes
  <2> QED
    BY <1>1, <1>2, <1>4, <1>5, <1>7, <2>1 DEF Fresh
<1>8. CASE ev[1] = "delete"
  <2>1. UNCHANGED <<verified, missed>> /\ tasks' = Append(tasks, Task("remove"))
    BY <1>1, <1>3, <1>8 DEF Observes, Asks
  <2>2. PICK t : t = Task("remove")
    OBVIOUS
  <2>3. t \in TaskType /\ t.at = "waiting" /\ t.do = "remove"
    BY <2>2, PlainFits, TaskIs DEF TaskFits
  <2>4. tasks \in Seq(TaskType)
    BY DEF Inv, QueueFits
  <2>5. Removes(Append(tasks, t))
    BY <2>3, <2>4, QueueAsked
  <2>6. Removes(tasks')
    BY <2>1, <2>2, <2>5
  <2> QED
    BY <1>5, <2>1, <2>6 DEF Fresh
<1> QED
  BY <1>3, <1>6, <1>7, <1>8

LEMMA HashesFresh ==
  ASSUME Inv, Fresh, Hashes
  PROVE  Fresh'
<1>1. tasks # <<>> /\ tasks' = [tasks EXCEPT ![1].at = "hashed", ![1].bytes = file]
      /\ UNCHANGED <<file, events, fold, verified, missed>>
  BY DEF Hashes
<1>2. PICK q, new : q = tasks /\ new = tasks'
  OBVIOUS
<1>3. q \in Seq(TaskType) /\ 1 \in 1..Len(q)
  BY <1>1, <1>2, QueueHead DEF Inv, QueueFits
<1>4. new = [q EXCEPT ![1].at = "hashed", ![1].bytes = file]
  BY <1>1, <1>2
<1>5. Len(new) = Len(q) /\ \A n \in 1..Len(q) : new[n].do = q[n].do
  BY <1>3, <1>4 DEF TaskType
<1>6. new[1].bytes = file
  BY <1>3, <1>4 DEF TaskType
<1>7. Removes(q) => Removes(new)
  BY <1>5 DEF Removes
<1>8. ~Stale(new, file)
  BY <1>6 DEF Stale
<1>9. (Removes(tasks) => Removes(tasks')) /\ ~Stale(tasks', file)
  BY <1>2, <1>7, <1>8
<1> QED
  BY <1>1, <1>9 DEF Fresh

LEMMA RestartsFresh ==
  ASSUME Inv, Restarts
  PROVE  Fresh'
BY DEF Restarts, Fresh, Stale

LEMMA DeliveryFresh ==
  ASSUME Inv, Fresh, NEW c \in Calls,
         \/ Starts(c) \/ ReadsPage(c) \/ ReadsInPart(c) \/ CallFails(c) \/ Extracts(c)
         \/ Resolves(c) \/ ResolveFails(c) \/ Retires(c)
  PROVE  Fresh'
<1>1. UNCHANGED <<file, events, fold, verified, missed>>
  BY DEF Starts, ReadsPage, ReadsInPart, CallFails, Extracts, Resolves, ResolveFails, Retires, store
<1>2. CASE Starts(c) \/ CallFails(c) \/ ResolveFails(c) \/ Retires(c)
  <2>1. tasks' = tasks
    BY <1>2 DEF Starts, CallFails, ResolveFails, Retires, store
  <2> QED
    BY <1>1, <2>1, AsksFresh
<1>3. CASE ReadsPage(c) \/ ReadsInPart(c)
  <2>1. PICK how \in {"image", "partial", "nothing"} :
          /\ tasks' = Append(tasks, Reading(c, how)) /\ call[c].at = "reads"
          /\ how = "nothing" => call[c].found = {}
    BY <1>3 DEF ReadsPage, ReadsInPart, Asks
  <2>2. PICK t : t = Reading(c, how)
    OBVIOUS
  <2>3. TaskFits(t) /\ t.at = "waiting"
    BY <2>1, <2>2, ReadingTask DEF Inv
  <2> QED
    BY <1>1, <2>1, <2>2, <2>3, AsksFresh
<1>4. CASE Extracts(c) \/ Resolves(c)
  <2>1. PICK do \in Asking : tasks' = Append(tasks, For(do, c))
    BY <1>4 DEF Extracts, Resolves, Asks, Asking
  <2>2. PICK t : t = For(do, c)
    OBVIOUS
  <2>3. TaskFits(t) /\ t.at = "waiting"
    BY <2>2, ForFits
  <2> QED
    BY <1>1, <2>1, <2>2, <2>3, AsksFresh
<1> QED
  BY <1>2, <1>3, <1>4

LEMMA CensusFresh ==
  ASSUME Inv, Fresh, Census
  PROVE  Fresh'
<1>1. UNCHANGED <<file, events, fold, verified, missed>> /\ tasks' = Append(tasks, Task("list"))
  BY DEF Census, Asks
<1>2. TaskFits(Task("list")) /\ Task("list").at = "waiting"
  BY PlainFits
<1> QED
  BY <1>1, <1>2, AsksFresh

LEMMA StepFresh ==
  ASSUME Inv, Fresh, [Next]_vars
  PROVE  Fresh'
<1>1. CASE UNCHANGED vars
  BY <1>1 DEF Fresh, vars, store
<1>2. CASE Next
  BY <1>2, EditsFresh, ObservesFresh, CensusFresh, HashesFresh, CannotListFresh, WorksFresh,
     AppendFailsFresh, RestartsFresh, DeliveryFresh DEF Next
<1> QED
  BY <1>1, <1>2

LEMMA FreshTells ==
  ASSUME Inv, Fresh
  PROVE  TrustIsFresh
<1>1. SUFFICES ASSUME verified, events = <<>>, ~missed, \A n \in DOMAIN tasks : tasks[n].do # "remove"
               PROVE  Live(fold) = file
  BY DEF TrustIsFresh
<1>2. ~Tells(events)
  BY <1>1 DEF Tells
<1>3. ~Removes(tasks)
  <2>1. tasks \in Seq(TaskType)
    BY DEF Inv, QueueFits
  <2> QED
    BY <1>1, <2>1 DEF Removes
<1> QED
  BY <1>1, <1>2, <1>3 DEF Fresh

\* What a reader of a verified source is told is the manifest of the bytes the file holds, once
\* every event of its changes came and no removal waits, whatever was edited, hashed, listed,
\* failed or restarted in between (manifestsFor, observe).
THEOREM TrustFresh == Spec => []TrustIsFresh
<1>1. Init => Fresh
  BY DEF Init, Fresh, Stale
<1>2. Inv /\ Fresh /\ [Next]_vars => Fresh'
  BY StepFresh
<1>3. Inv /\ Fresh => TrustIsFresh
  BY FreshTells
<1> QED
  BY <1>1, <1>2, <1>3, InvHolds, PTL DEF Spec

-----------------------------------------------------------------------------
(* A version read in full stays read. *)

Extends(new, log) ==
  /\ new \in Seq(Records) /\ Len(log) <= Len(new)
  /\ \A i \in 1..Len(log) : new[i] = log[i]

LEMMA ExtendsJoined ==
  ASSUME NEW log \in Seq(Records), NEW r \in Seq(Records)
  PROVE  Extends(log \o r, log)
<1>1. PICK new : Appends(new, log, r)
  BY DEF Appends
<1>2. Extends(new, log)
  BY <1>1, AppendedIs DEF Appended, Extends
<1> QED
  BY <1>1, <1>2 DEF Appends

LEMMA ExtendsTwice ==
  ASSUME NEW log \in Seq(Records), NEW r \in Seq(Records), NEW s \in Seq(Records)
  PROVE  Extends(log \o r \o s, log)
<1>1. PICK a, b : Appends(a, log, r) /\ Appends(b, a, s)
  BY DEF Appends
<1>2. Appended(a, log, r)
  BY <1>1, AppendedIs
<1>3. a \in Seq(Records)
  BY <1>2 DEF Appended
<1>4. Appended(b, a, s)
  BY <1>1, <1>3, AppendedIs
<1>5. Extends(b, log)
  BY <1>2, <1>4 DEF Appended, Extends
<1> QED
  BY <1>1, <1>5 DEF Appends

\* The latest record of a page up to a moment does not change as the log goes on.
LEMMA LatestStays ==
  ASSUME NEW log \in Seq(Records), NEW new, Extends(new, log), NEW v, NEW p,
         NEW m \in Nat, m <= Len(log)
  PROVE  Latest(new, v, p, m) = Latest(log, v, p, m)
<1>1. PICK a, b : a = Latest(new, v, p, m) /\ b = Latest(log, v, p, m)
  OBVIOUS
<1>2. /\ new \in Seq(Records) /\ Len(log) \in Nat /\ Len(new) \in Nat /\ Len(log) <= Len(new)
      /\ \A i \in 1..Len(log) : new[i] = log[i] /\ i \in 1..Len(new)
  BY DEF Extends
<1>3. \A k \in Nat : k <= m => (IsOf(k, new, v, p) <=> IsOf(k, log, v, p))
  BY <1>2 DEF IsOf
<1>4. /\ a \in Nat /\ (a = 0 \/ (IsOf(a, new, v, p) /\ a <= m))
      /\ \A k \in 1..Len(new) : IsOf(k, new, v, p) /\ k <= m => k <= a
  BY <1>1, <1>2, LatestIs
<1>5. /\ b \in Nat /\ (b = 0 \/ (IsOf(b, log, v, p) /\ b <= m))
      /\ \A k \in 1..Len(log) : IsOf(k, log, v, p) /\ k <= m => k <= b
  BY <1>1, LatestIs
<1>6. a <= b
  BY <1>3, <1>4, <1>5 DEF IsOf
<1>7. b <= a
  BY <1>2, <1>3, <1>4, <1>5 DEF IsOf
<1> QED
  BY <1>1, <1>4, <1>5, <1>6, <1>7

\* The record that stands for a page whose latest is newer than the listing.
LEMMA StandsIs ==
  ASSUME NEW log \in Seq(Records), NEW v, NEW p, NEW m \in Nat, NEW T \in Nat,
         T = Threshold(log, v), NEW n, n = StandsAt(log, v, p, m), NEW k, k = Latest(log, v, p, m)
  PROVE  /\ n = k \/ n = 0
         /\ k > T => n = k
         /\ n > 0 /\ Latest(log, v, p, Len(log)) > T => k > T
<1>1. k \in Nat
  BY LatestIs
<1>2. n = IF k <= T /\ k # Latest(log, v, p, Len(log)) THEN 0 ELSE k
  BY DEF StandsAt
<1>3. PICK l : l = Latest(log, v, p, Len(log))
  OBVIOUS
<1>4. l \in Nat
  <2>1. PICK e \in Nat : e = Len(log)
    OBVIOUS
  <2> QED
    BY <1>3, <2>1, LatestIs
<1> QED
  BY <1>1, <1>2, <1>3, <1>4

\* What holds the reading of a version, whatever its log goes on with.
SameMoment(new, log, v) ==
  /\ Threshold(log, v) = Threshold(new, v)
  /\ \A p \in Named(log, v) : Latest(log, v, p, Len(log)) > Threshold(log, v)
  /\ Named(new, v) = Named(log, v)

LEMMA FullAtStays ==
  ASSUME NEW log \in Seq(Records), NEW new, Extends(new, log), NEW v \in Versions,
         SameMoment(new, log, v), NEW m \in Nat, m <= Len(log), FullAt(log, v, m)
  PROVE  FullAt(new, v, m)
<1>1. PICK T : T = Threshold(log, v)
  OBVIOUS
<1>2. T \in Nat /\ T = Threshold(new, v) /\ new \in Seq(Records)
  <2>1. Threshold(log, v) \in 0..Len(log) /\ Len(log) \in Nat
    BY ThresholdIs
  <2> QED
    BY <1>1, <2>1 DEF SameMoment, Extends
<1>3. ASSUME NEW p \in Named(log, v)
      PROVE  /\ NeedsNothing(new, v, p, m)
             /\ InFull(log[StandsAt(log, v, p, m)].reading)
                  => InFull(new[StandsAt(new, v, p, m)].reading)
  <2>1. PICK n, j : n = StandsAt(log, v, p, m) /\ j = StandsAt(new, v, p, m)
    OBVIOUS
  <2>2. PICK k : k = Latest(log, v, p, m)
    OBVIOUS
  <2>3. k = Latest(new, v, p, m)
    BY <2>2, LatestStays
  <2>4. /\ n > 0
        /\ \/ log[n].reading.how = "nothing"
           \/ InFull(log[n].reading) /\ Counts(log, v, n)
    BY <2>1 DEF FullAt, NeedsNothing
  <2>5. Latest(log, v, p, Len(log)) > T
    BY <1>1 DEF SameMoment
  <2>6. (n = k \/ n = 0) /\ k > T
    BY <1>1, <1>2, <2>1, <2>2, <2>4, <2>5, StandsIs
  <2>7. j = k
    BY <1>2, <2>1, <2>3, <2>6, StandsIs
  <2>8. n = k
    BY <2>4, <2>6
  <2>9. k \in Nat /\ (k = 0 \/ IsOf(k, log, v, p))
    BY <2>2, LatestIs
  <2>10. new[k] = log[k]
    BY <1>2, <2>6, <2>9 DEF IsOf, Extends
  <2>11. Counts(log, v, k) => Counts(new, v, k)
    BY <1>1, <1>2, <2>10 DEF Counts
  <2>12. NeedsNothing(new, v, p, m)
    BY <2>1, <2>4, <2>7, <2>8, <2>10, <2>11 DEF NeedsNothing
  <2> QED
    BY <2>1, <2>7, <2>8, <2>10, <2>12
<1>4. Named(new, v) = Named(log, v)
  BY DEF SameMoment
<1>5. PICK p \in Named(log, v) : InFull(log[StandsAt(log, v, p, m)].reading)
  BY DEF FullAt
<1>6. InFull(new[StandsAt(new, v, p, m)].reading)
  BY <1>3, <1>5
<1> QED
  BY <1>3, <1>4, <1>5, <1>6 DEF FullAt

LEMMA ReadInFullStays ==
  ASSUME NEW log \in Seq(Records), NEW new, Extends(new, log), NEW v \in Versions,
         SameMoment(new, log, v), ReadInFull(log, v)
  PROVE  ReadInFull(new, v)
<1>1. PICK m \in Threshold(log, v)..Len(log) : FullAt(log, v, m)
  BY DEF ReadInFull
<1>2. Threshold(log, v) \in 0..Len(log) /\ Len(log) \in Nat
  BY ThresholdIs
<1>3. m \in Nat /\ m <= Len(log) /\ m \in Threshold(new, v)..Len(new)
  BY <1>1, <1>2 DEF SameMoment, Extends
<1>4. FullAt(new, v, m)
  BY <1>1, <1>3, FullAtStays
<1> QED
  BY <1>3, <1>4 DEF ReadInFull

\* The log the store holds only goes on, but for a restart.
LEMMA FoldGoesOn ==
  ASSUME Inv, Next, fold' # fold, fold' = disk' => fold = disk
  PROVE  Extends(fold', fold)
<1>1. CASE Works \/ CannotList
  <2>1. PICK look : /\ tasks # <<>> /\ LookFits(look, fold)
                    /\ fold' = fold \o look.records \o Work(Underway, look)
    BY <1>1, LookedFits DEF Works, CannotList, Hashed, Ends
  <2>2. PICK work : work = Work(Underway, look)
    OBVIOUS
  <2>3. work \in Seq(Records) /\ look.records \in Seq(Records) /\ fold \in Seq(Records)
    BY <2>1, <2>2, WorkFitsIn, LookedLog DEF LogFits, Inv, Logs
  <2>4. Extends(fold \o look.records \o work, fold)
    BY <2>3, ExtendsTwice
  <2> QED
    BY <2>1, <2>2, <2>4
<1>2. CASE AppendFails
  <2>1. PICK look : look = Looked(Underway)
    OBVIOUS
  <2>2. tasks # <<>> /\ fold' = fold \o look.records
    BY <1>2, <2>1 DEF AppendFails, ListingFails, WorkFails
  <2>3. look.records \in Seq(Records) /\ fold \in Seq(Records)
    BY <2>1, <2>2, LookedFits, LookedLog DEF LogFits, Inv, Logs
  <2>4. Extends(fold \o look.records, fold)
    BY <2>3, ExtendsJoined
  <2> QED
    BY <2>2, <2>4
<1>3. CASE Restarts
  <2>1. fold' = disk' /\ fold = disk
    BY <1>3 DEF Restarts
  <2>2. PICK look : look = Looked(Underway)
    OBVIOUS
  <2>3. Hashed /\ fold' = fold \o look.records
    BY <1>3, <2>1, <2>2 DEF Restarts
  <2>4. look.records \in Seq(Records) /\ fold \in Seq(Records)
    BY <2>2, <2>3, LookedFits, LookedLog DEF LogFits, Inv, Logs, Hashed
  <2>5. Extends(fold \o look.records, fold)
    BY <2>4, ExtendsJoined
  <2> QED
    BY <2>3, <2>5
<1>4. CASE Edits \/ Observes \/ Census \/ Hashes
  BY <1>4 DEF Edits, Observes, Census, Hashes, store
<1>5. CASE \E c \in Calls : \/ Starts(c) \/ ReadsPage(c) \/ ReadsInPart(c) \/ CallFails(c)
                            \/ Extracts(c) \/ Resolves(c) \/ ResolveFails(c) \/ Retires(c)
  BY <1>5 DEF Starts, ReadsPage, ReadsInPart, CallFails, Extracts, Resolves, ResolveFails, Retires, store
<1> QED
  BY <1>1, <1>2, <1>3, <1>4, <1>5 DEF Next

LEMMA StepStays ==
  ASSUME Inv, [Next]_vars, fold' # fold, NEW v \in Versions,
         /\ Threshold(fold, v) = Threshold(fold', v)
         /\ \A p \in Named(fold, v) : Latest(fold, v, p, Len(fold)) > Threshold(fold, v)
         /\ Named(fold', v) = Named(fold, v)
         /\ fold' = disk' => fold = disk,
         ReadInFull(fold, v)
  PROVE  ReadInFull(fold', v)
<1>1. Next
  BY DEF vars, store
<1>2. PICK log, new : log = fold /\ new = fold'
  OBVIOUS
<1>3. Extends(new, log) /\ log \in Seq(Records)
  BY <1>1, <1>2, FoldGoesOn DEF Inv, Logs, LogFits
<1>4. SameMoment(new, log, v) /\ ReadInFull(log, v)
  BY <1>2 DEF SameMoment
<1>5. ReadInFull(new, v)
  BY <1>3, <1>4, ReadInFullStays
<1> QED
  BY <1>2, <1>5

\* No record reopens a version read in full while its listing stands, each of its pages has a
\* record since, and no page is named anew (outcomeRevisionReadInFull: "once true it stays true").
THEOREM FullStays == Spec => StaysFull
<1>1. Inv /\ [Next]_vars =>
        [\A v \in Versions :
           /\ fold' # fold /\ Live(fold) = v /\ Live(fold') = v
           /\ Threshold(fold, v) = Threshold(fold', v)
           /\ \A p \in Named(fold, v) : Latest(fold, v, p, Len(fold)) > Threshold(fold, v)
           /\ Named(fold', v) = Named(fold, v)
           /\ fold' = disk' => fold = disk
           => (ReadInFull(fold, v) => ReadInFull(fold', v))]_fold
  BY StepStays
<1> QED
  BY <1>1, InvHolds, PTL DEF Spec, StaysFull

-----------------------------------------------------------------------------
(* What a version read in full states is kept. *)

\* The outcomes active under a version, and those the deliveries that came late wrote last.
Holds ==
  [v \in Versions |-> {o \in Outcomes : \/ o \in late
                                        \/ outcome[o] = [status |-> "active", stamp |-> v]}]

\* The delivery a reading stands for.
Source(r) == IF r.reading.how = "text" THEN Text ELSE r.page

UnitOf(log, v, n) == log[n].kind = "unit" /\ log[n].of = v

\* `NoStray`, of any log.
NoStrayIn(log, v) ==
  \A n \in 1..Len(log) : UnitOf(log, v, n) =>
    /\ log[n].reading.bytes = v
    /\ log[n].page \in DOMAIN Route[v]
    /\ log[n].page \in Settled(v) => log[n].reading = SettledAs(v, log[n].page)

\* The marks of the version a log listed last can be believed.
Trusted(log, v, b) == WellListed(log) /\ IsLast(log, v) /\ v \notin b /\ NoStrayIn(log, v)

MarkedAt(log, v, n) == UnitOf(log, v, n) /\ Counts(log, v, n)

\* What a marked page was extracted for is held.
Vouches(r, k) == States[r.of][Source(r)] \subseteq k[r.of]

MarksHold(log, b, k) ==
  \A v \in Versions : Trusted(log, v, b) =>
    \A n \in 1..Len(log) : MarkedAt(log, v, n) => Vouches(log[n], k)

\* The file may hold records the store does not know of; a version it has marks of, listed last,
\* is one the store has live, or had.
Leads(d, f) ==
  \A v \in Versions : \A n \in 1..Len(d) : IsLast(d, v) /\ MarkedAt(d, v, n) => Live(f) \in {None, v}

Inside(f, d) == \A n \in 1..Len(f) : \E m \in 1..Len(d) : d[m] = f[n]

Behind(f, d) == Inside(f, d) /\ (WellListed(d) => WellListed(f) /\ Leads(d, f))

\* A delivery that was told it is current: while its version was not listed again, what it found
\* is held, or will be when it resolves.
ToldCurrent(w) == w.at = "marks" \/ (w.at = "resolves" /\ w.standing # "unplaced")
Claims(w) == w.at = "marks" \/ (w.at = "resolves" /\ w.standing = "reread")
Unmoved(w, f, b) == Trusted(f, w.of, b) /\ Threshold(f, w.of) = w.listed /\ w.brings \in Vouched(w.of)
Owes(w, f, b, k) ==
  /\ ToldCurrent(w) => w.listed <= Len(f)
  /\ Claims(w) /\ Unmoved(w, f, b) => w.found \subseteq k[w.of]

AllOwe(cl, f, b, k) == \A c \in Calls : Owes(cl[c], f, b, k)

Kept(f, d, cl, b, k) ==
  Behind(f, d) /\ MarksHold(f, b, k) /\ MarksHold(d, b, k) /\ AllOwe(cl, f, b, k)

-----------------------------------------------------------------------------
(* A log that goes on. *)

\* The version listed last in new was so in the log, with the same marks, or its marks start anew.
GoesOn(new, log) ==
  /\ Extends(new, log) /\ Len(log) \in Nat /\ Len(new) \in Nat
  /\ \A v \in Versions : IsLast(new, v) =>
       \/ IsLast(log, v) /\ Threshold(new, v) = Threshold(log, v)
       \/ Threshold(new, v) > Len(log)

LEMMA WellListedOnce ==
  ASSUME NEW log \in Seq(Records), NEW new, Extends(new, log), WellListed(new)
  PROVE  WellListed(log)
<1>1. /\ Len(log) \in Nat /\ Len(new) \in Nat /\ Len(log) <= Len(new)
      /\ \A i \in 1..Len(log) : new[i] = log[i] /\ i \in 1..Len(new)
  BY DEF Extends
<1>2. SUFFICES ASSUME NEW n \in 1..Len(log), NEW m \in 1..Len(log), n < m,
                      log[n].kind = "enumerated", log[m].kind = "enumerated"
               PROVE  \E k \in (n + 1)..(m - 1) : log[k] = Retirement(log[n].of)
  BY DEF WellListed
<1>3. new[n].kind = "enumerated" /\ new[m].kind = "enumerated" /\ new[n] = log[n]
      /\ n \in 1..Len(new) /\ m \in 1..Len(new)
  BY <1>1, <1>2
<1>4. PICK k \in (n + 1)..(m - 1) : new[k] = Retirement(new[n].of)
  BY <1>2, <1>3 DEF WellListed
<1>5. k \in 1..Len(log)
  BY <1>1, <1>4
<1> QED
  BY <1>1, <1>3, <1>4, <1>5

LEMMA NoStrayOnce ==
  ASSUME NEW log \in Seq(Records), NEW new, Extends(new, log), NEW v, NoStrayIn(new, v)
  PROVE  NoStrayIn(log, v)
<1>1. \A i \in 1..Len(log) : new[i] = log[i] /\ i \in 1..Len(new)
  BY DEF Extends
<1> QED
  BY <1>1 DEF NoStrayIn, UnitOf

LEMMA TrustedOnce ==
  ASSUME NEW log \in Seq(Records), NEW new, GoesOn(new, log), NEW v \in Versions, NEW b, NEW b2,
         b \subseteq b2, Trusted(new, v, b2), Threshold(new, v) <= Len(log)
  PROVE  Trusted(log, v, b) /\ Threshold(new, v) = Threshold(log, v)
<1>1. IsLast(log, v) /\ Threshold(new, v) = Threshold(log, v)
  <2>1. PICK T : T = Threshold(new, v)
    OBVIOUS
  <2>2. new \in Seq(Records) /\ Len(new) \in Nat
    BY DEF GoesOn, Extends
  <2>3. T \in Nat
    BY <2>1, <2>2, ThresholdIs
  <2>4. (IsLast(log, v) /\ T = Threshold(log, v)) \/ T > Len(log)
    BY <2>1 DEF GoesOn, Trusted
  <2>5. T <= Len(log) /\ Len(log) \in Nat
    BY <2>1 DEF GoesOn
  <2> QED
    BY <2>1, <2>3, <2>4, <2>5
<1>2. Extends(new, log)
  BY DEF GoesOn
<1>3. WellListed(log) /\ NoStrayIn(log, v)
  BY <1>2, WellListedOnce, NoStrayOnce DEF Trusted
<1> QED
  BY <1>1, <1>3 DEF Trusted

\* Marks go on to hold, when those added do.
LEMMA MarksGoOn ==
  ASSUME NEW log \in Seq(Records), NEW new, GoesOn(new, log), NEW b, NEW b2, b \subseteq b2, NEW k,
         MarksHold(log, b, k),
         \A v \in Versions : Trusted(new, v, b2) =>
           \A n \in (Len(log) + 1)..Len(new) : UnitOf(new, v, n) /\ new[n].marked => Vouches(new[n], k)
  PROVE  MarksHold(new, b2, k)
<1>1. SUFFICES ASSUME NEW v \in Versions, Trusted(new, v, b2), NEW n \in 1..Len(new), MarkedAt(new, v, n)
               PROVE  Vouches(new[n], k)
  BY DEF MarksHold
<1>2. PICK T : T = Threshold(new, v)
  OBVIOUS
<1>3. /\ new \in Seq(Records) /\ Len(new) \in Nat /\ Len(log) \in Nat
      /\ \A i \in 1..Len(log) : new[i] = log[i]
  BY DEF GoesOn, Extends
<1>4. T \in Nat
  BY <1>2, <1>3, ThresholdIs
<1>5. n > T /\ new[n].marked /\ UnitOf(new, v, n)
  BY <1>1, <1>2 DEF MarkedAt, Counts
<1>6. CASE n > Len(log)
  <2>1. n \in (Len(log) + 1)..Len(new)
    BY <1>1, <1>3, <1>6
  <2> QED
    BY <1>1, <1>5, <2>1
<1>7. CASE n <= Len(log)
  <2>1. T <= Len(log) /\ n \in 1..Len(log) /\ new[n] = log[n]
    BY <1>1, <1>3, <1>4, <1>5, <1>7
  <2>2. Trusted(log, v, b) /\ T = Threshold(log, v)
    BY <1>1, <1>2, <2>1, TrustedOnce
  <2>3. MarkedAt(log, v, n)
    BY <1>5, <2>1, <2>2 DEF MarkedAt, Counts, UnitOf
  <2> QED
    BY <2>1, <2>2, <2>3 DEF MarksHold
<1> QED
  BY <1>1, <1>3, <1>6, <1>7

\* What a delivery owes, once the log has gone on.
LEMMA OwesGoOn ==
  ASSUME NEW log \in Seq(Records), NEW new, GoesOn(new, log), NEW b, NEW b2, b \subseteq b2, NEW k,
         NEW w, CallFits(w), Owes(w, log, b, k)
  PROVE  Owes(w, new, b2, k)
<1>1. Len(log) \in Nat /\ Len(new) \in Nat /\ Len(log) <= Len(new)
  BY DEF GoesOn, Extends
<1>2. w.listed \in Nat /\ (w.at # "idle" => w.of \in Versions)
  BY DEF CallFits, CallType
<1>3. ToldCurrent(w) => w.listed <= Len(new)
  BY <1>1, <1>2 DEF Owes
<1>4. ASSUME Claims(w), Unmoved(w, new, b2)
      PROVE  w.found \subseteq k[w.of]
  <2>1. ToldCurrent(w) /\ w.at # "idle"
    BY <1>4 DEF Claims, ToldCurrent
  <2>2. w.listed <= Len(log) /\ w.of \in Versions
    BY <1>2, <2>1 DEF Owes
  <2>3. PICK v : v = w.of
    OBVIOUS
  <2>4. v \in Versions /\ Trusted(new, v, b2) /\ Threshold(new, v) <= Len(log)
    BY <1>4, <2>2, <2>3 DEF Unmoved
  <2>5. Trusted(log, v, b) /\ Threshold(new, v) = Threshold(log, v)
    BY <2>4, TrustedOnce
  <2>6. Unmoved(w, log, b)
    BY <1>4, <2>3, <2>5 DEF Unmoved
  <2> QED
    BY <1>4, <2>6 DEF Owes
<1> QED
  BY <1>3, <1>4 DEF Owes

-----------------------------------------------------------------------------
(* What the store writes when it has looked at the file. *)

Lays(r, f) ==
  \/ r = <<>> \/ r = RetiringOf(f)
  \/ \E v \in Versions : r = RetiringOf(f) \o Enumeration(v)

\* No record after the log is a mark.
Unmarked(new, log) == \A n \in (Len(log) + 1)..Len(new) : new[n].kind = "unit" => ~new[n].marked

LEMMA RetiringOnly ==
  ASSUME NEW log \in Seq(Records)
  PROVE  /\ RetiringOf(log) \in Seq(Records) /\ NoListing(RetiringOf(log))
         /\ \A n \in 1..Len(RetiringOf(log)) : RetiringOf(log)[n].kind = "retired"
<1>1. PICK r : r = RetiringOf(log)
  OBVIOUS
<1>2. NoListing(r) /\ (Live(log) # None => Len(r) = 1 /\ r[1] = Retirement(Live(log)))
  BY <1>1, RetiringIs
<1>3. Live(log) = None => r = <<>>
  BY <1>1 DEF RetiringOf
<1>4. \A n \in 1..Len(r) : r[n].kind = "retired"
  <2>1. CASE Live(log) = None
    BY <1>3, <2>1
  <2>2. CASE Live(log) # None
    <3>1. r[1].kind = "retired" /\ Len(r) = 1
      BY <1>2, <2>2 DEF Retirement
    <3> QED
      BY <3>1
  <2> QED
    BY <2>1, <2>2
<1> QED
  BY <1>1, <1>2, <1>4 DEF NoListing

LEMMA UnlistedGoesOn ==
  ASSUME NEW log \in Seq(Records), NEW r, NoListing(r), NEW new, Appends(new, log, r)
  PROVE  GoesOn(new, log)
<1>1. Appended(new, log, r)
  BY UnlistedAppend
<1>2. Extends(new, log) /\ Len(log) \in Nat /\ Len(new) \in Nat
  BY <1>1 DEF Appended, Extends
<1>3. \A v \in Versions : IsLast(new, v) => IsLast(log, v) /\ Threshold(new, v) = Threshold(log, v)
  BY LastStays, ThresholdStays
<1> QED
  BY <1>2, <1>3 DEF GoesOn

LEMMA ListedGoesOn ==
  ASSUME NEW log \in Seq(Records), NEW r, NoListing(r), NEW v \in Versions,
         NEW new, Lists(new, log, r, v)
  PROVE  GoesOn(new, log)
<1>1. PICK n : ListedAt(n, log, r)
  BY DEF ListedAt
<1>2. Listed(new, log, r, v, n)
  BY <1>1, ListedIs, Zenon
<1>3. Extends(new, log) /\ Len(log) \in Nat /\ Len(new) \in Nat
  <2>1. /\ new \in Seq(Records) /\ Len(log) \in Nat /\ n \in Nat /\ n > Len(log) /\ n <= Len(new)
        /\ \A i \in 1..Len(log) : new[i] = log[i]
    BY <1>2 DEF Listed
  <2>2. Len(new) \in Nat
    BY <2>1
  <2> QED
    BY <2>1, <2>2 DEF Extends
<1>4. \A w \in Versions : IsLast(new, w) => \/ IsLast(log, w) /\ Threshold(new, w) = Threshold(log, w)
                                            \/ Threshold(new, w) > Len(log)
  BY LastListed, ThresholdListed
<1> QED
  BY <1>3, <1>4 DEF GoesOn

LEMMA LaysGoesOn ==
  ASSUME NEW f \in Seq(Records), NEW log \in Seq(Records), NEW r, Lays(r, f),
         NEW new, Appends(new, log, r)
  PROVE  GoesOn(new, log) /\ Unmarked(new, log) /\ new \in Seq(Records)
<1>1. CASE r = <<>>
  <2>1. NoListing(r) /\ r \in Seq(Records)
    BY <1>1 DEF NoListing
  <2>2. GoesOn(new, log)
    BY <2>1, UnlistedGoesOn
  <2>3. Appended(new, log, r)
    BY <2>1, AppendedIs
  <2> QED
    BY <1>1, <2>2, <2>3 DEF Appended, Unmarked
<1>2. CASE r = RetiringOf(f)
  <2>1. NoListing(r) /\ r \in Seq(Records) /\ \A n \in 1..Len(r) : r[n].kind = "retired"
    BY <1>2, RetiringOnly
  <2>2. GoesOn(new, log)
    BY <2>1, UnlistedGoesOn
  <2>3. Appended(new, log, r)
    BY <2>1, AppendedIs
  <2>4. \A n \in (Len(log) + 1)..Len(new) : new[n].kind = "retired"
    BY <2>1, <2>3 DEF Appended
  <2> QED
    BY <2>2, <2>3, <2>4 DEF Appended, Unmarked
<1>3. CASE \E v \in Versions : r = RetiringOf(f) \o Enumeration(v)
  <2>1. PICK v \in Versions : r = RetiringOf(f) \o Enumeration(v)
    BY <1>3
  <2>2. PICK q : q = RetiringOf(f)
    OBVIOUS
  <2>3. NoListing(q) /\ \A n \in 1..Len(q) : q[n].kind = "retired"
    BY <2>2, RetiringOnly
  <2>4. Lists(new, log, q, v)
    BY <2>1, <2>2 DEF Lists, Appends
  <2>5. PICK n : ListedAt(n, log, q)
    BY DEF ListedAt
  <2>6. Listed(new, log, q, v, n)
    BY <2>3, <2>4, <2>5, ListedIs, Zenon
  <2>7. /\ new \in Seq(Records) /\ Len(log) \in Nat /\ n \in Nat /\ n > Len(log) /\ n <= Len(new)
        /\ \A i \in 1..Len(q) : new[Len(log) + i] = q[i]
        /\ new[n] = Listing(v)
        /\ \A i \in (n + 1)..Len(new) : \E p \in Settled(v) : new[i] = Unit(v, p, SettledAs(v, p), FALSE)
    BY <2>6 DEF Listed
  <2>8. n = Len(log) + Len(q) + 1 /\ Len(q) \in Nat /\ Len(new) \in Nat
    BY <2>3, <2>5, <2>7 DEF ListedAt, NoListing
  <2>9. ASSUME NEW i \in (Len(log) + 1)..Len(new)
        PROVE  new[i].kind = "unit" => ~new[i].marked
    <3>1. CASE i < n
      <4>1. i - Len(log) \in 1..Len(q) /\ Len(log) + (i - Len(log)) = i
        BY <2>7, <2>8, <2>9, <3>1
      <4>2. new[i] = q[i - Len(log)]
        BY <2>7, <4>1
      <4> QED
        BY <2>3, <4>1, <4>2
    <3>2. CASE i = n
      BY <2>7, <3>2, ListingKind
    <3>3. CASE i > n
      <4>1. i \in (n + 1)..Len(new)
        BY <2>7, <2>8, <2>9, <3>3
      <4>2. PICK p \in Settled(v) : new[i] = Unit(v, p, SettledAs(v, p), FALSE)
        BY <2>7, <4>1
      <4> QED
        BY <4>2 DEF Unit
    <3> QED
      BY <2>7, <2>8, <2>9, <3>1, <3>2, <3>3
  <2>10. GoesOn(new, log)
    BY <2>3, <2>4, ListedGoesOn
  <2>11. Unmarked(new, log)
    BY <2>9 DEF Unmarked
  <2> QED
    BY <2>7, <2>10, <2>11
<1> QED
  BY <1>1, <1>2, <1>3 DEF Lays

\* A mark of a log was there before what is no mark.
LEMMA MarkedOnce ==
  ASSUME NEW log \in Seq(Records), NEW new, GoesOn(new, log), Unmarked(new, log),
         NEW v \in Versions, NEW n \in 1..Len(new), IsLast(new, v), MarkedAt(new, v, n)
  PROVE  n \in 1..Len(log) /\ IsLast(log, v) /\ MarkedAt(log, v, n)
<1>1. PICK T : T = Threshold(new, v)
  OBVIOUS
<1>2. /\ new \in Seq(Records) /\ Len(log) \in Nat /\ Len(new) \in Nat
      /\ \A i \in 1..Len(log) : new[i] = log[i]
  BY DEF GoesOn, Extends
<1>3. T \in Nat
  BY <1>1, <1>2, ThresholdIs
<1>4. n > T /\ new[n].marked /\ UnitOf(new, v, n)
  BY <1>1 DEF MarkedAt, Counts
<1>5. n \in 1..Len(log)
  BY <1>2, <1>4 DEF Unmarked, UnitOf
<1>6. (IsLast(log, v) /\ T = Threshold(log, v)) \/ T > Len(log)
  BY <1>1 DEF GoesOn
<1>7. IsLast(log, v) /\ T = Threshold(log, v)
  BY <1>2, <1>3, <1>4, <1>5, <1>6
<1>8. MarkedAt(log, v, n)
  BY <1>2, <1>4, <1>5, <1>7 DEF MarkedAt, Counts, UnitOf
<1> QED
  BY <1>5, <1>7, <1>8

\* A retirement makes no other version live.
LEMMA RetiredLive ==
  ASSUME NEW f \in Seq(Records), WellListed(f), NEW v \in Versions, Live(f) \in {None, v},
         NEW new, Appends(new, f, RetiringOf(f))
  PROVE  Live(new) \in {None, v}
<1>1. PICK r : r = RetiringOf(f)
  OBVIOUS
<1>2. NoListing(r) /\ r \in Seq(Records) /\ Appends(new, f, r)
  BY <1>1, RetiringOnly
<1>3. Appended(new, f, r) /\ new \in Seq(Records)
  BY <1>2, AppendedIs DEF Appended
<1>4. SUFFICES ASSUME Live(new) # None
               PROVE  Live(new) = v
  OBVIOUS
<1>5. PICK u : u = Live(new)
  OBVIOUS
<1>6. WellListed(new)
  BY <1>2, WellListedStays
<1>7. IsLast(new, u)
  BY <1>3, <1>4, <1>5, <1>6, LiveIsLast
<1>8. IsLast(f, u)
  BY <1>2, <1>7, LastStays
<1>9. Live(f) \in {None, u}
  BY <1>8, LastIsLive
<1>10. CASE Live(f) = None
  <2>1. r = <<>>
    BY <1>1, <1>10 DEF RetiringOf
  <2>2. new = f
    BY <1>2, <2>1 DEF Appends
  <2> QED
    BY <1>4, <1>10, <2>2
<1>11. CASE Live(f) # None
  BY <1>5, <1>9, <1>11
<1> QED
  BY <1>10, <1>11

-----------------------------------------------------------------------------
(* The file and what the store holds of it, as both go on. *)

LEMMA InsideOn ==
  ASSUME NEW f \in Seq(Records), NEW d \in Seq(Records), Inside(f, d), NEW r \in Seq(Records),
         NEW d2, Appends(d2, d, r)
  PROVE  Inside(f, d2) /\ \A f2 : Appends(f2, f, r) => Inside(f2, d2)
<1>1. Appended(d2, d, r)
  BY AppendedIs
<1>2. Inside(f, d2)
  <2>1. \A m \in 1..Len(d) : d2[m] = d[m] /\ m \in 1..Len(d2)
    BY <1>1 DEF Appended
  <2> QED
    BY <2>1 DEF Inside
<1>3. ASSUME NEW f2, Appends(f2, f, r)
      PROVE  Inside(f2, d2)
  <2>1. Appended(f2, f, r)
    BY <1>3, AppendedIs
  <2>2. SUFFICES ASSUME NEW n \in 1..Len(f2)
                 PROVE  \E m \in 1..Len(d2) : d2[m] = f2[n]
    BY DEF Inside
  <2>3. CASE n \in 1..Len(f)
    <3>1. f2[n] = f[n]
      BY <2>1, <2>3 DEF Appended
    <3> QED
      BY <1>2, <2>3, <3>1 DEF Inside
  <2>4. CASE n \notin 1..Len(f)
    <3>1. n - Len(f) \in 1..Len(r) /\ f2[n] = r[n - Len(f)]
      BY <2>1, <2>2, <2>4 DEF Appended
    <3>2. PICK i \in 1..Len(r) : f2[n] = r[i]
      BY <3>1
    <3>3. PICK m : m = Len(d) + i
      OBVIOUS
    <3>4. m \in (Len(d) + 1)..Len(d2) /\ m - Len(d) = i /\ m \in 1..Len(d2)
      BY <1>1, <3>2, <3>3 DEF Appended
    <3>5. d2[m] = r[i]
      BY <1>1, <3>4 DEF Appended
    <3> QED
      BY <3>2, <3>4, <3>5
  <2> QED
    BY <2>3, <2>4
<1> QED
  BY <1>2, <1>3

\* What the store did not take in reaches the file.
LEMMA FileLaid ==
  ASSUME NEW f \in Seq(Records), NEW d \in Seq(Records), Behind(f, d), NEW r, Lays(r, f), r \in Seq(Records),
         NEW d2, Appends(d2, d, r)
  PROVE  Behind(f, d2)
<1>1. GoesOn(d2, d) /\ Unmarked(d2, d)
  BY LaysGoesOn
<1>2. Inside(f, d2)
  BY InsideOn DEF Behind
<1>3. ASSUME WellListed(d2)
      PROVE  WellListed(f) /\ Leads(d2, f)
  <2>1. WellListed(d)
    BY <1>1, <1>3, WellListedOnce DEF GoesOn
  <2>2. WellListed(f) /\ Leads(d, f)
    BY <2>1 DEF Behind
  <2>3. ASSUME NEW v \in Versions, NEW n \in 1..Len(d2), IsLast(d2, v), MarkedAt(d2, v, n)
        PROVE  Live(f) \in {None, v}
    <3>1. n \in 1..Len(d) /\ IsLast(d, v) /\ MarkedAt(d, v, n)
      BY <1>1, <2>3, MarkedOnce
    <3> QED
      BY <2>2, <3>1 DEF Leads
  <2> QED
    BY <2>2, <2>3 DEF Leads
<1> QED
  BY <1>2, <1>3 DEF Behind

LEMMA BothLaid ==
  ASSUME NEW f \in Seq(Records), NEW d \in Seq(Records), Behind(f, d), NEW r, Lays(r, f), r \in Seq(Records),
         NEW f2, Appends(f2, f, r), NEW d2, Appends(d2, d, r)
  PROVE  Behind(f2, d2)
<1>1. GoesOn(d2, d) /\ Unmarked(d2, d)
  BY LaysGoesOn
<1>2. Inside(f2, d2)
  BY InsideOn DEF Behind
<1>3. ASSUME WellListed(d2)
      PROVE  WellListed(f2) /\ Leads(d2, f2)
  <2>1. WellListed(d)
    BY <1>1, <1>3, WellListedOnce DEF GoesOn
  <2>2. WellListed(f) /\ Leads(d, f)
    BY <2>1 DEF Behind
  <2>3. CASE r = <<>>
    <3>1. f2 = f
      BY <2>3 DEF Appends
    <3>2. d2 = d
      BY <2>3 DEF Appends
    <3> QED
      BY <2>2, <3>1, <3>2
  <2>4. CASE r = RetiringOf(f)
    <3>1. NoListing(r)
      BY <2>4, RetiringOnly
    <3>2. WellListed(f2)
      BY <2>2, <3>1, WellListedStays
    <3>3. ASSUME NEW v \in Versions, NEW n \in 1..Len(d2), IsLast(d2, v), MarkedAt(d2, v, n)
          PROVE  Live(f2) \in {None, v}
      <4>1. n \in 1..Len(d) /\ IsLast(d, v) /\ MarkedAt(d, v, n)
        BY <1>1, <3>3, MarkedOnce
      <4>2. Live(f) \in {None, v}
        BY <2>2, <4>1 DEF Leads
      <4> QED
        BY <2>2, <2>4, <4>2, RetiredLive
    <3> QED
      BY <3>2, <3>3 DEF Leads
  <2>5. CASE \E w \in Versions : r = RetiringOf(f) \o Enumeration(w)
    <3>1. PICK w \in Versions : r = RetiringOf(f) \o Enumeration(w)
      BY <2>5
    <3>2. PICK q : q = RetiringOf(f)
      OBVIOUS
    <3>3. NoListing(q)
      BY <3>2, RetiringOnly
    <3>4. Lists(f2, f, q, w) /\ Lists(d2, d, q, w)
      BY <3>1, <3>2 DEF Lists, Appends
    <3>5. WellListed(f2)
      BY <2>2, <3>2, <3>4, WellListedLists
    <3>6. Live(f2) = w
      BY <3>3, <3>4, LiveListed DEF Lists
    <3>7. \A v \in Versions : IsLast(d2, v) => v = w
      BY <3>3, <3>4, LastListed
    <3> QED
      BY <3>5, <3>6, <3>7 DEF Leads
  <2> QED
    BY <2>3, <2>4, <2>5 DEF Lays
<1> QED
  BY <1>2, <1>3 DEF Behind

\* Readings and marks of one version.
UnitsOf(u, v) == Units(u) /\ \A n \in 1..Len(u) : u[n].of = v

LEMMA UnitsListNothing ==
  ASSUME NEW u, NEW v, UnitsOf(u, v)
  PROVE  NoListing(u) /\ u \in Seq(Records)
BY DEF UnitsOf, Units, NoListing

\* The version of which a mark stands was so before, or is the one the units are of.
LEMMA UnitsLead ==
  ASSUME NEW d \in Seq(Records), NEW w, NEW u, UnitsOf(u, w), NEW d2, Appends(d2, d, u),
         NEW v \in Versions, NEW n \in 1..Len(d2), IsLast(d2, v), MarkedAt(d2, v, n)
  PROVE  v = w \/ (IsLast(d, v) /\ n \in 1..Len(d) /\ MarkedAt(d, v, n))
<1>1. Appended(d2, d, u) /\ NoListing(u)
  BY AppendedIs, UnitsListNothing
<1>2. Threshold(d2, v) = Threshold(d, v) /\ IsLast(d, v)
  BY <1>1, ThresholdStays, LastStays
<1>3. CASE n \in 1..Len(d)
  <2>1. d2[n] = d[n]
    BY <1>1, <1>3 DEF Appended
  <2>2. MarkedAt(d, v, n)
    BY <1>2, <2>1 DEF MarkedAt, UnitOf, Counts
  <2> QED
    BY <1>2, <1>3, <2>2
<1>4. CASE n \notin 1..Len(d)
  <2>1. n - Len(d) \in 1..Len(u) /\ d2[n] = u[n - Len(d)]
    BY <1>1, <1>4 DEF Appended
  <2>2. d2[n].of = w
    BY <2>1 DEF UnitsOf
  <2> QED
    BY <2>2 DEF MarkedAt, UnitOf
<1> QED
  BY <1>3, <1>4

LEMMA FileTold ==
  ASSUME NEW f \in Seq(Records), NEW d \in Seq(Records), Behind(f, d),
         NEW u, UnitsOf(u, Live(f)), NEW d2, Appends(d2, d, u)
  PROVE  Behind(f, d2)
<1>1. NoListing(u) /\ u \in Seq(Records)
  BY UnitsListNothing
<1>2. GoesOn(d2, d) /\ Inside(f, d2)
  BY <1>1, UnlistedGoesOn, InsideOn DEF Behind
<1>3. ASSUME WellListed(d2)
      PROVE  WellListed(f) /\ Leads(d2, f)
  <2>1. WellListed(f) /\ Leads(d, f)
    BY <1>2, <1>3, WellListedOnce DEF GoesOn, Behind
  <2>2. ASSUME NEW v \in Versions, NEW n \in 1..Len(d2), IsLast(d2, v), MarkedAt(d2, v, n)
        PROVE  Live(f) \in {None, v}
    <3>1. v = Live(f) \/ (IsLast(d, v) /\ n \in 1..Len(d) /\ MarkedAt(d, v, n))
      BY <2>2, UnitsLead
    <3> QED
      BY <2>1, <3>1 DEF Leads
  <2> QED
    BY <2>1, <2>2 DEF Leads
<1> QED
  BY <1>2, <1>3 DEF Behind

LEMMA BothTold ==
  ASSUME NEW f \in Seq(Records), NEW d \in Seq(Records), Behind(f, d),
         NEW u, UnitsOf(u, Live(f)), NEW f2, Appends(f2, f, u), NEW d2, Appends(d2, d, u)
  PROVE  Behind(f2, d2)
<1>1. NoListing(u) /\ u \in Seq(Records)
  BY UnitsListNothing
<1>2. Inside(f2, d2) /\ Behind(f, d2)
  BY <1>1, InsideOn, FileTold DEF Behind
<1>3. Live(f2) = Live(f)
  BY LiveKept DEF Appends, UnitsOf
<1>4. WellListed(f) => WellListed(f2)
  BY <1>1, WellListedStays
<1> QED
  BY <1>2, <1>3, <1>4 DEF Behind, Leads

-----------------------------------------------------------------------------
(* Marks that are added hold. *)

\* Believed in the file, the version the store has live is believed in what it holds.
LEMMA TrustedInside ==
  ASSUME NEW f \in Seq(Records), NEW d \in Seq(Records), Behind(f, d), NEW v \in Versions, NEW b,
         Trusted(d, v, b), Live(f) = v
  PROVE  Trusted(f, v, b)
<1>1. WellListed(f) /\ Inside(f, d) /\ v \notin b /\ NoStrayIn(d, v)
  BY DEF Trusted, Behind
<1>2. v # None
  BY PagesAre
<1>3. IsLast(f, v)
  BY <1>1, <1>2, LiveIsLast
<1>4. ASSUME NEW n \in 1..Len(f), UnitOf(f, v, n)
      PROVE  /\ f[n].reading.bytes = v
             /\ f[n].page \in DOMAIN Route[v]
             /\ f[n].page \in Settled(v) => f[n].reading = SettledAs(v, f[n].page)
  <2>1. PICK m \in 1..Len(d) : d[m] = f[n]
    BY <1>1 DEF Inside
  <2>2. UnitOf(d, v, m)
    BY <1>4, <2>1 DEF UnitOf
  <2> QED
    BY <1>1, <2>1, <2>2 DEF NoStrayIn
<1>5. NoStrayIn(f, v)
  BY <1>4 DEF NoStrayIn
<1> QED
  BY <1>1, <1>3, <1>5 DEF Trusted

\* The marks among the units of the live version stand for what is held.
Justified(u, f, b, k) ==
  \A n \in 1..Len(u) : u[n].marked /\ Trusted(f, Live(f), b) => Vouches(u[n], k)

LEMMA ItselfBehind ==
  ASSUME NEW f \in Seq(Records)
  PROVE  Behind(f, f)
<1>1. Inside(f, f)
  BY DEF Inside
<1>2. WellListed(f) => Leads(f, f)
  BY LastIsLive DEF Leads
<1> QED
  BY <1>1, <1>2 DEF Behind

LEMMA MarksTold ==
  ASSUME NEW f \in Seq(Records), NEW d \in Seq(Records), Behind(f, d),
         NEW u, UnitsOf(u, Live(f)), NEW d2, Appends(d2, d, u),
         NEW b, NEW b2, b \subseteq b2, NEW k, MarksHold(d, b, k), Justified(u, f, b2, k)
  PROVE  MarksHold(d2, b2, k)
<1>1. NoListing(u) /\ u \in Seq(Records)
  BY UnitsListNothing
<1>2. GoesOn(d2, d) /\ Behind(f, d2) /\ Appended(d2, d, u)
  BY <1>1, UnlistedGoesOn, FileTold, AppendedIs
<1>3. ASSUME NEW v \in Versions, Trusted(d2, v, b2), NEW n \in (Len(d) + 1)..Len(d2),
             UnitOf(d2, v, n), d2[n].marked
      PROVE  Vouches(d2[n], k)
  <2>1. n - Len(d) \in 1..Len(u) /\ d2[n] = u[n - Len(d)]
    BY <1>2 DEF Appended
  <2>2. PICK i \in 1..Len(u) : d2[n] = u[i]
    BY <2>1
  <2>3. v = Live(f)
    BY <1>3, <2>2 DEF UnitOf, UnitsOf
  <2>4. d2 \in Seq(Records)
    BY <1>2 DEF Appended
  <2>5. Trusted(f, v, b2)
    BY <1>2, <1>3, <2>3, <2>4, TrustedInside
  <2>6. Trusted(f, Live(f), b2) /\ u[i].marked
    BY <1>3, <2>2, <2>3, <2>5
  <2>7. Vouches(u[i], k)
    BY <2>6 DEF Justified
  <2> QED
    BY <2>2, <2>7
<1>4. \A v \in Versions : Trusted(d2, v, b2) =>
           \A n \in (Len(d) + 1)..Len(d2) : UnitOf(d2, v, n) /\ d2[n].marked => Vouches(d2[n], k)
  BY <1>3
<1> QED
  BY <1>2, <1>4, MarksGoOn

LEMMA MarksLaid ==
  ASSUME NEW f \in Seq(Records), NEW d \in Seq(Records), NEW r, Lays(r, f),
         NEW d2, Appends(d2, d, r), NEW b, NEW b2, b \subseteq b2, NEW k, MarksHold(d, b, k)
  PROVE  MarksHold(d2, b2, k)
<1>1. GoesOn(d2, d) /\ Unmarked(d2, d)
  BY LaysGoesOn
<1>2. \A v \in Versions : Trusted(d2, v, b2) =>
           \A n \in (Len(d) + 1)..Len(d2) : UnitOf(d2, v, n) /\ d2[n].marked => Vouches(d2[n], k)
  BY <1>1 DEF Unmarked, UnitOf
<1> QED
  BY <1>1, <1>2, MarksGoOn

LEMMA AllOweOn ==
  ASSUME NEW log \in Seq(Records), NEW new, GoesOn(new, log), NEW b, NEW b2, b \subseteq b2, NEW k,
         NEW cl, CallsFit(cl), AllOwe(cl, log, b, k)
  PROVE  AllOwe(cl, new, b2, k)
BY OwesGoOn DEF AllOwe, CallsFit

-----------------------------------------------------------------------------
(* The two appends of a task, each taken in by the store or not. *)

LEMMA KeptLaid ==
  ASSUME NEW f, LogFits(f), NEW d, LogFits(d), NEW cl, CallsFit(cl), NEW b, NEW b2, b \subseteq b2,
         NEW k, Kept(f, d, cl, b, k),
         NEW r, Lays(r, f), LogFits(r), NEW f2, Appends(f2, f, r), NEW d2, Appends(d2, d, r)
  PROVE  Kept(f2, d2, cl, b2, k)
<1>1. f \in Seq(Records) /\ d \in Seq(Records) /\ r \in Seq(Records)
  BY DEF LogFits
<1>2. Behind(f, d) /\ MarksHold(f, b, k) /\ MarksHold(d, b, k) /\ AllOwe(cl, f, b, k)
  BY DEF Kept
<1>3. Behind(f2, d2)
  BY <1>1, <1>2, BothLaid
<1>4. MarksHold(f2, b2, k) /\ MarksHold(d2, b2, k)
  BY <1>1, <1>2, MarksLaid
<1>5. GoesOn(f2, f)
  BY <1>1, LaysGoesOn
<1>6. AllOwe(cl, f2, b2, k)
  BY <1>1, <1>2, <1>5, AllOweOn
<1> QED
  BY <1>3, <1>4, <1>6 DEF Kept

LEMMA KeptLaidOnFile ==
  ASSUME NEW f, LogFits(f), NEW d, LogFits(d), NEW cl, NEW b, NEW k, Kept(f, d, cl, b, k),
         NEW r, Lays(r, f), LogFits(r), NEW d2, Appends(d2, d, r)
  PROVE  Kept(f, d2, cl, b, k)
<1>1. f \in Seq(Records) /\ d \in Seq(Records) /\ r \in Seq(Records)
  BY DEF LogFits
<1>2. Behind(f, d) /\ MarksHold(f, b, k) /\ MarksHold(d, b, k) /\ AllOwe(cl, f, b, k)
  BY DEF Kept
<1>3. Behind(f, d2)
  BY <1>1, <1>2, FileLaid
<1>4. MarksHold(d2, b, k)
  BY <1>1, <1>2, MarksLaid
<1> QED
  BY <1>2, <1>3, <1>4 DEF Kept

LEMMA KeptTold ==
  ASSUME NEW f, LogFits(f), NEW d, LogFits(d), NEW cl, CallsFit(cl), NEW b, NEW b2, b \subseteq b2,
         NEW k, Kept(f, d, cl, b, k),
         NEW u, UnitsOf(u, Live(f)), Justified(u, f, b2, k),
         NEW f2, Appends(f2, f, u), NEW d2, Appends(d2, d, u)
  PROVE  Kept(f2, d2, cl, b2, k) /\ Kept(f, d2, cl, b2, k)
<1>1. f \in Seq(Records) /\ d \in Seq(Records) /\ NoListing(u) /\ u \in Seq(Records)
  BY UnitsListNothing DEF LogFits
<1>2. Behind(f, d) /\ MarksHold(f, b, k) /\ MarksHold(d, b, k) /\ AllOwe(cl, f, b, k)
  BY DEF Kept
<1>3. Behind(f2, d2) /\ Behind(f, d2)
  BY <1>1, <1>2, BothTold, FileTold
<1>4. MarksHold(d2, b2, k)
  BY <1>1, <1>2, MarksTold
<1>5. Behind(f, f)
  BY <1>1, ItselfBehind
<1>6. MarksHold(f2, b2, k)
  BY <1>1, <1>2, <1>5, MarksTold
<1>7. GoesOn(f2, f)
  BY <1>1, UnlistedGoesOn
<1>8. AllOwe(cl, f2, b2, k)
  BY <1>1, <1>2, <1>7, AllOweOn
<1>9. MarksHold(f, b2, k) /\ AllOwe(cl, f, b2, k)
  <2>1. MarksHold(f, b2, k)
    BY <1>2 DEF MarksHold, Trusted
  <2>2. AllOwe(cl, f, b2, k)
    BY <1>2 DEF AllOwe, Owes, Unmoved, Trusted
  <2> QED
    BY <2>1, <2>2
<1> QED
  BY <1>3, <1>4, <1>6, <1>8, <1>9 DEF Kept

-----------------------------------------------------------------------------
(* What a task writes stands for what is held. *)

AllKept == Kept(fold, disk, call, borrowed, Holds)

\* A mark repeated for the same reading.
LEMMA ReadingVouches ==
  ASSUME NEW f \in Seq(Records), NEW t, NEW r, Live(f) \in Versions, IsReading(r, t, f), NEW b, NEW k,
         MarksHold(f, b, k), Trusted(f, Live(f), b), r.marked
  PROVE  Vouches(r, k)
<1>1. PICK v \in Versions : v = Live(f)
  OBVIOUS
<1>2. PICK reading : reading = [how |-> t.how, bytes |-> t.from]
  OBVIOUS
<1>3. PICK m \in BOOLEAN :
        /\ r = Unit(v, t.page, reading, m)
        /\ m => Entry(f, v, t.page).reading = {reading} /\ Entry(f, v, t.page).marked
  BY <1>1, <1>2, Zenon DEF IsReading
<1>4. /\ r.of = v /\ r.page = t.page /\ r.reading = reading /\ r.marked = m
  BY <1>3 DEF Unit
<1>5. Entry(f, v, t.page).reading = {reading} /\ Entry(f, v, t.page).marked
  BY <1>3, <1>4
<1>6. PICK e : e = Entry(f, v, t.page)
  OBVIOUS
<1>7. PICK n : n = Latest(f, v, t.page, Len(f))
  OBVIOUS
<1>8. EntryOf(e, n, f, v, t.page)
  BY <1>5, <1>6, <1>7, EntryIs
<1>9. IsOf(n, f, v, t.page) /\ e.reading = {f[n].reading} /\ Counts(f, v, n)
  BY <1>5, <1>6, <1>8 DEF EntryOf
<1>10. n \in 1..Len(f) /\ f[n].page = t.page /\ f[n].of = v /\ f[n].reading = reading
  BY <1>5, <1>6, <1>9 DEF IsOf
<1>11. MarkedAt(f, v, n)
  BY <1>9 DEF MarkedAt, UnitOf, IsOf
<1>12. Vouches(f[n], k)
  BY <1>1, <1>10, <1>11 DEF MarksHold
<1> QED
  BY <1>4, <1>10, <1>12 DEF Vouches, Source

\* A mark of a delivery that found what it marks, and was placed since the last listing.
LEMMA MarkVouches ==
  ASSUME NEW f \in Seq(Records), NEW r, NEW c, NEW v \in Versions, NEW k, IsMark(r, c, f, v), LogFits(f),
         NEW w, w = call[c], CallFits(w), w.at = "marks", w.of = v,
         NoStrayIn(f, v), r.reading = [how |-> w.how, bytes |-> v],
         w.brings \in Vouched(v) => w.found \subseteq k[v]
  PROVE  Vouches(r, k)
<1>1. PICK p \in Carried(c), n \in 1..Len(f) :
        IsOf(n, f, v, p) /\ InFull(f[n].reading) /\ r = Unit(v, p, f[n].reading, TRUE)
  BY Zenon DEF IsMark
<1>2. r.of = v /\ r.page = p /\ r.reading = f[n].reading
  BY <1>1 DEF Unit
<1>3. /\ w.brings \in {Text} \cup DOMAIN Route[v]
      /\ w.brings = Text <=> w.how = "text"
      /\ w.brings = Text => Text \in Deliveries(v)
      /\ w.found = IF w.how = "partial" THEN {} ELSE States[v][w.brings]
  BY DEF CallFits
<1>4. PICK how : how = w.how
  OBVIOUS
<1>5. f[n].reading.how = how /\ r.reading.how = how
  BY <1>2, <1>4
<1>6. how \in {"text", "image"}
  BY <1>1, <1>5 DEF InFull
<1>7. f[n].kind = "unit" /\ f[n].of = v /\ f[n].page = p /\ UnitOf(f, v, n)
  BY <1>1 DEF IsOf, UnitOf
<1>8. w.found = States[v][w.brings]
  BY <1>3, <1>4, <1>6
<1>9. CASE how = "text"
  <2>1. w.brings = Text
    BY <1>3, <1>4, <1>9
  <2>2. p \in TextPages(v)
    BY <1>1, <2>1 DEF Carried
  <2>3. p \in Settled(v)
    BY <1>5, <1>7, <1>9 DEF LogFits, RecordFits
  <2>4. p \in DOMAIN Route[v] /\ Route[v][p] = "text"
    BY <2>2, <2>3 DEF TextPages, Settled
  <2>5. Text \in Vouched(v)
    BY <1>3, <2>1, <2>4 DEF Vouched
  <2>6. States[v][Text] \subseteq k[v]
    BY <1>8, <2>1, <2>5
  <2>7. Source(r) = Text
    BY <1>5, <1>9 DEF Source
  <2> QED
    BY <1>2, <2>6, <2>7 DEF Vouches
<1>10. CASE how = "image"
  <2>1. w.brings # Text
    BY <1>3, <1>4, <1>10
  <2>2. p = w.brings
    BY <1>1, <2>1 DEF Carried
  <2>3. p \in DOMAIN Route[v] /\ p # Text
    BY <1>3, <2>1, <2>2
  <2>4. p \notin Settled(v)
    <3>1. SUFFICES ASSUME p \in Settled(v)
                   PROVE  FALSE
      OBVIOUS
    <3>2. f[n].reading = SettledAs(v, p)
      BY <1>7, <3>1 DEF NoStrayIn
    <3>3. SettledAs(v, p).how \in {"nothing", "text"}
      BY DEF SettledAs
    <3> QED
      BY <1>5, <1>10, <3>2, <3>3
  <2>5. Route[v][p] \in {"image", "both"}
    BY <2>3, <2>4, PagesAre DEF Settled, Routes
  <2>6. p \in Vouched(v)
    BY <2>3, <2>5 DEF Vouched, Deliveries, ImagePages
  <2>7. States[v][p] \subseteq k[v]
    BY <1>8, <2>2, <2>6
  <2>8. Source(r) = p
    BY <1>2, <1>5, <1>10 DEF Source
  <2> QED
    BY <1>2, <2>7, <2>8 DEF Vouches
<1> QED
  BY <1>6, <1>9, <1>10

\* What the task under way writes, once it has looked at the file; f is then the log.
LEMMA WorkTold ==
  ASSUME Inv, AllKept, tasks # <<>>, NEW look, LookFits(look, fold), Underway.do # "remove",
         NEW f, Appends(f, fold, look.records), NEW work, work = Work(Underway, look),
         NEW b2, b2 = borrowed \cup Borrows(Underway, look, work)
  PROVE  UnitsOf(work, Live(f)) /\ Justified(work, f, b2, Holds)
<1>1. PICK t, k : t = Underway /\ k = Holds
  OBVIOUS
<1>2. PICK r : r = look.records
  OBVIOUS
<1>3. f = fold \o r /\ f = fold \o look.records
  BY <1>2 DEF Appends
<1>4. LogFits(fold) /\ LogFits(r) /\ LogFits(f) /\ Lays(r, fold)
  BY <1>2, <1>3, LookedLog DEF Inv, Logs, LookFits, Lays
<1>5. fold \in Seq(Records) /\ f \in Seq(Records)
  BY <1>4 DEF LogFits
<1>6. GoesOn(f, fold) /\ Unmarked(f, fold)
  BY <1>2, <1>4, <1>5, LaysGoesOn
<1>7. MarksHold(fold, borrowed, k) /\ AllOwe(call, fold, borrowed, k)
  BY <1>1 DEF AllKept, Kept
<1>8. MarksHold(f, b2, k)
  BY <1>2, <1>4, <1>5, <1>7, MarksLaid
<1>9. UnitsOf(<<>>, Live(f)) /\ Justified(<<>>, f, b2, k)
  BY FitsNothing DEF UnitsOf, Justified
<1>10. CASE t.do = "reading"
  <2>1. work = ReadingRecords(t, f)
    BY <1>1, <1>3, <1>10, Zenon DEF Work
  <2>2. CASE work = <<>>
    BY <1>1, <1>9, <2>2
  <2>3. CASE work # <<>>
    <3>1. PICK x : Live(f) # None /\ IsReading(x, t, f) /\ work = <<x>>
      BY <2>1, <2>3, ReadingIs
    <3>2. Live(f) \in Versions
      BY <1>5, <3>1, LiveIs
    <3>3. Units(work)
      BY <1>1, <1>10, WorkFitsIn
    <3>4. x.of = Live(f)
      BY <3>1 DEF IsReading, Unit
    <3>5. UnitsOf(work, Live(f))
      BY <3>1, <3>3, <3>4 DEF UnitsOf
    <3>6. x.marked /\ Trusted(f, Live(f), b2) => Vouches(x, k)
      BY <1>5, <1>8, <3>1, <3>2, ReadingVouches
    <3>7. Justified(work, f, b2, k)
      BY <3>1, <3>6 DEF Justified
    <3> QED
      BY <1>1, <3>5, <3>7
  <2> QED
    BY <2>2, <2>3
<1>11. CASE t.do = "mark"
  <2>1. PICK c, v : c = t.call /\ v = Current(t, look)
    OBVIOUS
  <2>2. PICK w : w = call[c]
    OBVIOUS
  <2>3. work = MarkRecords(c, f, v)
    BY <1>1, <1>3, <1>11, <2>1, Zenon DEF Work
  <2>4. c \in Calls /\ CallFits(w) /\ w.at = "marks" /\ w.of \in Versions
    BY <1>1, <1>11, <2>1, <2>2, Awaited, AwaitsIs DEF Asking
  <2>5. v \in Versions \cup {None}
    BY <2>1, CurrentIs
  <2>6. CASE work = <<>>
    BY <1>1, <1>9, <2>6
  <2>7. CASE work # <<>>
    <3>1. /\ v = w.of /\ v \in Versions /\ work \in Seq(Records)
          /\ \A i \in 1..Len(work) : IsMark(work[i], c, f, v)
      BY <1>5, <2>2, <2>3, <2>4, <2>5, <2>7, MarksAre
    <3>2. v = Live(f)
      <4>1. v # None
        BY <3>1, PagesAre
      <4> QED
        BY <1>3, <2>1, <4>1, Zenon DEF Current
    <3>3. Units(work)
      BY <1>1, <1>11, WorkFitsIn
    <3>4. \A i \in 1..Len(work) : work[i].of = v
      <4>1. SUFFICES ASSUME NEW i \in 1..Len(work)
                     PROVE  work[i].of = v
        OBVIOUS
      <4>2. PICK x : x = work[i]
        OBVIOUS
      <4>3. \E p \in Carried(c), n \in 1..Len(f) : x = Unit(v, p, f[n].reading, TRUE)
        BY <3>1, <4>2, Zenon DEF IsMark
      <4> QED
        BY <4>2, <4>3 DEF Unit
    <3>5. UnitsOf(work, Live(f))
      BY <3>2, <3>3, <3>4 DEF UnitsOf
    <3>6. ASSUME Trusted(f, v, b2)
          PROVE  \A i \in 1..Len(work) : Vouches(work[i], k)
      <4>1. v \notin Borrows(t, look, work)
        BY <1>1, <3>6 DEF Trusted
      <4>2. /\ \A i \in DOMAIN work : work[i].reading = [how |-> w.how, bytes |-> v]
            /\ Threshold(f, v) = w.listed
        BY <1>3, <1>11, <2>1, <2>2, <2>7, <4>1 DEF Borrows
      <4>3. Owes(w, fold, borrowed, k)
        BY <1>7, <2>2, <2>4 DEF AllOwe
      <4>4. w.listed <= Len(fold)
        BY <2>4, <4>3 DEF Owes, ToldCurrent
      <4>5. Trusted(fold, v, borrowed) /\ Threshold(fold, v) = w.listed
        <5>1. Threshold(f, v) <= Len(fold) /\ Threshold(f, v) = w.listed
          BY <4>2, <4>4
        <5>2. borrowed \subseteq b2
          OBVIOUS
        <5>3. Trusted(fold, v, borrowed) /\ Threshold(f, v) = Threshold(fold, v)
          BY <1>5, <1>6, <3>1, <3>6, <5>1, <5>2, TrustedOnce
        <5> QED
          BY <5>1, <5>3
      <4>6. w.brings \in Vouched(v) => w.found \subseteq k[v]
        BY <2>4, <3>1, <4>3, <4>5 DEF Owes, Claims, Unmoved
      <4>7. NoStrayIn(f, v)
        BY <3>6 DEF Trusted
      <4>8. SUFFICES ASSUME NEW i \in 1..Len(work)
                     PROVE  Vouches(work[i], k)
        OBVIOUS
      <4>9. work[i].reading = [how |-> w.how, bytes |-> v] /\ IsMark(work[i], c, f, v)
        BY <3>1, <4>2
      <4> QED
        BY <1>4, <1>5, <2>2, <2>4, <3>1, <4>6, <4>7, <4>9, MarkVouches
    <3>7. Justified(work, f, b2, k)
      BY <3>2, <3>6 DEF Justified
    <3> QED
      BY <1>1, <3>5, <3>7
  <2> QED
    BY <2>6, <2>7
<1>12. CASE t.do \notin {"reading", "mark", "remove"}
  <2>1. work = <<>>
    BY <1>1, <1>12 DEF Work
  <2> QED
    BY <1>1, <1>9, <2>1
<1> QED
  BY <1>1, <1>10, <1>11, <1>12

-----------------------------------------------------------------------------
(* A version read in full. *)

\* The record a page needed nothing more by.
NeededNothing(log, v, p, n) ==
  /\ IsOf(n, log, v, p)
  /\ \/ log[n].reading.how = "nothing"
     \/ InFull(log[n].reading) /\ MarkedAt(log, v, n)

LEMMA NeedsNothingIs ==
  ASSUME NEW log \in Seq(Records), NEW v \in Versions, NEW p, NEW m \in Nat, NeedsNothing(log, v, p, m)
  PROVE  \E n \in 1..Len(log) : NeededNothing(log, v, p, n)
<1>1. PICK n, T, k : n = StandsAt(log, v, p, m) /\ T = Threshold(log, v) /\ k = Latest(log, v, p, m)
  OBVIOUS
<1>2. n > 0 /\ (log[n].reading.how = "nothing" \/ (InFull(log[n].reading) /\ Counts(log, v, n)))
  BY <1>1 DEF NeedsNothing
<1>3. T \in Nat
  BY <1>1, ThresholdIs
<1>4. n = k \/ n = 0
  BY <1>1, <1>3, StandsIs
<1>5. k \in Nat /\ (k = 0 \/ IsOf(k, log, v, p))
  BY <1>1, LatestIs
<1>6. IsOf(n, log, v, p)
  BY <1>2, <1>4, <1>5
<1>7. Counts(log, v, n) => MarkedAt(log, v, n)
  BY <1>6 DEF IsOf, MarkedAt, UnitOf
<1>8. n \in 1..Len(log)
  BY <1>6 DEF IsOf
<1> QED
  BY <1>2, <1>6, <1>7, <1>8 DEF NeededNothing

LEMMA PageVouches ==
  ASSUME NEW log, LogFits(log), NEW v \in Versions, NEW b, NEW k, Trusted(log, v, b), MarksHold(log, b, k),
         NEW p \in DOMAIN Route[v], NEW n \in 1..Len(log), NeededNothing(log, v, p, n)
  PROVE  /\ Route[v][p] = "text" => States[v][Text] \subseteq k[v]
         /\ p \in ImagePages(v) => States[v][p] \subseteq k[v]
<1>1. log[n].kind = "unit" /\ log[n].of = v /\ log[n].page = p /\ UnitOf(log, v, n)
  BY DEF NeededNothing, IsOf, UnitOf
<1>2. PICK how : how = log[n].reading.how
  OBVIOUS
<1>3. how = "nothing" \/ (how \in {"text", "image"} /\ MarkedAt(log, v, n))
  BY <1>2 DEF NeededNothing, InFull
<1>4. MarkedAt(log, v, n) => States[v][Source(log[n])] \subseteq k[v]
  BY <1>1 DEF MarksHold, Vouches
<1>5. log[n].reading.bytes = v /\ (p \in Settled(v) => log[n].reading = SettledAs(v, p))
  BY <1>1 DEF Trusted, NoStrayIn
<1>6. /\ how = "text" => p \in Settled(v)
      /\ how = "nothing" /\ p \notin Settled(v) => States[v][p] = {}
  BY <1>1, <1>2, <1>5 DEF LogFits, RecordFits
<1>7. ASSUME Route[v][p] = "text"
      PROVE  States[v][Text] \subseteq k[v]
  <2>1. p \in Settled(v)
    BY <1>7 DEF Settled
  <2>2. log[n].reading = SettledAs(v, p)
    BY <1>5, <2>1
  <2>3. SettledAs(v, p).how = "text"
    BY <1>7 DEF SettledAs
  <2>4. how = "text"
    BY <1>2, <2>2, <2>3
  <2>5. Source(log[n]) = Text
    BY <1>2, <2>4 DEF Source
  <2> QED
    BY <1>3, <1>4, <2>4, <2>5
<1>8. ASSUME p \in ImagePages(v)
      PROVE  States[v][p] \subseteq k[v]
  <2>1. p \notin Settled(v)
    BY <1>8 DEF ImagePages, Settled
  <2>2. CASE how = "nothing"
    BY <1>6, <2>1, <2>2
  <2>3. CASE how = "image" /\ MarkedAt(log, v, n)
    <3>1. Source(log[n]) = p
      BY <1>1, <1>2, <2>3 DEF Source
    <3> QED
      BY <1>4, <2>3, <3>1
  <2> QED
    BY <1>3, <1>6, <2>1, <2>2, <2>3
<1> QED
  BY <1>7, <1>8

LEMMA FullVouches ==
  ASSUME NEW log, LogFits(log), NEW v \in Versions, NEW b, NEW k, Trusted(log, v, b), MarksHold(log, b, k),
         ReadInFull(log, v), NEW d \in Vouched(v)
  PROVE  States[v][d] \subseteq k[v]
<1>1. log \in Seq(Records) /\ Len(log) \in Nat
  BY DEF LogFits
<1>2. PICK T : T = Threshold(log, v)
  OBVIOUS
<1>3. T \in Nat
  BY <1>1, <1>2, ThresholdIs
<1>4. PICK m \in T..Len(log) : FullAt(log, v, m)
  BY <1>2 DEF ReadInFull
<1>5. m \in Nat
  BY <1>1, <1>3, <1>4
<1>6. ASSUME NEW p \in DOMAIN Route[v]
      PROVE  /\ Route[v][p] = "text" => States[v][Text] \subseteq k[v]
             /\ p \in ImagePages(v) => States[v][p] \subseteq k[v]
  <2>1. NeedsNothing(log, v, p, m)
    BY <1>4 DEF FullAt, Named
  <2>2. PICK n \in 1..Len(log) : NeededNothing(log, v, p, n)
    BY <1>1, <1>5, <2>1, NeedsNothingIs
  <2> QED
    BY <2>2, PageVouches
<1>7. CASE d = Text
  <2>1. PICK p \in DOMAIN Route[v] : Route[v][p] = "text"
    BY <1>7 DEF Vouched
  <2> QED
    BY <1>6, <1>7, <2>1
<1>8. CASE d # Text
  <2>1. d \in ImagePages(v)
    BY <1>8 DEF Vouched, Deliveries
  <2>2. d \in DOMAIN Route[v]
    BY <2>1 DEF ImagePages
  <2> QED
    BY <1>6, <2>1, <2>2
<1> QED
  BY <1>7, <1>8

LEMMA NoStrayIs ==
  ASSUME NEW v, fold \in Seq(Records), NoStray(v)
  PROVE  NoStrayIn(fold, v)
BY DEF NoStray, NoStrayIn, Of, UnitOf

LEMMA KeptIsFull ==
  ASSUME Inv, AllKept
  PROVE  FullIsKept
<1> SUFFICES ASSUME Live(fold) # None, WellListed(fold), ReadInFull(fold, Live(fold)),
                    NoStray(Live(fold)), Live(fold) \notin borrowed,
                    NEW o \in (UNION {States[Live(fold)][d] : d \in Vouched(Live(fold))}) \ late
             PROVE  outcome[o] = [status |-> "active", stamp |-> Live(fold)]
  BY Zenon DEF FullIsKept
<1>0. PICK v : v = Live(fold)
  OBVIOUS
<1>1. PICK d \in Vouched(v) : o \in States[v][d]
  BY <1>0
<1>2. LogFits(fold) /\ fold \in Seq(Records)
  BY DEF Inv, Logs, LogFits
<1>3. v \in Versions
  BY <1>0, <1>2, LiveIs
<1>4. IsLast(fold, v) /\ NoStrayIn(fold, v)
  BY <1>0, <1>2, LiveIsLast, NoStrayIs
<1>5. Trusted(fold, v, borrowed)
  BY <1>0, <1>4 DEF Trusted
<1>6. MarksHold(fold, borrowed, Holds)
  BY DEF AllKept, Kept
<1>7. States[v][d] \subseteq Holds[v]
  BY <1>0, <1>2, <1>3, <1>5, <1>6, FullVouches
<1>8. o \in Holds[v]
  BY <1>1, <1>7
<1>9. o \notin late
  OBVIOUS
<1>10. outcome[o] = [status |-> "active", stamp |-> v]
  <2>1. Holds[v] = {x \in Outcomes : x \in late \/ outcome[x] = [status |-> "active", stamp |-> v]}
    BY <1>3, Zenon DEF Holds
  <2> QED
    BY <1>8, <1>9, <2>1, Zenon
<1> QED
  BY <1>0, <1>10, Zenon

-----------------------------------------------------------------------------
(* What the deliveries write. *)

LEMMA UnplacedOwes ==
  ASSUME NEW w, ~ToldCurrent(w), NEW f, NEW b, NEW k
  PROVE  Owes(w, f, b, k)
BY DEF Owes, ToldCurrent, Claims

LEMMA OweMoved ==
  ASSUME NEW cl, NEW f, NEW b, NEW k, AllOwe(cl, f, b, k), NEW c, NEW new, Spares(new, cl, c),
         Owes(new[c], f, b, k)
  PROVE  AllOwe(new, f, b, k)
BY DEF AllOwe, Spares

LEMMA LateIs ==
  ASSUME NEW c, late' = Late(c), call[c].current \in {call[c].of, None}, NEW o \in Outcomes
  PROVE  /\ Live(fold) # call[c].of /\ outcome'[o] # outcome[o] => o \in late'
         /\ o \in late =>
              o \in late' \/ (Live(fold) = call[c].of
                              /\ outcome'[o] = [status |-> "active", stamp |-> call[c].of])
<1>1. PICK changed : changed = {x \in Outcomes : outcome'[x] # outcome[x]}
  OBVIOUS
<1>2. CASE Live(fold) # call[c].of
  <2>1. late' = late \cup changed
    BY <1>1, <1>2 DEF Late
  <2> QED
    BY <1>1, <1>2, <2>1
<1>3. CASE Live(fold) = call[c].of
  <2>1. late' = late \ {x \in changed : outcome'[x] = [status |-> "active", stamp |-> call[c].of]}
    BY <1>1, <1>3 DEF Late
  <2> QED
    BY <1>3, <2>1
<1> QED
  BY <1>2, <1>3

\* Nothing that is held of the live version is let go.
LEMMA HoldsStay ==
  ASSUME Inv, NEW c \in Calls, Resolves(c) \/ ResolveFails(c) \/ Retires(c),
         NEW v \in Versions, Live(fold) \in {None, v}
  PROVE  Holds[v] \subseteq Holds'[v]
<1>1. PICK w : w = call[c]
  OBVIOUS
<1>2. CallFits(w) /\ w.at \in {"resolves", "retires"} /\ late' = Late(c)
  BY <1>1 DEF Inv, CallsFit, Resolves, ResolveFails, Retires
<1>3. w.of \in Versions /\ w.current \in {w.of, None}
  BY <1>2 DEF CallFits
<1>4. Holds[v] = {x \in Outcomes : x \in late \/ outcome[x] = [status |-> "active", stamp |-> v]}
  BY Zenon DEF Holds
<1>5. Holds'[v] = {x \in Outcomes : x \in late' \/ outcome'[x] = [status |-> "active", stamp |-> v]}
  BY Zenon DEF Holds
<1>6. SUFFICES ASSUME NEW o \in Outcomes, o \in late \/ outcome[o] = [status |-> "active", stamp |-> v]
               PROVE  o \in late' \/ outcome'[o] = [status |-> "active", stamp |-> v]
  BY <1>4, <1>5, Zenon
<1>7. /\ Live(fold) # w.of /\ outcome'[o] # outcome[o] => o \in late'
      /\ o \in late =>
           o \in late' \/ (Live(fold) = w.of /\ outcome'[o] = [status |-> "active", stamp |-> w.of])
  BY <1>1, <1>2, <1>3, LateIs
<1>8. Live(fold) = w.of => w.of = v
  BY <1>3, PagesAre
<1>9. CASE o \in late
  BY <1>7, <1>8, <1>9
<1>10. CASE o \notin late
  <2>1. outcome[o] = [status |-> "active", stamp |-> v]
    BY <1>6, <1>10
  <2>2. SUFFICES ASSUME outcome'[o] # outcome[o], Live(fold) = w.of
                 PROVE  outcome'[o] = [status |-> "active", stamp |-> v]
    BY <1>7, <2>1
  <2>3. w.of = v
    BY <1>8, <2>2
  <2>4. outcome \in [Outcomes -> OutcomeType]
    BY DEF Inv, Fields
  <2>5. CASE Resolves(c)
    <3>1. outcome'[o] = Resolved(c, o)
      BY <2>5 DEF Resolves
    <3> QED
      BY <1>1, <2>2, <2>3, <3>1 DEF Resolved
  <2>6. CASE ResolveFails(c)
    <3>1. PICK x \in call[c].found : outcome' = [outcome EXCEPT ![x] = Resolved(c, x)]
      BY <2>6 DEF ResolveFails
    <3>2. o = x
      BY <2>2, <2>4, <3>1
    <3>3. outcome'[o] = Resolved(c, o)
      BY <2>4, <3>1, <3>2
    <3> QED
      BY <1>1, <2>2, <2>3, <3>3 DEF Resolved
  <2>7. CASE Retires(c)
    <3>1. ~RetiredBy(c, o)
      BY <1>1, <2>1, <2>3 DEF RetiredBy
    <3>2. outcome'[o] = outcome[o]
      BY <2>7, <3>1 DEF Retires
    <3> QED
      BY <2>2, <3>2
  <2> QED
    BY <2>5, <2>6, <2>7
<1> QED
  BY <1>9, <1>10

\* What the logs and the other deliveries count on is held when one has written.
LEMMA WrittenKept ==
  ASSUME Inv, AllKept, NEW c \in Calls, Resolves(c) \/ ResolveFails(c) \/ Retires(c)
  PROVE  /\ MarksHold(fold, borrowed, Holds') /\ MarksHold(disk, borrowed, Holds')
         /\ AllOwe(call, fold, borrowed, Holds')
<1>1. PICK k, h : k = Holds /\ h = Holds'
  OBVIOUS
<1>2. \A v \in Versions : Live(fold) \in {None, v} => k[v] \subseteq h[v]
  BY <1>1, HoldsStay
<1>3. /\ Behind(fold, disk) /\ MarksHold(fold, borrowed, k) /\ MarksHold(disk, borrowed, k)
      /\ AllOwe(call, fold, borrowed, k)
  BY <1>1 DEF AllKept, Kept
<1>4. LogFits(fold) /\ LogFits(disk) /\ fold \in Seq(Records) /\ disk \in Seq(Records)
  BY DEF Inv, Logs, LogFits
<1>5. \A v \in Versions : Trusted(fold, v, borrowed) => Live(fold) \in {None, v}
  BY <1>4, LastIsLive DEF Trusted
<1>6. MarksHold(fold, borrowed, h)
  <2>1. SUFFICES ASSUME NEW v \in Versions, Trusted(fold, v, borrowed),
                        NEW n \in 1..Len(fold), MarkedAt(fold, v, n)
                 PROVE  Vouches(fold[n], h)
    BY DEF MarksHold
  <2>2. Vouches(fold[n], k) /\ fold[n].of = v
    BY <1>3, <2>1 DEF MarksHold, MarkedAt, UnitOf
  <2>3. k[v] \subseteq h[v]
    BY <1>2, <1>5, <2>1
  <2> QED
    BY <2>2, <2>3 DEF Vouches
<1>7. MarksHold(disk, borrowed, h)
  <2>1. SUFFICES ASSUME NEW v \in Versions, Trusted(disk, v, borrowed),
                        NEW n \in 1..Len(disk), MarkedAt(disk, v, n)
                 PROVE  Vouches(disk[n], h)
    BY DEF MarksHold
  <2>2. Vouches(disk[n], k) /\ disk[n].of = v
    BY <1>3, <2>1 DEF MarksHold, MarkedAt, UnitOf
  <2>3. Live(fold) \in {None, v}
    BY <1>3, <2>1 DEF Trusted, Behind, Leads
  <2>4. k[v] \subseteq h[v]
    BY <1>2, <2>3
  <2> QED
    BY <2>2, <2>4 DEF Vouches
<1>8. AllOwe(call, fold, borrowed, h)
  <2>1. SUFFICES ASSUME NEW e \in Calls
                 PROVE  Owes(call[e], fold, borrowed, h)
    BY DEF AllOwe
  <2>2. PICK w : w = call[e]
    OBVIOUS
  <2>3. CallFits(w) /\ Owes(w, fold, borrowed, k)
    BY <1>3, <2>2 DEF Inv, CallsFit, AllOwe
  <2>4. ASSUME Claims(w), Unmoved(w, fold, borrowed)
        PROVE  w.found \subseteq h[w.of]
    <3>1. w.of \in Versions
      BY <2>3, <2>4 DEF CallFits, Claims
    <3>2. w.found \subseteq k[w.of]
      BY <2>3, <2>4 DEF Owes
    <3>3. k[w.of] \subseteq h[w.of]
      BY <1>2, <1>5, <2>4, <3>1 DEF Unmoved
    <3> QED
      BY <3>2, <3>3
  <2>5. Owes(w, fold, borrowed, h)
    BY <2>3, <2>4 DEF Owes
  <2> QED
    BY <2>2, <2>5
<1> QED
  BY <1>1, <1>6, <1>7, <1>8

LEMMA ResolvesKept ==
  ASSUME Inv, AllKept, NEW c \in Calls, Resolves(c)
  PROVE  AllKept'
<1>1. PICK w, h : w = call[c] /\ h = Holds'
  OBVIOUS
<1>2. /\ MarksHold(fold, borrowed, h) /\ MarksHold(disk, borrowed, h)
      /\ AllOwe(call, fold, borrowed, h) /\ Behind(fold, disk)
  BY <1>1, WrittenKept DEF AllKept, Kept
<1>3. CallFits(w) /\ w.at = "resolves" /\ CallsFit(call) /\ Owes(w, fold, borrowed, h)
  BY <1>1, <1>2 DEF Inv, CallsFit, Resolves, AllOwe
<1>4. w.of \in Versions /\ w.standing \in {"open", "reread", "unplaced"} /\ w \in CallType
  BY <1>3 DEF CallFits, CallType
<1>5. PICK new : new = call'
  OBVIOUS
<1>6. \/ w.standing = "unplaced" /\ Moves(c, "settles")
      \/ w.standing # "unplaced" /\ Moves(c, "marks")
  BY <1>1 DEF Resolves
<1>7. Spares(new, call, c)
  <2>1. \A d \in Calls \ {c} : call'[d] = call[d]
    BY <1>3, <1>6, MovesFits, <1>1
  <2> QED
    BY <1>5, <2>1 DEF Spares
<1>8. Owes(new[c], fold, borrowed, h)
  <2>1. call \in [Calls -> CallType]
    BY <1>3 DEF CallsFit
  <2>2. CASE w.standing = "unplaced"
    <3>1. new[c].at = "settles"
      BY <1>1, <1>3, <1>5, <1>6, <2>2, MovesFits
    <3> QED
      BY <3>1, UnplacedOwes DEF ToldCurrent
  <2>3. CASE w.standing # "unplaced"
    <3>1. new[c] = [w EXCEPT !.at = "marks"]
      BY <1>1, <1>5, <1>6, <2>1, <2>3 DEF Moves
    <3>2. PICK x : x = new[c]
      OBVIOUS
    <3>3. /\ x.at = "marks" /\ x.of = w.of /\ x.listed = w.listed /\ x.brings = w.brings
          /\ x.found = w.found
      BY <1>4, <3>1, <3>2 DEF CallType
    <3>4. x.listed <= Len(fold)
      BY <1>3, <2>3, <3>3 DEF Owes, ToldCurrent
    <3>5. ASSUME Unmoved(x, fold, borrowed)
          PROVE  x.found \subseteq h[x.of]
      <4>1. Unmoved(w, fold, borrowed)
        BY <3>3, <3>5 DEF Unmoved
      <4>2. CASE w.standing = "reread"
        BY <1>3, <3>3, <4>1, <4>2 DEF Owes, Claims
      <4>3. CASE w.standing = "open"
        <5>1. \A o \in w.found : o \in Outcomes /\ outcome'[o] = [status |-> "active", stamp |-> w.of]
          BY <1>1, <1>4, <4>3 DEF Resolves, Resolved, CallType
        <5>2. h[w.of] = {o \in Outcomes : o \in late' \/ outcome'[o] = [status |-> "active", stamp |-> w.of]}
          BY <1>1, <1>4, Zenon DEF Holds
        <5> QED
          BY <3>3, <5>1, <5>2
      <4> QED
        BY <1>4, <2>3, <4>2, <4>3
    <3>6. Owes(x, fold, borrowed, h)
      BY <3>4, <3>5 DEF Owes
    <3> QED
      BY <3>2, <3>6
  <2> QED
    BY <2>2, <2>3
<1>9. AllOwe(new, fold, borrowed, h)
  BY <1>2, <1>7, <1>8, OweMoved
<1>10. fold' = fold /\ disk' = disk /\ borrowed' = borrowed
  BY DEF Resolves
<1>11. Kept(fold, disk, new, borrowed, h)
  BY <1>2, <1>9 DEF Kept
<1> QED
  BY <1>1, <1>5, <1>10, <1>11 DEF AllKept

LEMMA IdleOwes ==
  ASSUME NEW cl, NEW f, NEW b, NEW k, AllOwe(cl, f, b, k), NEW c, NEW new, Spares(new, cl, c),
         new[c].at \notin {"resolves", "marks"}
  PROVE  AllOwe(new, f, b, k)
BY OweMoved, UnplacedOwes DEF ToldCurrent

LEMMA WritesKept ==
  ASSUME Inv, AllKept, NEW c \in Calls, ResolveFails(c) \/ Retires(c)
  PROVE  AllKept'
<1>1. PICK h, new : h = Holds' /\ new = call'
  OBVIOUS
<1>2. /\ MarksHold(fold, borrowed, h) /\ MarksHold(disk, borrowed, h)
      /\ AllOwe(call, fold, borrowed, h) /\ Behind(fold, disk)
  BY <1>1, WrittenKept DEF AllKept, Kept
<1>3. Moves(c, "idle") /\ CallsFit(call)
  BY DEF ResolveFails, Retires, Inv
<1>4. new[c].at = "idle" /\ Spares(new, call, c)
  BY <1>1, <1>3, MovesFits DEF Spares
<1>5. AllOwe(new, fold, borrowed, h)
  BY <1>2, <1>4, IdleOwes
<1>6. fold' = fold /\ disk' = disk /\ borrowed' = borrowed
  BY DEF ResolveFails, Retires, store
<1>7. Kept(fold, disk, new, borrowed, h)
  BY <1>2, <1>5 DEF Kept
<1> QED
  BY <1>1, <1>6, <1>7 DEF AllKept

-----------------------------------------------------------------------------
(* The store's answers. *)

LEMMA AnswersOwe ==
  ASSUME Inv, tasks # <<>>, NEW log, LogFits(log), NEW v \in Versions \cup {None},
         Answers(Underway, log, v), NEW b, NEW k, MarksHold(log, b, k), AllOwe(call, log, b, k)
  PROVE  AllOwe(call', log, b, k)
<1>1. PICK t, c : t = Underway /\ c = t.call
  OBVIOUS
<1>2. PICK new : new = call'
  OBVIOUS
<1>3. log \in Seq(Records) /\ Len(log) \in Nat
  BY DEF LogFits
<1>4. CASE t.do = "place"
  <2>1. c \in Calls /\ CallFits(call[c]) /\ call[c].at = "places" /\ call[c].of \in Versions /\ CallsFit(call)
    BY <1>1, <1>4, Awaited, AwaitsIs DEF Asking, Inv
  <2>2. CASE Standing(log, v, call[c].of) = "late"
    <3>1. Moves(c, "idle")
      BY <1>1, <1>4, <2>2 DEF Answers
    <3>2. new[c].at = "idle" /\ Spares(new, call, c)
      BY <1>2, <2>1, <3>1, MovesFits DEF Spares
    <3> QED
      BY <1>2, <3>2, IdleOwes
  <2>3. CASE Standing(log, v, call[c].of) # "late"
    <3>1. PICK listed, standing : /\ listed = IF v = None THEN 0 ELSE Threshold(log, v)
                                  /\ standing = Standing(log, v, call[c].of)
      OBVIOUS
    <3>2. call' = [call EXCEPT ![c].at = "resolves", ![c].current = v, ![c].listed = listed,
                               ![c].standing = standing]
      BY <1>1, <1>4, <2>3, <3>1, Zenon DEF Answers
    <3>3. PICK w : w = call[c]
      OBVIOUS
    <3>4. PICK x : x = new[c]
      OBVIOUS
    <3>5. w \in CallType /\ call \in [Calls -> CallType]
      BY <2>1, <3>3 DEF CallFits, CallsFit
    <3>6. x = [w EXCEPT !.at = "resolves", !.current = v, !.listed = listed, !.standing = standing]
      BY <1>2, <2>1, <3>2, <3>3, <3>4, <3>5
    <3>7. /\ x.at = "resolves" /\ x.standing = standing /\ x.listed = listed
          /\ x.of = w.of /\ x.brings = w.brings /\ x.found = w.found
      BY <3>5, <3>6 DEF CallType
    <3>8. Spares(new, call, c)
      BY <1>2, <3>2, <3>5 DEF Spares
    <3>9. listed <= Len(log)
      <4>1. CASE v = None
        BY <1>3, <3>1, <4>1
      <4>2. CASE v # None
        <5>1. listed = Threshold(log, v) /\ v \in Versions
          BY <3>1, <4>2
        <5>2. listed \in 0..Len(log)
          BY <1>3, <5>1, ThresholdIs
        <5> QED
          BY <1>3, <5>2
      <4> QED
        BY <4>1, <4>2
    <3>10. ASSUME standing = "reread", Unmoved(x, log, b)
           PROVE  x.found \subseteq k[x.of]
      <4>1. v = w.of /\ v \in Versions /\ ReadInFull(log, v)
        BY <2>1, <3>1, <3>3, <3>10, Zenon DEF Standing
      <4>2. Trusted(log, v, b) /\ w.brings \in Vouched(v)
        BY <3>7, <3>10, <4>1 DEF Unmoved
      <4>3. States[v][w.brings] \subseteq k[v]
        BY <4>1, <4>2, FullVouches
      <4>4. w.found = {} \/ w.found = States[v][w.brings]
        BY <2>1, <3>3, <4>1 DEF CallFits
      <4> QED
        BY <3>7, <4>1, <4>3, <4>4
    <3>11. Owes(x, log, b, k)
      BY <3>7, <3>9, <3>10 DEF Owes, Claims
    <3> QED
      BY <1>2, <3>4, <3>8, <3>11, OweMoved
  <2> QED
    BY <2>2, <2>3
<1>5. CASE t.do = "mark"
  <2>1. Moves(c, "settles") /\ CallsFit(call)
    BY <1>1, <1>5 DEF Answers, Inv
  <2>2. c \in Calls /\ call[c].at = "marks"
    BY <1>1, <1>5, Awaited, AwaitsIs DEF Asking
  <2>3. new[c].at = "settles" /\ Spares(new, call, c)
    BY <1>2, <2>1, <2>2, MovesFits DEF Spares
  <2> QED
    BY <1>2, <2>3, IdleOwes
<1>6. CASE t.do = "settle"
  <2>1. c \in Calls /\ CallsFit(call) /\ call \in [Calls -> CallType]
    BY <1>1, <1>6, Awaited DEF Asking, Inv, CallsFit
  <2>2. CASE v = None \/ ~ReadInFull(log, v)
    <3>1. Moves(c, "idle")
      BY <1>1, <1>6, <2>2 DEF Answers
    <3>2. new[c].at = "idle" /\ Spares(new, call, c)
      BY <1>2, <2>1, <3>1, MovesFits DEF Spares
    <3> QED
      BY <1>2, <3>2, IdleOwes
  <2>3. CASE ~(v = None \/ ~ReadInFull(log, v))
    <3>1. PICK x : x = [NoCall EXCEPT !.at = "retires", !.of = v, !.current = v, !.known = Known(log)]
      OBVIOUS
    <3>2. call' = [call EXCEPT ![c] = x]
      BY <1>1, <1>6, <2>3, <3>1, Zenon DEF Answers
    <3>3. x.at = "retires"
      BY <3>1 DEF NoCall
    <3>4. new[c] = x /\ Spares(new, call, c)
      BY <1>2, <2>1, <3>2 DEF Spares
    <3> QED
      BY <1>2, <3>3, <3>4, IdleOwes
  <2> QED
    BY <2>2, <2>3
<1>7. CASE t.do \notin {"place", "mark", "settle"}
  BY <1>1, <1>7 DEF Answers
<1> QED
  BY <1>4, <1>5, <1>6, <1>7

LEMMA RejectedOwe ==
  ASSUME Inv, tasks # <<>>, Rejected(Underway), NEW log, NEW b, NEW k, AllOwe(call, log, b, k)
  PROVE  AllOwe(call', log, b, k)
<1>1. PICK t, c : t = Underway /\ c = t.call
  OBVIOUS
<1>2. PICK new : new = call'
  OBVIOUS
<1>3. CASE t.do = "place"
  <2>1. c \in Calls /\ call \in [Calls -> CallType]
    BY <1>1, <1>3, Awaited DEF Asking, Inv, CallsFit
  <2>2. call' = [call EXCEPT ![c].at = "resolves", ![c].standing = "unplaced"]
    BY <1>1, <1>3 DEF Rejected
  <2>3. new[c].at = "resolves" /\ new[c].standing = "unplaced" /\ Spares(new, call, c)
    BY <1>2, <2>1, <2>2 DEF Spares, CallType
  <2> QED
    BY <1>2, <2>3, OweMoved, UnplacedOwes DEF ToldCurrent
<1>4. CASE t.do \in {"mark", "settle"}
  <2>1. Moves(c, "idle") /\ c \in Calls /\ CallsFit(call)
    BY <1>1, <1>4, Awaited DEF Rejected, Asking, Inv
  <2>2. new[c].at = "idle" /\ Spares(new, call, c)
    BY <1>2, <2>1, MovesFits DEF Spares
  <2> QED
    BY <1>2, <2>2, IdleOwes
<1>5. CASE t.do \notin {"place", "mark", "settle"}
  BY <1>1, <1>5 DEF Rejected
<1> QED
  BY <1>3, <1>4, <1>5

-----------------------------------------------------------------------------
(* The steps of the store. *)

\* What the file and the store hold after the appends of the task under way, each landed, taken in
\* or not.
Stages(f, d, r, work, b2, k) ==
  /\ Kept(f \o r, d \o r, call, borrowed, k)
  /\ Kept(f, d \o r, call, borrowed, k)
  /\ Kept(f \o r \o work, d \o r \o work, call, b2, k)
  /\ Kept(f \o r, d \o r \o work, call, b2, k) /\ Kept(f \o r, d \o r, call, b2, k)

LEMMA StagesKept ==
  ASSUME Inv, AllKept, tasks # <<>>, NEW look, LookFits(look, fold),
         Underway.do = "remove" => look.records = <<>>,
         NEW work, work = Work(Underway, look), NEW b2, b2 = borrowed \cup Borrows(Underway, look, work)
  PROVE  Stages(fold, disk, look.records, work, b2, Holds)
<1>1. PICK f, d, k, r : f = fold /\ d = disk /\ k = Holds /\ r = look.records
  OBVIOUS
<1>2. PICK f1, d1 : f1 = f \o r /\ d1 = d \o r
  OBVIOUS
<1>3. PICK f2, d2 : f2 = f1 \o work /\ d2 = d1 \o work
  OBVIOUS
<1>4. Appends(f1, f, r) /\ Appends(d1, d, r) /\ Appends(f2, f1, work) /\ Appends(d2, d1, work)
  BY <1>2, <1>3 DEF Appends
<1>5. LogFits(f) /\ LogFits(d) /\ LogFits(r) /\ Lays(r, f) /\ CallsFit(call)
  BY <1>1, LookedLog DEF Inv, Logs, LookFits, Lays
<1>6. LogFits(f1) /\ LogFits(d1)
  BY <1>2, <1>5, FitsJoined
<1>7. LogFits(work)
  BY WorkFitsIn
<1>8. Kept(f, d, call, borrowed, k)
  BY <1>1 DEF AllKept
<1>9. borrowed \subseteq b2
  OBVIOUS
<1>10. Kept(f1, d1, call, borrowed, k) /\ Kept(f1, d1, call, b2, k)
  BY <1>4, <1>5, <1>8, <1>9, KeptLaid
<1>11. Kept(f, d1, call, borrowed, k)
  BY <1>4, <1>5, <1>8, KeptLaidOnFile
<1>12. Kept(f2, d2, call, b2, k) /\ Kept(f1, d2, call, b2, k)
  <2>1. CASE Underway.do = "remove"
    <3>1. work = RetiringOf(f)
      BY <1>1, <2>1 DEF Work, Retiring, RetiringOf
    <3>2. f1 = f
      <4>1. r = <<>> /\ f \in Seq(Records)
        BY <1>1, <1>5, <2>1 DEF LogFits
      <4> QED
        BY <1>2, <4>1
    <3>3. Lays(work, f1)
      BY <3>1, <3>2 DEF Lays
    <3>4. Kept(f2, d2, call, b2, k)
      BY <1>4, <1>5, <1>6, <1>7, <1>9, <1>10, <3>3, KeptLaid
    <3>5. Kept(f1, d2, call, b2, k)
      BY <1>4, <1>6, <1>7, <1>10, <3>3, KeptLaidOnFile
    <3> QED
      BY <3>4, <3>5
  <2>2. CASE Underway.do # "remove"
    <3>1. Appends(f1, fold, look.records)
      BY <1>1, <1>4
    <3>2. UnitsOf(work, Live(f1)) /\ Justified(work, f1, b2, Holds)
      BY <2>2, <3>1, WorkTold
    <3>3. UnitsOf(work, Live(f1)) /\ Justified(work, f1, b2, k)
      BY <1>1, <3>2
    <3> QED
      BY <1>4, <1>5, <1>6, <1>9, <1>10, <3>3, KeptTold
  <2> QED
    BY <2>1, <2>2
<1>13. Stages(f, d, r, work, b2, k)
  BY <1>2, <1>3, <1>10, <1>11, <1>12 DEF Stages
<1> QED
  BY <1>1, <1>13

\* The delivery the task answers goes on.
LEMMA EndsKept ==
  ASSUME Inv, AllKept, tasks # <<>>, NEW look, LookFits(look, fold),
         Underway.do = "remove" => look.records = <<>>, Ends(look), UNCHANGED <<outcome, late>>
  PROVE  AllKept'
<1>1. PICK work : work = Work(Underway, look)
  OBVIOUS
<1>2. PICK b2 : b2 = borrowed \cup Borrows(Underway, look, work)
  OBVIOUS
<1>3. PICK f, d, v : /\ f = fold \o look.records \o work /\ d = disk \o look.records \o work
                     /\ v = Current(Underway, look)
  OBVIOUS
<1>4. fold' = f /\ disk' = d /\ borrowed' = b2 /\ Answers(Underway, f, v)
  BY <1>1, <1>2, <1>3, Zenon DEF Ends
<1>5. PICK k : k = Holds
  OBVIOUS
<1>6. Kept(f, d, call, b2, k)
  BY <1>1, <1>2, <1>3, <1>5, StagesKept DEF Stages
<1>7. Holds' = k
  BY <1>5 DEF Holds
<1>8. LogFits(f)
  <2>1. LogFits(fold \o look.records) /\ LogFits(work)
    BY <1>1, LookedLog, WorkFitsIn DEF Inv, Logs
  <2> QED
    BY <1>3, <2>1, FitsJoined
<1>9. v \in Versions \cup {None}
  BY <1>3, CurrentIs
<1>10. Behind(f, d) /\ MarksHold(f, b2, k) /\ MarksHold(d, b2, k) /\ AllOwe(call, f, b2, k)
  BY <1>6 DEF Kept
<1>11. AllOwe(call', f, b2, k)
  BY <1>4, <1>8, <1>9, <1>10, AnswersOwe
<1>12. Kept(f, d, call', b2, k)
  BY <1>10, <1>11 DEF Kept
<1> QED
  BY <1>4, <1>7, <1>12 DEF AllKept

LEMMA RemovesLook ==
  ASSUME Inv, tasks # <<>>
  PROVE  /\ Hashed => Underway.do # "remove"
         /\ Underway.do = "remove" => Looked(Underway).records = <<>>
<1>1. Hashed => Underway.do # "remove"
  BY QueueHead DEF Hashed, Underway, Inv, TaskFits
<1> QED
  BY <1>1, LookedLive

LEMMA WorksKept ==
  ASSUME Inv, AllKept, Works
  PROVE  AllKept'
<1>1. PICK look : look = Looked(Underway)
  OBVIOUS
<1>2. tasks # <<>> /\ LookFits(look, fold) /\ Ends(look) /\ UNCHANGED <<outcome, late>>
  BY <1>1, LookedFits DEF Works
<1>3. Underway.do = "remove" => look.records = <<>>
  BY <1>1, <1>2, RemovesLook
<1> QED
  BY <1>2, <1>3, EndsKept

LEMMA CannotListKept ==
  ASSUME Inv, AllKept, CannotList
  PROVE  AllKept'
<1>1. PICK look : look = Unlisted
  OBVIOUS
<1>2. tasks # <<>> /\ LookFits(look, fold) /\ Ends(look) /\ UNCHANGED <<outcome, late>> /\ Hashed
  BY <1>1, LookedFits DEF CannotList, Hashed
<1>3. Underway.do = "remove" => look.records = <<>>
  BY <1>2, RemovesLook
<1> QED
  BY <1>2, <1>3, EndsKept

LEMMA AppendFailsKept ==
  ASSUME Inv, AllKept, AppendFails
  PROVE  AllKept'
<1>1. PICK look : look = Looked(Underway)
  OBVIOUS
<1>2. PICK work : work = Work(Underway, look)
  OBVIOUS
<1>3. PICK b2 : b2 = borrowed \cup Borrows(Underway, look, work)
  OBVIOUS
<1>4. tasks # <<>> /\ LookFits(look, fold) /\ Rejected(Underway) /\ UNCHANGED <<outcome, late>>
  BY <1>1, LookedFits DEF AppendFails
<1>5. Underway.do = "remove" => look.records = <<>>
  BY <1>1, <1>4, RemovesLook
<1>6. PICK k : k = Holds
  OBVIOUS
<1>7. Stages(fold, disk, look.records, work, b2, k) /\ Kept(fold, disk, call, borrowed, k)
  BY <1>2, <1>3, <1>4, <1>5, <1>6, StagesKept DEF AllKept
<1>8. Holds' = k
  BY <1>4, <1>6 DEF Holds
<1>9. \/ ListingFails
      \/ WorkFails
  BY DEF AppendFails
<1>10. Kept(fold', disk', call, borrowed', k)
  <2>1. CASE ListingFails
    <3>1. disk' \in {disk, disk \o look.records} /\ fold' = fold /\ borrowed' = borrowed
      BY <1>1, <2>1 DEF ListingFails
    <3> QED
      BY <1>7, <3>1 DEF Stages
  <2>2. CASE WorkFails
    <3>1. /\ fold' = fold \o look.records /\ borrowed' = b2
          /\ disk' \in {disk \o look.records, disk \o look.records \o work}
      BY <1>1, <1>2, <1>3, <2>2, Zenon DEF WorkFails
    <3> QED
      BY <1>7, <3>1 DEF Stages
  <2> QED
    BY <1>9, <2>1, <2>2
<1>11. AllOwe(call, fold', borrowed', k)
  BY <1>10 DEF Kept
<1>12. PICK f, b : f = fold' /\ b = borrowed'
  OBVIOUS
<1>13. AllOwe(call', f, b, k)
  BY <1>4, <1>11, <1>12, RejectedOwe
<1>14. Kept(f, disk', call', b, k)
  BY <1>10, <1>12, <1>13 DEF Kept
<1> QED
  BY <1>8, <1>12, <1>14 DEF AllKept

LEMMA RestartsKept ==
  ASSUME Inv, AllKept, Restarts
  PROVE  AllKept'
<1>1. PICK look, k, d : look = Looked(Underway) /\ k = Holds /\ d = disk'
  OBVIOUS
<1>2. fold' = d /\ borrowed' = borrowed /\ call' = [c \in Calls |-> NoCall] /\ UNCHANGED <<outcome, late>>
  BY <1>1 DEF Restarts
<1>3. MarksHold(disk, borrowed, k) /\ LogFits(disk) /\ LogFits(fold)
  BY <1>1 DEF AllKept, Kept, Inv, Logs
<1>4. d \in Seq(Records)
  BY <1>1, RestartsKeeps DEF Inv, Logs, LogFits
<1>5. MarksHold(d, borrowed, k)
  <2>1. CASE d = disk
    BY <1>3, <2>1
  <2>2. CASE d # disk
    <3>1. Hashed /\ d = disk \o look.records
      BY <1>1, <2>2 DEF Restarts
    <3>2. LookFits(look, fold)
      BY <1>1, <3>1, LookedFits DEF Hashed
    <3>3. PICK r : r = look.records
      OBVIOUS
    <3>4. Lays(r, fold) /\ Appends(d, disk, r)
      BY <3>1, <3>2, <3>3 DEF LookFits, Lays, Appends
    <3>5. fold \in Seq(Records) /\ disk \in Seq(Records)
      BY <1>3 DEF LogFits
    <3> QED
      BY <1>3, <3>4, <3>5, MarksLaid
  <2> QED
    BY <2>1, <2>2
<1>6. Behind(d, d)
  BY <1>4, ItselfBehind
<1>7. AllOwe(call', d, borrowed, k)
  <2>1. ~ToldCurrent(NoCall)
    BY DEF ToldCurrent, NoCall
  <2>2. \A c \in Calls : call'[c] = NoCall
    BY <1>2
  <2> QED
    BY <2>1, <2>2, UnplacedOwes DEF AllOwe
<1>8. Holds' = k
  BY <1>1, <1>2 DEF Holds
<1>9. Kept(d, d, call', borrowed, k)
  BY <1>5, <1>6, <1>7 DEF Kept
<1> QED
  BY <1>1, <1>2, <1>8, <1>9 DEF AllKept

-----------------------------------------------------------------------------
(* The other steps. *)

\* A delivery that was not told where it stands.
LEMMA DeliveryKept ==
  ASSUME Inv, AllKept, NEW c \in Calls,
         Starts(c) \/ ReadsPage(c) \/ ReadsInPart(c) \/ CallFails(c) \/ Extracts(c)
  PROVE  AllKept'
<1>1. PICK new, k : new = call' /\ k = Holds
  OBVIOUS
<1>2. CallsFit(call) /\ call \in [Calls -> CallType]
  BY DEF Inv, CallsFit
<1>3. Spares(new, call, c) /\ new[c].at \notin {"resolves", "marks"}
  <2>1. CASE Starts(c)
    <3>1. PICK d : call' = [call EXCEPT ![c] = [NoCall EXCEPT !.of = file, !.brings = d,
                     !.found = States[file][d],
                     !.how = IF d = Text THEN "text" ELSE "image",
                     !.at = IF d = Text THEN "extracts" ELSE "reads"]]
      BY <2>1 DEF Starts
    <3> QED
      BY <1>1, <1>2, <3>1 DEF Spares, NoCall
  <2>2. CASE ReadsPage(c)
    <3>1. \/ Moves(c, "extracts") /\ call[c].at = "reads"
          \/ Moves(c, "idle")
      BY <2>2 DEF ReadsPage
    <3> QED
      BY <1>1, <1>2, <3>1, MovesFits DEF Spares
  <2>3. CASE ReadsInPart(c)
    <3>1. \/ call' = [call EXCEPT ![c].at = "extracts", ![c].how = "partial", ![c].found = {}]
          \/ call' = [call EXCEPT ![c] = NoCall]
      BY <2>3 DEF ReadsInPart
    <3>2. CASE call' = [call EXCEPT ![c].at = "extracts", ![c].how = "partial", ![c].found = {}]
      BY <1>1, <1>2, <3>2 DEF Spares, CallType
    <3>3. CASE call' = [call EXCEPT ![c] = NoCall]
      BY <1>1, <1>2, <3>3 DEF Spares, NoCall
    <3> QED
      BY <3>1, <3>2, <3>3
  <2>4. CASE CallFails(c)
    <3>1. Moves(c, "idle")
      BY <2>4 DEF CallFails
    <3> QED
      BY <1>1, <1>2, <3>1, MovesFits DEF Spares
  <2>5. CASE Extracts(c)
    <3>1. Moves(c, "places") /\ call[c].at = "extracts"
      BY <2>5 DEF Extracts
    <3> QED
      BY <1>1, <1>2, <3>1, MovesFits DEF Spares
  <2> QED
    BY <2>1, <2>2, <2>3, <2>4, <2>5
<1>4. fold' = fold /\ disk' = disk /\ borrowed' = borrowed /\ UNCHANGED <<outcome, late>>
  BY DEF Starts, ReadsPage, ReadsInPart, CallFails, Extracts, store
<1>5. Holds' = k
  BY <1>1, <1>4 DEF Holds
<1>6. /\ Behind(fold, disk) /\ MarksHold(fold, borrowed, k) /\ MarksHold(disk, borrowed, k)
      /\ AllOwe(call, fold, borrowed, k)
  BY <1>1 DEF AllKept, Kept
<1>7. AllOwe(new, fold, borrowed, k)
  BY <1>3, <1>6, IdleOwes
<1>8. Kept(fold, disk, new, borrowed, k)
  BY <1>6, <1>7 DEF Kept
<1> QED
  BY <1>1, <1>4, <1>5, <1>8 DEF AllKept

LEMMA SameKept ==
  ASSUME AllKept, UNCHANGED <<fold, disk, call, borrowed, outcome, late>>
  PROVE  AllKept'
<1>1. Holds' = Holds
  BY DEF Holds
<1> QED
  BY <1>1 DEF AllKept

LEMMA StepKept ==
  ASSUME Inv, AllKept, [Next]_vars
  PROVE  AllKept'
<1>1. CASE UNCHANGED vars
  BY <1>1, SameKept DEF vars, store
<1>2. CASE Edits \/ Observes \/ Census \/ Hashes
  <2>1. UNCHANGED <<fold, disk, call, borrowed, outcome, late>>
    BY <1>2 DEF Edits, Observes, Census, Hashes, store
  <2> QED
    BY <2>1, SameKept
<1>3. CASE Next /\ ~(Edits \/ Observes \/ Census \/ Hashes)
  BY <1>3, CannotListKept, WorksKept, AppendFailsKept, RestartsKept, DeliveryKept, ResolvesKept,
     WritesKept DEF Next
<1> QED
  BY <1>1, <1>2, <1>3

\* What the log of a version read in full has marked is stated, and active.
LEMMA FullLogHolds ==
  ASSUME NEW k, Stated(First) \subseteq k[First], NEW b
  PROVE  MarksHold(FullLog(First), b, k)
<1>1. PICK v, log, e : v = First /\ log = FullLog(First) /\ e = Enumeration(First)
  OBVIOUS
<1>2. v \in Versions
  BY <1>1, OutcomeRevisionAssumption
<1>3. PICK u : Appends(log, e, u) /\ Units(u) /\ \A n \in 1..Len(u) : IsRead(u[n], v)
  BY <1>1, <1>2, FullLogIs
<1>4. /\ e \in Seq(Records) /\ Len(e) \in Nat \ {0} /\ e[1] = Listing(v)
      /\ \A n \in 2..Len(e) : \E p \in Settled(v) : e[n] = Unit(v, p, SettledAs(v, p), FALSE)
  BY <1>1, <1>2, EnumerationIs
<1>5. u \in Seq(Records)
  BY <1>3 DEF Units
<1>6. Appended(log, e, u)
  BY <1>3, <1>4, <1>5, AppendedIs
<1>7. SUFFICES ASSUME NEW w \in Versions, NEW n \in 1..Len(log), MarkedAt(log, w, n)
               PROVE  Vouches(log[n], k)
  BY <1>1 DEF MarksHold
<1>8. log[n].kind = "unit" /\ log[n].marked
  BY <1>7 DEF MarkedAt, UnitOf, Counts
<1>9. n \notin 1..Len(e)
  <2>1. SUFFICES ASSUME n \in 1..Len(e)
                 PROVE  FALSE
    OBVIOUS
  <2>2. log[n] = e[n]
    BY <1>6, <2>1 DEF Appended
  <2>3. CASE n = 1
    BY <1>4, <1>8, <2>2, <2>3, ListingKind
  <2>4. CASE n # 1
    <3>1. n \in 2..Len(e)
      BY <1>4, <2>1, <2>4
    <3>2. PICK p \in Settled(v) : e[n] = Unit(v, p, SettledAs(v, p), FALSE)
      BY <1>4, <3>1
    <3> QED
      BY <1>8, <2>2, <3>2 DEF Unit
  <2> QED
    BY <2>3, <2>4
<1>10. n - Len(e) \in 1..Len(u) /\ log[n] = u[n - Len(e)]
  BY <1>6, <1>9 DEF Appended
<1>11. PICK x : x = log[n]
  OBVIOUS
<1>12. IsRead(x, v)
  BY <1>3, <1>10, <1>11
<1>13. PICK p \in DOMAIN Route[v] :
         x = Unit(v, p, [how |-> ReadAs(v, p), bytes |-> v], ReadAs(v, p) # "nothing")
  BY <1>12, Zenon DEF IsRead
<1>14. PICK how : how = ReadAs(v, p)
  OBVIOUS
<1>15. PICK m \in BOOLEAN : m = (how # "nothing")
  OBVIOUS
<1>16. x = Unit(v, p, [how |-> how, bytes |-> v], m)
  BY <1>13, <1>14, <1>15, Zenon
<1>17. x.of = v /\ x.page = p /\ x.reading.how = how /\ x.marked = m
  BY <1>16 DEF Unit
<1>18. how # "nothing"
  BY <1>8, <1>11, <1>15, <1>17
<1>19. PICK d : d = Source(x)
  OBVIOUS
<1>20. d \in Deliveries(v)
  <2>1. CASE how = "text"
    <3>1. d = Text
      BY <1>17, <1>19, <2>1 DEF Source
    <3>2. Route[v][p] = "text"
      BY <1>2, <1>14, <2>1, ReadAsIs
    <3>3. p \in TextPages(v)
      BY <3>2 DEF TextPages
    <3> QED
      BY <3>1, <3>3 DEF Deliveries
  <2>2. CASE how = "image"
    <3>1. d = p
      BY <1>17, <1>19, <2>2 DEF Source
    <3>2. p \in ImagePages(v)
      BY <1>2, <1>14, <2>2, ReadAsIs
    <3> QED
      BY <3>1, <3>2 DEF Deliveries
  <2> QED
    BY <1>2, <1>14, <1>18, <2>1, <2>2, ReadAsIs
<1>21. States[v][d] \subseteq Stated(v)
  BY <1>20 DEF Stated
<1>22. States[v][d] \subseteq k[v]
  BY <1>1, <1>21
<1> QED
  BY <1>11, <1>17, <1>19, <1>22 DEF Vouches

LEMMA InitKept ==
  ASSUME Init
  PROVE  AllKept
<1>1. PICK k : k = Holds
  OBVIOUS
<1>2. disk \in Seq(Records) /\ fold = disk
  BY InitFits DEF Inv, Logs, LogFits, Init
<1>3. Behind(fold, disk)
  BY <1>2, ItselfBehind
<1>4. AllOwe(call, fold, borrowed, k)
  <2>1. ~ToldCurrent(NoCall)
    BY DEF ToldCurrent, NoCall
  <2>2. \A c \in Calls : call[c] = NoCall
    BY DEF Init
  <2> QED
    BY <2>1, <2>2, UnplacedOwes DEF AllOwe
<1>5. MarksHold(disk, borrowed, k)
  <2>1. CASE disk = <<>>
    BY <2>1 DEF MarksHold
  <2>2. CASE disk # <<>>
    <3>1. disk = FullLog(First)
      BY <2>2 DEF Init
    <3>2. First \in Versions
      BY OutcomeRevisionAssumption
    <3>3. Stated(First) \subseteq Outcomes
      <4>1. SUFFICES ASSUME NEW d \in Deliveries(First)
                     PROVE  States[First][d] \subseteq Outcomes
        BY DEF Stated
      <4>2. d \in {Text} \cup DOMAIN Route[First]
        BY DEF Deliveries, ImagePages
      <4> QED
        BY <3>2, <4>2, OutcomeRevisionAssumption
    <3>4. \A o \in Stated(First) : outcome[o] = [status |-> "active", stamp |-> First]
      BY <2>2, <3>3 DEF Init
    <3>5. k[First] = {o \in Outcomes : o \in late \/ outcome[o] = [status |-> "active", stamp |-> First]}
      BY <1>1, <3>2, Zenon DEF Holds
    <3>6. Stated(First) \subseteq k[First]
      BY <3>3, <3>4, <3>5
    <3> QED
      BY <3>1, <3>6, FullLogHolds
  <2> QED
    BY <2>1, <2>2
<1> QED
  BY <1>1, <1>2, <1>3, <1>4, <1>5 DEF AllKept, Kept

\* When the current version has been read in full, every outcome its deliveries vouch for is active
\* under it, whatever the edits, rereads, older deliveries, failures and restarts on the way
\* (retire-on-revision.ts, rules 2 to 6).
THEOREM FullKept == Spec => []FullIsKept
<1>1. Init => AllKept
  BY InitKept
<1>2. Inv /\ AllKept /\ [Next]_vars => AllKept'
  BY StepKept
<1>3. Inv /\ AllKept => FullIsKept
  BY KeptIsFull
<1> QED
  BY <1>1, <1>2, <1>3, InvHolds, PTL DEF Spec

-----------------------------------------------------------------------------
(* A version read in full, by the marks of its pages. *)

\* A mark is of a page of its version, read in full.
Fit(r) == r.kind = "unit" /\ r.marked => InFull(r.reading) /\ r.page \in DOMAIN Route[r.of]

\* What a listing's text layer settles follows it.
Laid(log) ==
  \A n \in 1..Len(log) : log[n].kind = "enumerated" =>
    \A p \in Settled(log[n].of) : \E m \in (n + 1)..Len(log) : IsOf(m, log, log[n].of, p)

Sound(log) == log \in Seq(Records) /\ Laid(log) /\ \A n \in 1..Len(log) : Fit(log[n])

\* `NoBlank`, of any log.
Clear(log, v) ==
  \A n, m \in 1..Len(log) :
    UnitOf(log, v, n) /\ UnitOf(log, v, m) /\ log[n].reading.how = "nothing" /\ log[m].page = log[n].page
      => log[n].page \in Settled(v) /\ log[m].reading.how = "nothing"

\* The record a page has at a moment is a mark that counts; nothing was ever read of a page.
MarkedBy(log, v, p, moment) ==
  \E n \in 1..Len(log) : n = Latest(log, v, p, moment) /\ MarkedAt(log, v, n)

NothingOf(log, v, p) == \A n \in 1..Len(log) : IsOf(n, log, v, p) => log[n].reading.how = "nothing"

Complete(log, v) == WellListed(log) /\ IsLast(log, v) /\ Clear(log, v) /\ ReadInFull(log, v)

LEMMA ThresholdOfLast ==
  ASSUME NEW log \in Seq(Records), NEW v \in Versions, NEW n \in 1..Len(log), log[n] = Listing(v),
         \A m \in (n + 1)..Len(log) : log[m].kind # "enumerated"
  PROVE  Threshold(log, v) \in Nat /\ Threshold(log, v) <= n
<1>1. PICK M : M = Max(Others(log, v))
  OBVIOUS
<1>2. M \in Others(log, v) /\ Len(log) \in Nat
  BY <1>1, ThresholdIs
<1>3. M = 0 \/ (M \in 1..Len(log) /\ log[M].kind = "enumerated" /\ log[M].of # v)
  BY <1>2, ListingsAre
<1>4. log[n].of = v
  BY ListingKind
<1>5. M < n
  BY <1>2, <1>3, <1>4
<1>6. n \in Own(log, v)
  BY <1>1, <1>5, ListingsAre DEF Own
<1>7. PICK T : T = Threshold(log, v)
  OBVIOUS
<1>8. T \in 0..Len(log) /\ T <= n
  <2>1. Own(log, v) # {}
    BY <1>6
  <2> QED
    BY <1>6, <1>7, <2>1, ThresholdIs
<1> QED
  BY <1>2, <1>7, <1>8

\* Each page the text layer settles has a record since the listing.
LEMMA LaidAfter ==
  ASSUME NEW log, Sound(log), NEW v \in Versions, IsLast(log, v), NEW p \in Settled(v)
  PROVE  Latest(log, v, p, Len(log)) > Threshold(log, v)
<1>1. log \in Seq(Records) /\ Len(log) \in Nat
  BY DEF Sound
<1>2. PICK n \in 1..Len(log) :
        log[n] = Listing(v) /\ \A m \in (n + 1)..Len(log) : log[m].kind # "enumerated"
  BY DEF IsLast
<1>3. PICK T : T = Threshold(log, v)
  OBVIOUS
<1>4. T \in Nat /\ T <= n
  BY <1>1, <1>2, <1>3, ThresholdOfLast
<1>5. log[n].kind = "enumerated" /\ log[n].of = v
  BY <1>2, ListingKind
<1>6. PICK m \in (n + 1)..Len(log) : IsOf(m, log, v, p)
  BY <1>5 DEF Sound, Laid
<1>7. PICK k : k = Latest(log, v, p, Len(log))
  OBVIOUS
<1>8. k \in Nat /\ m <= k
  BY <1>1, <1>6, <1>7, LatestIs DEF IsOf
<1> QED
  BY <1>3, <1>4, <1>6, <1>7, <1>8

\* The record a page needs nothing more by is its latest.
LEMMA NeedsLatest ==
  ASSUME NEW log \in Seq(Records), NEW v \in Versions, NEW p, NEW m \in Nat, NeedsNothing(log, v, p, m),
         NEW n, n = StandsAt(log, v, p, m)
  PROVE  n = Latest(log, v, p, m) /\ n \in 1..Len(log) /\ n <= m /\ NeededNothing(log, v, p, n)
<1>1. PICK T, k : T = Threshold(log, v) /\ k = Latest(log, v, p, m)
  OBVIOUS
<1>2. n > 0 /\ (log[n].reading.how = "nothing" \/ (InFull(log[n].reading) /\ Counts(log, v, n)))
  BY DEF NeedsNothing
<1>3. T \in Nat
  BY <1>1, ThresholdIs
<1>4. n = k \/ n = 0
  BY <1>1, <1>3, StandsIs
<1>5. k \in Nat /\ (k = 0 \/ (IsOf(k, log, v, p) /\ k <= m))
  BY <1>1, LatestIs
<1>6. n = k /\ IsOf(n, log, v, p) /\ n <= m
  BY <1>2, <1>4, <1>5
<1>7. Counts(log, v, n) => MarkedAt(log, v, n)
  BY <1>6 DEF IsOf, MarkedAt, UnitOf
<1> QED
  BY <1>1, <1>2, <1>6, <1>7 DEF NeededNothing, IsOf

\* When each page named needs nothing more: each is marked, or nothing but nothing was read of it.
LEMMA FullIs ==
  ASSUME NEW log, Sound(log), NEW v \in Versions, Clear(log, v), NEW m \in Nat, FullAt(log, v, m)
  PROVE  /\ Named(log, v) = DOMAIN Route[v]
         /\ \A p \in DOMAIN Route[v] :
              MarkedBy(log, v, p, m) \/ (p \in Settled(v) /\ NothingOf(log, v, p))
         /\ \E p \in DOMAIN Route[v] : MarkedBy(log, v, p, m)
<1>1. log \in Seq(Records)
  BY DEF Sound
<1>2. \A n : \A p : IsOf(n, log, v, p) => UnitOf(log, v, n) /\ log[n].page = p /\ n \in 1..Len(log)
  BY DEF IsOf, UnitOf
<1>3. ASSUME NEW p \in Named(log, v)
      PROVE  /\ p \in DOMAIN Route[v]
             /\ MarkedBy(log, v, p, m) \/ (p \in Settled(v) /\ NothingOf(log, v, p))
             /\ InFull(log[StandsAt(log, v, p, m)].reading) => MarkedBy(log, v, p, m)
  <2>1. PICK n : n = StandsAt(log, v, p, m)
    OBVIOUS
  <2>2. n = Latest(log, v, p, m) /\ n \in 1..Len(log) /\ NeededNothing(log, v, p, n)
    BY <1>1, <2>1, NeedsLatest DEF FullAt
  <2>3. UnitOf(log, v, n) /\ log[n].page = p
    BY <1>2, <2>2 DEF NeededNothing
  <2>4. CASE log[n].reading.how = "nothing"
    <3>1. p \in Settled(v) /\ \A k \in 1..Len(log) : UnitOf(log, v, k) /\ log[k].page = p => log[k].reading.how = "nothing"
      BY <2>2, <2>3, <2>4 DEF Clear
    <3>2. NothingOf(log, v, p)
      BY <1>2, <3>1 DEF NothingOf
    <3>3. p \in DOMAIN Route[v]
      BY <3>1, PagesAre
    <3>4. ~InFull(log[n].reading)
      BY <2>4 DEF InFull
    <3> QED
      BY <2>1, <3>1, <3>2, <3>3, <3>4
  <2>5. CASE log[n].reading.how # "nothing"
    <3>1. MarkedAt(log, v, n)
      BY <2>2, <2>5 DEF NeededNothing
    <3>2. Fit(log[n]) /\ log[n].kind = "unit" /\ log[n].marked /\ log[n].of = v
      BY <2>2, <3>1 DEF Sound, MarkedAt, Counts, UnitOf
    <3>3. p \in DOMAIN Route[v]
      BY <2>3, <3>2 DEF Fit
    <3>4. MarkedBy(log, v, p, m)
      BY <2>2, <3>1 DEF MarkedBy
    <3> QED
      BY <3>3, <3>4
  <2> QED
    BY <2>4, <2>5
<1>4. DOMAIN Route[v] \subseteq Named(log, v)
  BY DEF Named
<1>5. PICK p \in Named(log, v) : InFull(log[StandsAt(log, v, p, m)].reading)
  BY DEF FullAt
<1> QED
  BY <1>3, <1>4, <1>5

LEMMA FullWhen ==
  ASSUME NEW log, Sound(log), NEW v \in Versions, NEW m \in Nat, Named(log, v) \subseteq DOMAIN Route[v],
         \A p \in DOMAIN Route[v] :
           \/ MarkedBy(log, v, p, m)
           \/ NothingOf(log, v, p) /\ Latest(log, v, p, m) > Threshold(log, v),
         \E p \in DOMAIN Route[v] : MarkedBy(log, v, p, m)
  PROVE  FullAt(log, v, m)
<1>1. log \in Seq(Records)
  BY DEF Sound
<1>2. PICK T : T = Threshold(log, v)
  OBVIOUS
<1>3. T \in Nat
  BY <1>1, <1>2, ThresholdIs
<1>4. ASSUME NEW p, MarkedBy(log, v, p, m)
      PROVE  NeedsNothing(log, v, p, m) /\ InFull(log[StandsAt(log, v, p, m)].reading)
  <2>1. PICK n \in 1..Len(log) : n = Latest(log, v, p, m) /\ MarkedAt(log, v, n)
    BY <1>4 DEF MarkedBy
  <2>2. n > T /\ Counts(log, v, n) /\ log[n].kind = "unit" /\ log[n].marked
    BY <1>2, <2>1 DEF MarkedAt, Counts, UnitOf
  <2>3. n = StandsAt(log, v, p, m)
    BY <1>1, <1>2, <1>3, <2>1, <2>2, StandsIs
  <2>4. InFull(log[n].reading)
    BY <2>1, <2>2 DEF Sound, Fit
  <2>5. n > 0
    BY <2>1
  <2> QED
    BY <2>2, <2>3, <2>4, <2>5 DEF NeedsNothing
<1>5. ASSUME NEW p, NothingOf(log, v, p), Latest(log, v, p, m) > T
      PROVE  NeedsNothing(log, v, p, m)
  <2>1. PICK n : n = Latest(log, v, p, m)
    OBVIOUS
  <2>2. n \in Nat /\ (n = 0 \/ IsOf(n, log, v, p))
    BY <1>1, <2>1, LatestIs
  <2>3. n > 0 /\ IsOf(n, log, v, p) /\ n \in 1..Len(log)
    BY <1>3, <1>5, <2>1, <2>2 DEF IsOf
  <2>4. n = StandsAt(log, v, p, m)
    BY <1>1, <1>2, <1>3, <1>5, <2>1, StandsIs
  <2>5. log[n].reading.how = "nothing"
    BY <1>5, <2>3 DEF NothingOf
  <2> QED
    BY <2>3, <2>4, <2>5 DEF NeedsNothing
<1>6. \A p \in Named(log, v) : NeedsNothing(log, v, p, m)
  BY <1>2, <1>4, <1>5
<1>7. DOMAIN Route[v] \subseteq Named(log, v)
  BY DEF Named
<1> QED
  BY <1>4, <1>6, <1>7 DEF FullAt

\* What was full at a moment was so in the shorter log that holds that moment.
LEMMA FullBefore ==
  ASSUME NEW log \in Seq(Records), NEW new, Extends(new, log), NEW v \in Versions,
         Threshold(new, v) = Threshold(log, v), NEW m \in Nat, m <= Len(log), FullAt(new, v, m)
  PROVE  FullAt(log, v, m)
<1>1. new \in Seq(Records) /\ Len(log) \in Nat /\ Len(new) \in Nat /\ Len(log) <= Len(new)
      /\ \A i \in 1..Len(log) : new[i] = log[i] /\ i \in 1..Len(new)
  BY DEF Extends
<1>2. PICK T : T = Threshold(log, v)
  OBVIOUS
<1>3. ASSUME NEW p \in Named(new, v)
      PROVE  /\ NeedsNothing(log, v, p, m) /\ p \in Named(log, v)
             /\ InFull(new[StandsAt(new, v, p, m)].reading) => InFull(log[StandsAt(log, v, p, m)].reading)
  <2>1. PICK n : n = StandsAt(new, v, p, m)
    OBVIOUS
  <2>2. n = Latest(new, v, p, m) /\ n \in 1..Len(new) /\ n <= m /\ NeededNothing(new, v, p, n)
    BY <1>1, <2>1, NeedsLatest DEF FullAt
  <2>3. n = Latest(log, v, p, m) /\ n \in 1..Len(log) /\ new[n] = log[n]
    BY <1>1, <2>2, LatestStays
  <2>4. IsOf(n, log, v, p)
    BY <2>2, <2>3 DEF NeededNothing, IsOf
  <2>5. n <= T /\ n # Latest(log, v, p, Len(log)) => FALSE
    <3>1. SUFFICES ASSUME n <= T
                   PROVE  n = Latest(log, v, p, Len(log))
      OBVIOUS
    <3>2. PICK a, b, l, k : a = Latest(new, v, p, l) /\ l = Len(new) /\ b = Latest(log, v, p, k) /\ k = Len(log)
      OBVIOUS
    <3>3. n = a
      BY <1>2, <2>1, <2>2, <3>1, <3>2 DEF StandsAt
    <3>4. b \in Nat /\ (b = 0 \/ IsOf(b, log, v, p)) /\ n <= b
      BY <1>1, <2>3, <2>4, <3>2, LatestIs
    <3>5. IsOf(b, new, v, p) /\ b \in 1..Len(new) /\ b <= l
      BY <1>1, <2>3, <3>2, <3>4 DEF IsOf
    <3>6. b <= a
      BY <1>1, <3>2, <3>5, LatestIs
    <3> QED
      BY <2>3, <3>2, <3>3, <3>4, <3>6
  <2>6. n = StandsAt(log, v, p, m)
    BY <1>2, <2>3, <2>5, Zenon DEF StandsAt
  <2>7. log[n].reading.how = "nothing" \/ (InFull(log[n].reading) /\ Counts(log, v, n))
    BY <2>2, <2>3 DEF NeededNothing, MarkedAt, Counts
  <2>8. p \in Named(log, v)
    BY <2>4 DEF Named, IsOf, Of
  <2> QED
    BY <2>1, <2>3, <2>6, <2>7, <2>8 DEF NeedsNothing
<1>4. Named(log, v) \subseteq Named(new, v)
  BY <1>1 DEF Named, Of
<1>5. PICK p \in Named(new, v) : InFull(new[StandsAt(new, v, p, m)].reading)
  BY DEF FullAt
<1> QED
  BY <1>3, <1>4, <1>5 DEF FullAt

\* A version complete in the file, where each moment the file gained is one of the store's too.
LEMMA FullFollows ==
  ASSUME NEW f, NEW f2, NEW d, NEW d2, Sound(f), Sound(f2), Sound(d2), d \in Seq(Records),
         Extends(f2, f), Extends(d2, d), Inside(f2, d2),
         NEW v \in Versions, Complete(d2, v), IsLast(d, v), IsLast(f, v),
         Threshold(d2, v) = Threshold(d, v), Threshold(f2, v) = Threshold(f, v),
         Complete(d, v) => ReadInFull(f, v),
         \A m \in Len(d)..Len(d2) : \E k \in Len(f)..Len(f2) :
           \A p \in DOMAIN Route[v] : MarkedBy(d2, v, p, m) => MarkedBy(f2, v, p, k)
  PROVE  ReadInFull(f2, v)
<1>1. /\ f \in Seq(Records) /\ f2 \in Seq(Records) /\ d2 \in Seq(Records)
      /\ Len(f) \in Nat /\ Len(f2) \in Nat /\ Len(d) \in Nat /\ Len(d2) \in Nat
      /\ Len(f) <= Len(f2) /\ Len(d) <= Len(d2)
      /\ \A i \in 1..Len(f) : f2[i] = f[i] /\ i \in 1..Len(f2)
      /\ \A i \in 1..Len(d) : d2[i] = d[i] /\ i \in 1..Len(d2)
  BY DEF Sound, Extends
<1>2. PICK T : T = Threshold(f, v)
  OBVIOUS
<1>3. T \in 0..Len(f) /\ T = Threshold(f2, v) /\ Threshold(d2, v) \in 0..Len(d)
  BY <1>1, <1>2, ThresholdIs
<1>4. Clear(d2, v) /\ WellListed(d2)
  BY DEF Complete
<1>5. ASSUME NEW n \in 1..Len(f2), NEW m \in 1..Len(f2), UnitOf(f2, v, n), UnitOf(f2, v, m),
             f2[n].reading.how = "nothing", f2[m].page = f2[n].page
      PROVE  f2[n].page \in Settled(v) /\ f2[m].reading.how = "nothing"
  <2>1. PICK a \in 1..Len(d2) : d2[a] = f2[n]
    BY DEF Inside
  <2>2. PICK b \in 1..Len(d2) : d2[b] = f2[m]
    BY DEF Inside
  <2>3. UnitOf(d2, v, a) /\ UnitOf(d2, v, b)
    BY <1>5, <2>1, <2>2 DEF UnitOf
  <2> QED
    BY <1>4, <1>5, <2>1, <2>2, <2>3 DEF Clear
<1>6. Clear(f2, v) /\ Clear(f, v) /\ Clear(d, v)
  <2>1. Clear(f2, v)
    BY <1>5 DEF Clear
  <2>2. Clear(f, v)
    BY <1>1, <2>1 DEF Clear, UnitOf
  <2>3. Clear(d, v)
    BY <1>1, <1>4 DEF Clear, UnitOf
  <2> QED
    BY <2>1, <2>2, <2>3
<1>7. PICK m \in Threshold(d2, v)..Len(d2) : FullAt(d2, v, m)
  BY DEF Complete, ReadInFull
<1>8. m \in Nat
  BY <1>1, <1>3
<1>9. /\ Named(d2, v) = DOMAIN Route[v]
      /\ \A p \in DOMAIN Route[v] :
           MarkedBy(d2, v, p, m) \/ (p \in Settled(v) /\ NothingOf(d2, v, p))
      /\ \E p \in DOMAIN Route[v] : MarkedBy(d2, v, p, m)
  BY <1>4, <1>7, <1>8, FullIs
<1>10. Named(f2, v) = DOMAIN Route[v] /\ Named(f, v) = DOMAIN Route[v]
  <2>1. \A n \in 1..Len(f2) : UnitOf(f2, v, n) => f2[n].page \in DOMAIN Route[v]
    <3>1. SUFFICES ASSUME NEW n \in 1..Len(f2), UnitOf(f2, v, n)
                   PROVE  f2[n].page \in DOMAIN Route[v]
      OBVIOUS
    <3>2. PICK a \in 1..Len(d2) : d2[a] = f2[n]
      BY DEF Inside
    <3>3. d2[a].page \in Named(d2, v)
      BY <1>1, <3>1, <3>2 DEF UnitOf, Named, Of
    <3> QED
      BY <1>9, <3>2, <3>3
  <2>2. \A n \in 1..Len(f) : UnitOf(f, v, n) => f[n].page \in DOMAIN Route[v]
    BY <1>1, <2>1 DEF UnitOf
  <2>3. DOMAIN f = 1..Len(f) /\ DOMAIN f2 = 1..Len(f2)
    BY <1>1
  <2> QED
    BY <2>1, <2>2, <2>3 DEF Named, Of, UnitOf
<1>11. ASSUME NEW p \in Settled(v)
       PROVE  Latest(f, v, p, Len(f)) > T
  BY <1>2, LaidAfter
<1>12. CASE m <= Len(d)
  <2>1. FullAt(d, v, m)
    BY <1>7, <1>8, <1>12, FullBefore
  <2>2. ReadInFull(d, v)
    BY <1>3, <1>7, <1>12, <2>1 DEF ReadInFull
  <2>3. WellListed(d)
    BY <1>4, WellListedOnce
  <2>4. ReadInFull(f, v)
    BY <1>6, <2>2, <2>3 DEF Complete
  <2>5. PICK k \in T..Len(f) : FullAt(f, v, k)
    BY <1>2, <2>4 DEF ReadInFull
  <2>6. k \in Nat
    BY <1>1, <1>3
  <2>7. \A p \in DOMAIN Route[v] : MarkedBy(f, v, p, k) \/ p \in Settled(v)
    BY <1>6, <2>5, <2>6, FullIs
  <2>8. ASSUME NEW p \in DOMAIN Route[v]
        PROVE  Latest(f, v, p, Len(f)) > T
    <3>1. CASE p \in Settled(v)
      BY <1>11, <3>1
    <3>2. CASE MarkedBy(f, v, p, k)
      <4>1. PICK n \in 1..Len(f) : n = Latest(f, v, p, k) /\ MarkedAt(f, v, n)
        BY <3>2 DEF MarkedBy
      <4>2. n > T
        BY <1>2, <4>1 DEF MarkedAt, Counts
      <4>3. IsOf(n, f, v, p)
        BY <1>1, <2>6, <4>1, LatestIs
      <4>4. PICK l : l = Latest(f, v, p, Len(f))
        OBVIOUS
      <4>5. l \in Nat /\ n <= l
        BY <1>1, <4>1, <4>3, <4>4, LatestIs
      <4> QED
        BY <1>3, <4>1, <4>2, <4>4, <4>5
    <3> QED
      BY <2>7, <3>1, <3>2
  <2>9. SameMoment(f2, f, v)
    BY <1>2, <1>3, <1>10, <2>8 DEF SameMoment
  <2> QED
    BY <1>1, <2>4, <2>9, ReadInFullStays
<1>13. CASE m > Len(d)
  <2>1. m \in Len(d)..Len(d2)
    BY <1>1, <1>3, <1>7, <1>8, <1>13
  <2>2. PICK k \in Len(f)..Len(f2) :
          \A p \in DOMAIN Route[v] : MarkedBy(d2, v, p, m) => MarkedBy(f2, v, p, k)
    BY <2>1
  <2>3. k \in Nat /\ k \in T..Len(f2) /\ Len(f) <= k
    BY <1>1, <1>3
  <2>4. ASSUME NEW p \in Settled(v), NothingOf(d2, v, p)
        PROVE  NothingOf(f2, v, p) /\ Latest(f2, v, p, k) > T
    <3>1. ASSUME NEW n \in 1..Len(f2), IsOf(n, f2, v, p)
          PROVE  f2[n].reading.how = "nothing"
      <4>1. PICK a \in 1..Len(d2) : d2[a] = f2[n]
        BY DEF Inside
      <4>2. IsOf(a, d2, v, p)
        BY <3>1, <4>1 DEF IsOf
      <4> QED
        BY <2>4, <4>1, <4>2 DEF NothingOf
    <3>2. PICK a, b : a = Latest(f, v, p, Len(f)) /\ b = Latest(f2, v, p, k)
      OBVIOUS
    <3>3. a > T /\ a \in Nat /\ IsOf(a, f, v, p)
      <4>1. a > T
        BY <1>11, <3>2
      <4>2. a \in Nat /\ (a = 0 \/ IsOf(a, f, v, p))
        BY <1>1, <3>2, LatestIs
      <4> QED
        BY <1>3, <4>1, <4>2
    <3>4. IsOf(a, f2, v, p) /\ a \in 1..Len(f2) /\ a <= k
      BY <1>1, <2>3, <3>3 DEF IsOf
    <3>5. b \in Nat /\ a <= b
      BY <1>1, <2>3, <3>2, <3>4, LatestIs
    <3> QED
      BY <1>3, <3>1, <3>2, <3>3, <3>5 DEF NothingOf
  <2>5. FullAt(f2, v, k)
    BY <1>3, <1>9, <1>10, <2>2, <2>3, <2>4, FullWhen
  <2> QED
    BY <1>3, <2>3, <2>5 DEF ReadInFull
<1> QED
  BY <1>1, <1>8, <1>12, <1>13

-----------------------------------------------------------------------------
(* The marks of a log that goes on. *)

\* The latest record of a page is among those that were added, or is what it was.
LEMMA LatestJoined ==
  ASSUME NEW log \in Seq(Records), NEW r \in Seq(Records), NEW new, Appends(new, log, r), NEW v, NEW p,
         NEW j \in 0..Len(r), NEW i, i = Latest(r, v, p, j)
  PROVE  /\ i \in 0..Len(r) /\ i <= j
         /\ Latest(new, v, p, Len(log) + j) = IF i > 0 THEN Len(log) + i ELSE Latest(log, v, p, Len(log))
<1>a. Appended(new, log, r)
  BY AppendedIs
<1>1. /\ new \in Seq(Records) /\ Len(new) = Len(log) + Len(r)
      /\ Len(log) \in Nat /\ Len(r) \in Nat /\ Len(new) \in Nat /\ j \in Nat
      /\ \A k \in 1..Len(log) : new[k] = log[k]
      /\ \A k \in (Len(log) + 1)..Len(new) : k - Len(log) \in 1..Len(r) /\ new[k] = r[k - Len(log)]
  BY <1>a DEF Appended
<1>2. /\ i \in Nat /\ (i = 0 \/ (IsOf(i, r, v, p) /\ i <= j))
      /\ \A k \in 1..Len(r) : IsOf(k, r, v, p) /\ k <= j => k <= i
  BY <1>1, LatestIs
<1>3. i \in 0..Len(r) /\ i <= j
  BY <1>1, <1>2 DEF IsOf
<1>4. PICK m, e, a, b : m = Len(log) + j /\ e = Len(log) /\ a = Latest(new, v, p, m) /\ b = Latest(log, v, p, e)
  OBVIOUS
<1>5. /\ a \in Nat /\ (a = 0 \/ (IsOf(a, new, v, p) /\ a <= m))
      /\ \A k \in 1..Len(new) : IsOf(k, new, v, p) /\ k <= m => k <= a
  BY <1>1, <1>4, LatestIs
<1>6. /\ b \in Nat /\ (b = 0 \/ (IsOf(b, log, v, p) /\ b <= e))
      /\ \A k \in 1..Len(log) : IsOf(k, log, v, p) /\ k <= e => k <= b
  BY <1>1, <1>4, LatestIs
<1>7. \A k \in 1..Len(log) : IsOf(k, new, v, p) <=> IsOf(k, log, v, p)
  BY <1>1 DEF IsOf
<1>8. \A k \in (Len(log) + 1)..Len(new) : IsOf(k, new, v, p) <=> IsOf(k - Len(log), r, v, p)
  BY <1>1 DEF IsOf
<1>9. CASE i > 0
  <2>1. Len(log) + i \in (Len(log) + 1)..Len(new) /\ (Len(log) + i) - Len(log) = i
    BY <1>1, <1>3, <1>9
  <2>2. IsOf(Len(log) + i, new, v, p)
    BY <1>2, <1>8, <1>9, <2>1
  <2>3. Len(log) + i <= a
    BY <1>1, <1>3, <1>4, <1>5, <2>1, <2>2
  <2>4. a \in (Len(log) + 1)..Len(new) /\ a <= m /\ IsOf(a, new, v, p)
    <3>1. a \in Nat /\ a > Len(log) /\ a # 0
      BY <1>1, <1>2, <1>5, <1>9, <2>3
    <3>2. IsOf(a, new, v, p) /\ a <= m /\ a \in 1..Len(new)
      BY <1>5, <3>1 DEF IsOf
    <3> QED
      BY <1>1, <3>1, <3>2
  <2>5. a - Len(log) \in 1..Len(r) /\ a - Len(log) <= j /\ IsOf(a - Len(log), r, v, p)
    BY <1>1, <1>4, <1>8, <2>4
  <2>6. a - Len(log) <= i
    BY <1>2, <2>5
  <2>7. a = Len(log) + i
    BY <1>1, <1>2, <1>5, <2>3, <2>6
  <2> QED
    BY <1>3, <1>4, <1>9, <2>7
<1>10. CASE i = 0
  <2>1. ASSUME NEW k \in 1..Len(new), IsOf(k, new, v, p), k <= m
        PROVE  k \in 1..Len(log) /\ IsOf(k, log, v, p)
    <3>1. CASE k \in 1..Len(log)
      BY <1>7, <2>1, <3>1
    <3>2. CASE k \notin 1..Len(log)
      <4>1. k \in (Len(log) + 1)..Len(new)
        BY <1>1, <2>1, <3>2
      <4>2. k - Len(log) \in 1..Len(r) /\ k - Len(log) <= j /\ IsOf(k - Len(log), r, v, p)
        BY <1>1, <1>4, <1>8, <2>1, <4>1
      <4>3. k - Len(log) <= 0
        BY <1>2, <1>10, <4>2
      <4> QED
        BY <4>2, <4>3
    <3> QED
      BY <3>1, <3>2
  <2>2. a <= b
    <3>1. CASE a = 0
      BY <1>6, <3>1
    <3>2. CASE a # 0
      <4>1. a \in 1..Len(new) /\ IsOf(a, new, v, p) /\ a <= m
        BY <1>5, <3>2 DEF IsOf
      <4>2. a \in 1..Len(log) /\ IsOf(a, log, v, p) /\ a <= e
        BY <1>1, <1>4, <2>1, <4>1
      <4> QED
        BY <1>6, <4>2
    <3> QED
      BY <3>1, <3>2
  <2>3. b <= a
    <3>1. CASE b = 0
      BY <1>5, <3>1
    <3>2. CASE b # 0
      <4>1. b \in 1..Len(log) /\ IsOf(b, log, v, p)
        BY <1>6, <3>2 DEF IsOf
      <4>2. b \in 1..Len(new) /\ IsOf(b, new, v, p) /\ b <= m
        BY <1>1, <1>4, <1>7, <4>1
      <4> QED
        BY <1>5, <4>2
    <3> QED
      BY <3>1, <3>2
  <2>4. a = b
    BY <1>5, <1>6, <2>2, <2>3
  <2> QED
    BY <1>3, <1>4, <1>10, <2>4
<1> QED
  BY <1>2, <1>9, <1>10

\* A mark of a page, where records are added: one of those, or one there was.
LEMMA MarkedJoined ==
  ASSUME NEW log \in Seq(Records), NEW r \in Seq(Records), NEW new, Appends(new, log, r),
         NEW v \in Versions, Threshold(new, v) = Threshold(log, v), NEW p,
         NEW j \in 0..Len(r), NEW i, i = Latest(r, v, p, j)
  PROVE  /\ i > 0 => i \in 1..Len(r) /\ r[i].kind = "unit" /\ r[i].of = v /\ r[i].page = p
                     /\ (MarkedBy(new, v, p, Len(log) + j) <=> r[i].marked)
         /\ ~(i > 0) => (MarkedBy(new, v, p, Len(log) + j) <=> MarkedBy(log, v, p, Len(log)))
<1>a. Appended(new, log, r)
  BY AppendedIs
<1>1. /\ new \in Seq(Records) /\ Len(new) = Len(log) + Len(r)
      /\ Len(log) \in Nat /\ Len(r) \in Nat /\ Len(new) \in Nat /\ j \in Nat
      /\ \A k \in 1..Len(log) : new[k] = log[k]
      /\ \A k \in (Len(log) + 1)..Len(new) : k - Len(log) \in 1..Len(r) /\ new[k] = r[k - Len(log)]
  BY <1>a DEF Appended
<1>2. PICK a : a = Latest(new, v, p, Len(log) + j)
  OBVIOUS
<1>3. i \in 0..Len(r) /\ a = IF i > 0 THEN Len(log) + i ELSE Latest(log, v, p, Len(log))
  BY <1>2, LatestJoined
<1>4. PICK T : T = Threshold(log, v)
  OBVIOUS
<1>5. T \in 0..Len(log) /\ T = Threshold(new, v)
  BY <1>4, ThresholdIs
<1>6. ASSUME i > 0
      PROVE  i \in 1..Len(r) /\ r[i].kind = "unit" /\ r[i].of = v /\ r[i].page = p
             /\ (MarkedBy(new, v, p, Len(log) + j) <=> r[i].marked)
  <2>1. IsOf(i, r, v, p) /\ i \in 1..Len(r)
    BY <1>1, <1>3, <1>6, LatestIs
  <2>2. a = Len(log) + i /\ a \in (Len(log) + 1)..Len(new) /\ a - Len(log) = i /\ a \in 1..Len(new) /\ a > T
    BY <1>1, <1>3, <1>5, <1>6
  <2>3. new[a] = r[i]
    BY <1>1, <2>2
  <2>4. MarkedAt(new, v, a) <=> r[i].marked
    BY <1>5, <2>1, <2>2, <2>3 DEF MarkedAt, UnitOf, Counts, IsOf
  <2>5. MarkedBy(new, v, p, Len(log) + j) <=> MarkedAt(new, v, a)
    BY <1>2, <2>2 DEF MarkedBy
  <2> QED
    BY <2>1, <2>4, <2>5 DEF IsOf
<1>7. ASSUME ~(i > 0)
      PROVE  MarkedBy(new, v, p, Len(log) + j) <=> MarkedBy(log, v, p, Len(log))
  <2>1. PICK l : l = Len(log)
    OBVIOUS
  <2>2. a = Latest(log, v, p, l)
    BY <1>3, <1>7, <2>1
  <2>3. a \in Nat /\ (a = 0 \/ a \in 1..Len(log))
    BY <1>1, <2>1, <2>2, LatestIs DEF IsOf
  <2>4. a \in 1..Len(log) => (MarkedAt(new, v, a) <=> MarkedAt(log, v, a)) /\ a \in 1..Len(new)
    BY <1>1, <1>4, <1>5 DEF MarkedAt, UnitOf, Counts
  <2>5. MarkedBy(new, v, p, Len(log) + j) <=> a \in 1..Len(log) /\ MarkedAt(new, v, a)
    BY <1>1, <1>2, <2>3, <2>4 DEF MarkedBy
  <2>6. MarkedBy(log, v, p, l) <=> a \in 1..Len(log) /\ MarkedAt(log, v, a)
    BY <2>2, <2>3 DEF MarkedBy
  <2> QED
    BY <2>1, <2>4, <2>5, <2>6
<1> QED
  BY <1>6, <1>7

\* What both logs gain leaves each mark of the one a mark of the other.
LEMMA MarksBoth ==
  ASSUME NEW f \in Seq(Records), NEW d \in Seq(Records), NEW r \in Seq(Records),
         NEW f2, Appends(f2, f, r), NEW d2, Appends(d2, d, r), NEW v \in Versions,
         Threshold(f2, v) = Threshold(f, v), Threshold(d2, v) = Threshold(d, v), NEW p,
         MarkedBy(d, v, p, Len(d)) => MarkedBy(f, v, p, Len(f)), NEW j \in 0..Len(r)
  PROVE  MarkedBy(d2, v, p, Len(d) + j) => MarkedBy(f2, v, p, Len(f) + j)
<1>1. PICK i : i = Latest(r, v, p, j)
  OBVIOUS
<1>2. /\ i > 0 => (MarkedBy(d2, v, p, Len(d) + j) <=> r[i].marked)
      /\ ~(i > 0) => (MarkedBy(d2, v, p, Len(d) + j) <=> MarkedBy(d, v, p, Len(d)))
  BY <1>1, MarkedJoined
<1>3. /\ i > 0 => (MarkedBy(f2, v, p, Len(f) + j) <=> r[i].marked)
      /\ ~(i > 0) => (MarkedBy(f2, v, p, Len(f) + j) <=> MarkedBy(f, v, p, Len(f)))
  BY <1>1, MarkedJoined
<1> QED
  BY <1>2, <1>3

\* So does what only the file gains, when it marks nothing that is not marked in the store.
LEMMA MarksFile ==
  ASSUME NEW f \in Seq(Records), NEW d \in Seq(Records), NEW r \in Seq(Records),
         NEW d2, Appends(d2, d, r), NEW v \in Versions, Threshold(d2, v) = Threshold(d, v), NEW p,
         MarkedBy(d, v, p, Len(d)) => MarkedBy(f, v, p, Len(f)),
         \A i \in 1..Len(r) : r[i].kind = "unit" /\ r[i].of = v /\ r[i].marked
                                => MarkedBy(f, v, r[i].page, Len(f)),
         NEW j \in 0..Len(r)
  PROVE  MarkedBy(d2, v, p, Len(d) + j) => MarkedBy(f, v, p, Len(f))
<1>1. PICK i : i = Latest(r, v, p, j)
  OBVIOUS
<1>2. /\ i > 0 => i \in 1..Len(r) /\ r[i].kind = "unit" /\ r[i].of = v /\ r[i].page = p
                  /\ (MarkedBy(d2, v, p, Len(d) + j) <=> r[i].marked)
      /\ ~(i > 0) => (MarkedBy(d2, v, p, Len(d) + j) <=> MarkedBy(d, v, p, Len(d)))
  BY <1>1, MarkedJoined
<1> QED
  BY <1>2

\* Sound logs make a sound one.
LEMMA SoundJoined ==
  ASSUME NEW log, Sound(log), NEW r, Sound(r), NEW new, Appends(new, log, r)
  PROVE  Sound(new)
<1>1. log \in Seq(Records) /\ r \in Seq(Records)
  BY DEF Sound
<1>2. Appended(new, log, r)
  BY <1>1, AppendedIs
<1>3. /\ new \in Seq(Records) /\ Len(new) = Len(log) + Len(r)
      /\ Len(log) \in Nat /\ Len(r) \in Nat /\ Len(new) \in Nat
      /\ \A k \in 1..Len(log) : new[k] = log[k] /\ k \in 1..Len(new)
      /\ \A k \in (Len(log) + 1)..Len(new) : k - Len(log) \in 1..Len(r) /\ new[k] = r[k - Len(log)]
  BY <1>2 DEF Appended
<1>4. \A k \in 1..Len(r) : Len(log) + k \in (Len(log) + 1)..Len(new) /\ (Len(log) + k) - Len(log) = k
  BY <1>3
<1>5. \A k \in 1..Len(r) : Len(log) + k \in 1..Len(new) /\ new[Len(log) + k] = r[k]
  BY <1>3, <1>4
<1>6. \A n \in 1..Len(new) : n \in 1..Len(log) \/ n \in (Len(log) + 1)..Len(new)
  BY <1>3
<1>7. \A n \in 1..Len(new) : Fit(new[n])
  BY <1>3, <1>6 DEF Sound
<1>8. Laid(new)
  <2>1. SUFFICES ASSUME NEW n \in 1..Len(new), new[n].kind = "enumerated", NEW p \in Settled(new[n].of)
                 PROVE  \E m \in (n + 1)..Len(new) : IsOf(m, new, new[n].of, p)
    BY DEF Laid
  <2>2. CASE n \in 1..Len(log)
    <3>1. new[n] = log[n]
      BY <1>3, <2>2
    <3>2. PICK m \in (n + 1)..Len(log) : IsOf(m, log, log[n].of, p)
      BY <2>1, <2>2, <3>1 DEF Sound, Laid
    <3>3. m \in (n + 1)..Len(new) /\ m \in 1..Len(log)
      BY <1>3, <2>2
    <3>4. IsOf(m, new, new[n].of, p)
      BY <1>3, <3>1, <3>2, <3>3 DEF IsOf
    <3> QED
      BY <3>3, <3>4
  <2>3. CASE n \in (Len(log) + 1)..Len(new)
    <3>1. PICK k : k = n - Len(log)
      OBVIOUS
    <3>2. k \in 1..Len(r) /\ new[n] = r[k] /\ n = Len(log) + k
      BY <1>3, <2>3, <3>1
    <3>3. PICK m \in (k + 1)..Len(r) : IsOf(m, r, r[k].of, p)
      BY <2>1, <3>2 DEF Sound, Laid
    <3>4. m \in 1..Len(r) /\ Len(log) + m \in (n + 1)..Len(new)
      BY <1>3, <3>2
    <3>5. IsOf(Len(log) + m, new, new[n].of, p)
      BY <1>5, <3>2, <3>3, <3>4 DEF IsOf
    <3> QED
      BY <3>4, <3>5
  <2> QED
    BY <1>6, <2>2, <2>3
<1> QED
  BY <1>3, <1>7, <1>8 DEF Sound

LEMMA SoundUnlisted ==
  ASSUME NEW r, NoListing(r), \A n \in 1..Len(r) : Fit(r[n])
  PROVE  Sound(r)
BY DEF NoListing, Sound, Laid

LEMMA SoundListing ==
  ASSUME NEW v \in Versions
  PROVE  Sound(Enumeration(v))
<1> DEFINE S == Settled(v)
           K == Cardinality(Settled(v))
           u == [n \in 1..K |-> Unit(v, SetToSeq(S)[n], SettledAs(v, SetToSeq(S)[n]), FALSE)]
<1>1. IsFiniteSet(S)
  BY PagesAre
<1>2. K \in Nat /\ \A p \in S : \E n \in 1..K : SetToSeq(S)[n] = p
  BY <1>1, SetAsSeq
<1>3. Enumeration(v) = <<Listing(v)>> \o u
  BY DEF Enumeration
<1>4. \A n \in 1..K : u[n] = Unit(v, SetToSeq(S)[n], SettledAs(v, SetToSeq(S)[n]), FALSE)
  OBVIOUS
<1>5. DOMAIN u = 1..K
  OBVIOUS
<1>6. \A p \in S : \E n \in 1..K : u[n] = Unit(v, p, SettledAs(v, p), FALSE)
  BY <1>2, <1>4
<1>7. \E w : w = u
  OBVIOUS
<1>8. PICK w : w = u
  BY <1>7
<1>9. w = [n \in 1..K |-> w[n]]
  BY <1>8
<1>10. PICK e, a : e = Enumeration(v) /\ a = Listing(v)
  OBVIOUS
<1>11. e = <<a>> \o w
  BY <1>3, <1>8, <1>10
<1>12. \A p \in S : \E n \in 1..K : w[n] = Unit(v, p, SettledAs(v, p), FALSE)
  BY <1>6, <1>8
<1> HIDE DEF u, K, S
<1>13. /\ e \in Seq(Records) /\ Len(e) \in Nat \ {0} /\ e[1] = a
       /\ \A n \in 2..Len(e) : \E p \in Settled(v) : e[n] = Unit(v, p, SettledAs(v, p), FALSE)
  BY <1>10, EnumerationIs
<1>14. w \in Seq({w[n] : n \in 1..K}) /\ Len(w) = K
  BY <1>2, <1>9
<1>15. Len(e) = K + 1 /\ \A n \in 1..K : e[n + 1] = w[n]
  BY <1>2, <1>11, <1>14
<1>16. \A n \in 1..Len(e) : Fit(e[n])
  <2>1. SUFFICES ASSUME NEW n \in 1..Len(e)
                 PROVE  Fit(e[n])
    OBVIOUS
  <2>2. CASE n = 1
    <3>1. e[n].kind = "enumerated"
      BY <1>10, <1>13, <2>2, ListingKind
    <3> QED
      BY <3>1 DEF Fit
  <2>3. CASE n # 1
    <3>1. n \in 2..Len(e)
      BY <1>13, <2>3
    <3>2. PICK p \in Settled(v) : e[n] = Unit(v, p, SettledAs(v, p), FALSE)
      BY <1>13, <3>1
    <3>3. e[n].marked = FALSE
      BY <3>2 DEF Unit
    <3> QED
      BY <3>3 DEF Fit
  <2> QED
    BY <2>2, <2>3
<1>17. Laid(e)
  <2>1. SUFFICES ASSUME NEW n \in 1..Len(e), e[n].kind = "enumerated", NEW p \in Settled(e[n].of)
                 PROVE  \E m \in (n + 1)..Len(e) : IsOf(m, e, e[n].of, p)
    BY DEF Laid
  <2>2. n = 1
    <3>1. SUFFICES ASSUME n \in 2..Len(e)
                   PROVE  FALSE
      BY <1>13
    <3>2. PICK q \in Settled(v) : e[n] = Unit(v, q, SettledAs(v, q), FALSE)
      BY <1>13, <3>1
    <3>3. e[n].kind = "unit"
      BY <3>2 DEF Unit
    <3> QED
      BY <2>1, <3>3
  <2>3. e[n].of = v
    BY <1>10, <1>13, <2>2, ListingKind
  <2>4. PICK k \in 1..K : w[k] = Unit(v, p, SettledAs(v, p), FALSE)
    BY <1>12, <2>1, <2>3 DEF S
  <2>5. k + 1 \in (n + 1)..Len(e) /\ k + 1 \in 1..Len(e)
    BY <1>2, <1>15, <2>2
  <2>6. e[k + 1] = Unit(v, p, SettledAs(v, p), FALSE)
    BY <1>15, <2>4
  <2>7. IsOf(k + 1, e, v, p)
    BY <2>5, <2>6 DEF IsOf, Unit
  <2> QED
    BY <2>3, <2>5, <2>7
<1>18. Sound(e)
  BY <1>13, <1>16, <1>17 DEF Sound
<1> QED
  BY <1>10, <1>18

LEMMA SoundLaid ==
  ASSUME NEW f \in Seq(Records), NEW r, Lays(r, f)
  PROVE  Sound(r)
<1>1. Sound(<<>>)
  <2>1. NoListing(<<>>)
    BY DEF NoListing
  <2> QED
    BY <2>1, SoundUnlisted
<1>2. Sound(RetiringOf(f))
  <2>1. NoListing(RetiringOf(f)) /\ \A n \in 1..Len(RetiringOf(f)) : RetiringOf(f)[n].kind = "retired"
    BY RetiringOnly
  <2> QED
    BY <2>1, SoundUnlisted DEF Fit
<1>3. ASSUME NEW v \in Versions
      PROVE  Sound(RetiringOf(f) \o Enumeration(v))
  BY <1>2, SoundListing, SoundJoined DEF Appends
<1> QED
  BY <1>1, <1>2, <1>3 DEF Lays

\* A version listed last before and after has its marks count from where they did.
LEMMA LaidSame ==
  ASSUME NEW f \in Seq(Records), NEW log \in Seq(Records), NEW r, Lays(r, f),
         NEW new, Appends(new, log, r), NEW v \in Versions, IsLast(log, v), IsLast(new, v)
  PROVE  Threshold(new, v) = Threshold(log, v)
<1>1. NoListing(<<>>) /\ NoListing(RetiringOf(f))
  BY RetiringOnly DEF NoListing
<1>2. CASE r = <<>> \/ r = RetiringOf(f)
  BY <1>1, <1>2, ThresholdStays
<1>3. CASE \E w \in Versions : r = RetiringOf(f) \o Enumeration(w)
  <2>1. PICK w \in Versions : r = RetiringOf(f) \o Enumeration(w)
    BY <1>3
  <2>2. PICK q : q = RetiringOf(f)
    OBVIOUS
  <2>3. Lists(new, log, q, w)
    BY <2>1, <2>2 DEF Lists, Appends
  <2>4. v = w
    BY <1>1, <2>2, <2>3, LastListed
  <2> QED
    BY <1>1, <2>2, <2>3, <2>4, ThresholdListed
<1> QED
  BY <1>2, <1>3 DEF Lays

\* Only the version a look lists, or the one listed last before, is listed last after it.
LEMMA LaidLast ==
  ASSUME NEW f \in Seq(Records), NEW log \in Seq(Records), NEW other \in Seq(Records), NEW r, Lays(r, f),
         NEW new, Appends(new, log, r), NEW next, Appends(next, other, r), NEW v \in Versions,
         IsLast(log, v), IsLast(other, v), IsLast(new, v)
  PROVE  IsLast(next, v)
<1>1. NoListing(<<>>) /\ NoListing(RetiringOf(f))
  BY RetiringOnly DEF NoListing
<1>2. CASE r = <<>> \/ r = RetiringOf(f)
  BY <1>1, <1>2, LastStays
<1>3. CASE \E w \in Versions : r = RetiringOf(f) \o Enumeration(w)
  <2>1. PICK w \in Versions : r = RetiringOf(f) \o Enumeration(w)
    BY <1>3
  <2>2. PICK q : q = RetiringOf(f)
    OBVIOUS
  <2>3. Lists(new, log, q, w) /\ Lists(next, other, q, w)
    BY <2>1, <2>2 DEF Lists, Appends
  <2>4. v = w
    BY <1>1, <2>2, <2>3, LastListed
  <2> QED
    BY <1>1, <2>2, <2>3, <2>4, LastListed
<1> QED
  BY <1>2, <1>3 DEF Lays

-----------------------------------------------------------------------------
(* The file and the store, side by side. *)

HasMark(log, v) == IsLast(log, v) /\ \E n \in 1..Len(log) : MarkedAt(log, v, n)

\* Each mark of the file is one of the store, and what it has in full the store has.
Matches(f, d, v) ==
  /\ \A p \in DOMAIN Route[v] : MarkedBy(d, v, p, Len(d)) => MarkedBy(f, v, p, Len(f))
  /\ Complete(d, v) => ReadInFull(f, v)

\* A version the file has marks of, listed last, is so in the store, which has its marks if they
\* count for the outcomes of others.
Tracks(f, d, due) ==
  WellListed(d) =>
    \A v \in Versions : HasMark(d, v) => IsLast(f, v) /\ (v \in due => Matches(f, d, v))

\* The marks that were added were there before, but those of some versions.
Repeats(r, f, but) ==
  \A i \in 1..Len(r) : r[i].kind = "unit" /\ r[i].marked /\ r[i].of \notin but =>
    MarkedBy(f, r[i].of, r[i].page, Len(f))

LEMMA CompleteMarks ==
  ASSUME NEW log, Sound(log), NEW v \in Versions, Complete(log, v)
  PROVE  HasMark(log, v)
<1>1. PICK T : T = Threshold(log, v)
  OBVIOUS
<1>2. log \in Seq(Records) /\ Len(log) \in Nat
  BY DEF Sound
<1>3. T \in Nat
  BY <1>1, <1>2, ThresholdIs
<1>4. PICK m \in T..Len(log) : FullAt(log, v, m)
  BY <1>1 DEF Complete, ReadInFull
<1>5. m \in Nat
  BY <1>2, <1>3
<1>6. \E p \in DOMAIN Route[v] : MarkedBy(log, v, p, m)
  BY <1>4, <1>5, FullIs DEF Complete
<1> QED
  BY <1>6 DEF Complete, HasMark, MarkedBy

\* Where the file has no marks of a version there is nothing to match.
LEMMA TracksIs ==
  ASSUME NEW f, NEW d, Sound(d), NEW due, Tracks(f, d, due), WellListed(d), NEW v \in due, v \in Versions,
         IsLast(d, v)
  PROVE  Matches(f, d, v)
<1>1. CASE HasMark(d, v)
  BY <1>1 DEF Tracks
<1>2. CASE ~HasMark(d, v)
  <2>1. ~Complete(d, v)
    BY <1>2, CompleteMarks
  <2>2. \A p : ~MarkedBy(d, v, p, Len(d))
    BY <1>2 DEF HasMark, MarkedBy
  <2> QED
    BY <2>1, <2>2 DEF Matches
<1> QED
  BY <1>1, <1>2

LEMMA MatchesBoth ==
  ASSUME NEW f, Sound(f), NEW d, Sound(d), NEW r, Sound(r), NEW f2, Appends(f2, f, r),
         NEW d2, Appends(d2, d, r), Inside(f2, d2), NEW v \in Versions,
         IsLast(d, v), IsLast(f, v), Threshold(d2, v) = Threshold(d, v),
         Threshold(f2, v) = Threshold(f, v), Matches(f, d, v)
  PROVE  Matches(f2, d2, v)
<1>1. f \in Seq(Records) /\ d \in Seq(Records) /\ r \in Seq(Records)
  BY DEF Sound
<1>2. Sound(f2) /\ Sound(d2)
  BY SoundJoined
<1>3. Extends(f2, f) /\ Extends(d2, d)
  BY <1>1, ExtendsJoined DEF Appends
<1>4. Appended(f2, f, r) /\ Appended(d2, d, r)
  BY <1>1, AppendedIs
<1>5. /\ Len(f2) = Len(f) + Len(r) /\ Len(d2) = Len(d) + Len(r)
      /\ Len(f) \in Nat /\ Len(d) \in Nat /\ Len(r) \in Nat
  BY <1>4 DEF Appended
<1>6. ASSUME NEW p \in DOMAIN Route[v], NEW j \in 0..Len(r)
      PROVE  MarkedBy(d2, v, p, Len(d) + j) => MarkedBy(f2, v, p, Len(f) + j)
  <2>1. MarkedBy(d, v, p, Len(d)) => MarkedBy(f, v, p, Len(f))
    BY DEF Matches
  <2> QED
    BY <1>1, <2>1, MarksBoth
<1>7. \A p \in DOMAIN Route[v] : MarkedBy(d2, v, p, Len(d2)) => MarkedBy(f2, v, p, Len(f2))
  <2>1. Len(r) \in 0..Len(r)
    BY <1>5
  <2> QED
    BY <1>5, <1>6, <2>1
<1>8. ASSUME Complete(d2, v)
      PROVE  ReadInFull(f2, v)
  <2>1. ASSUME NEW m \in Len(d)..Len(d2)
        PROVE  \E k \in Len(f)..Len(f2) :
                 \A p \in DOMAIN Route[v] : MarkedBy(d2, v, p, m) => MarkedBy(f2, v, p, k)
    <3>1. PICK j : j = m - Len(d)
      OBVIOUS
    <3>2. j \in 0..Len(r) /\ m = Len(d) + j /\ Len(f) + j \in Len(f)..Len(f2)
      BY <1>5, <2>1, <3>1
    <3> QED
      BY <1>6, <3>2
  <2>2. Complete(d, v) => ReadInFull(f, v)
    BY DEF Matches
  <2> QED
    BY <1>1, <1>2, <1>3, <1>8, <2>1, <2>2, FullFollows
<1> QED
  BY <1>7, <1>8 DEF Matches

LEMMA MatchesFile ==
  ASSUME NEW f, Sound(f), NEW d, Sound(d), NEW r, Sound(r),
         NEW d2, Appends(d2, d, r), Inside(f, d2), NEW v \in Versions,
         IsLast(d, v), IsLast(f, v), Threshold(d2, v) = Threshold(d, v), Matches(f, d, v),
         \A i \in 1..Len(r) : r[i].kind = "unit" /\ r[i].of = v /\ r[i].marked
                                => MarkedBy(f, v, r[i].page, Len(f))
  PROVE  Matches(f, d2, v)
<1>1. f \in Seq(Records) /\ d \in Seq(Records) /\ r \in Seq(Records)
  BY DEF Sound
<1>2. Sound(d2)
  BY SoundJoined
<1>3. Extends(f, f) /\ Extends(d2, d)
  <2>1. Extends(d2, d)
    BY <1>1, ExtendsJoined DEF Appends
  <2>2. Extends(f, f)
    BY <1>1 DEF Extends
  <2> QED
    BY <2>1, <2>2
<1>4. Appended(d2, d, r)
  BY <1>1, AppendedIs
<1>5. /\ Len(d2) = Len(d) + Len(r)
      /\ Len(f) \in Nat /\ Len(d) \in Nat /\ Len(r) \in Nat
  BY <1>1, <1>4 DEF Appended
<1>6. ASSUME NEW p \in DOMAIN Route[v], NEW j \in 0..Len(r)
      PROVE  MarkedBy(d2, v, p, Len(d) + j) => MarkedBy(f, v, p, Len(f))
  <2>1. MarkedBy(d, v, p, Len(d)) => MarkedBy(f, v, p, Len(f))
    BY DEF Matches
  <2> QED
    BY <1>1, <2>1, MarksFile
<1>7. \A p \in DOMAIN Route[v] : MarkedBy(d2, v, p, Len(d2)) => MarkedBy(f, v, p, Len(f))
  <2>1. Len(r) \in 0..Len(r)
    BY <1>5
  <2> QED
    BY <1>5, <1>6, <2>1
<1>8. ASSUME Complete(d2, v)
      PROVE  ReadInFull(f, v)
  <2>1. ASSUME NEW m \in Len(d)..Len(d2)
        PROVE  \E k \in Len(f)..Len(f) :
                 \A p \in DOMAIN Route[v] : MarkedBy(d2, v, p, m) => MarkedBy(f, v, p, k)
    <3>1. PICK j : j = m - Len(d)
      OBVIOUS
    <3>2. j \in 0..Len(r) /\ m = Len(d) + j /\ Len(f) \in Len(f)..Len(f)
      BY <1>5, <2>1, <3>1
    <3> QED
      BY <1>6, <3>2
  <2>2. Complete(d, v) => ReadInFull(f, v)
    BY DEF Matches
  <2> QED
    BY <1>1, <1>2, <1>3, <1>8, <2>1, <2>2, FullFollows
<1> QED
  BY <1>7, <1>8 DEF Matches

\* A listing, or a retirement, that reached both, or only the file.
LEMMA TracksLaid ==
  ASSUME NEW f, Sound(f), NEW d, Sound(d), Behind(f, d), NEW due, Tracks(f, d, due),
         NEW r, Lays(r, f), NEW f2, Appends(f2, f, r), NEW d2, Appends(d2, d, r)
  PROVE  Tracks(f2, d2, due) /\ Tracks(f, d2, due)
<1>1. f \in Seq(Records) /\ d \in Seq(Records)
  BY DEF Sound
<1>2. Sound(r) /\ r \in Seq(Records)
  <2>1. Sound(r)
    BY <1>1, SoundLaid
  <2> QED
    BY <2>1 DEF Sound
<1>3. GoesOn(d2, d) /\ Unmarked(d2, d) /\ d2 \in Seq(Records)
  BY <1>1, LaysGoesOn
<1>4. Extends(d2, d)
  BY <1>3 DEF GoesOn
<1>5. Inside(f2, d2) /\ Inside(f, d2)
  BY <1>1, <1>2, InsideOn DEF Behind
<1>6. Appended(d2, d, r)
  BY <1>1, <1>2, AppendedIs
<1>7. SUFFICES ASSUME WellListed(d2), NEW v \in Versions, HasMark(d2, v)
               PROVE  /\ IsLast(f2, v) /\ (v \in due => Matches(f2, d2, v))
                      /\ IsLast(f, v) /\ (v \in due => Matches(f, d2, v))
  BY DEF Tracks
<1>8. PICK n \in 1..Len(d2) : MarkedAt(d2, v, n)
  BY <1>7 DEF HasMark
<1>9. IsLast(d2, v) /\ IsLast(d, v) /\ HasMark(d, v)
  <2>1. n \in 1..Len(d) /\ IsLast(d, v) /\ MarkedAt(d, v, n)
    BY <1>1, <1>3, <1>7, <1>8, MarkedOnce DEF HasMark
  <2> QED
    BY <1>7, <2>1 DEF HasMark
<1>10. WellListed(d)
  BY <1>1, <1>4, <1>7, WellListedOnce
<1>11. IsLast(f, v) /\ (v \in due => Matches(f, d, v))
  BY <1>9, <1>10 DEF Tracks
<1>12. IsLast(f2, v)
  BY <1>1, <1>9, <1>11, LaidLast
<1>13. Threshold(d2, v) = Threshold(d, v) /\ Threshold(f2, v) = Threshold(f, v)
  BY <1>1, <1>9, <1>11, <1>12, LaidSame
<1>14. ASSUME NEW i \in 1..Len(r), r[i].kind = "unit", r[i].marked
       PROVE  FALSE
  <2>1. PICK m : m = Len(d) + i
    OBVIOUS
  <2>2. m \in (Len(d) + 1)..Len(d2) /\ m - Len(d) = i
    BY <1>6, <2>1 DEF Appended
  <2>3. d2[m] = r[i]
    BY <1>6, <2>2 DEF Appended
  <2> QED
    BY <1>3, <1>14, <2>2, <2>3 DEF Unmarked
<1>15. v \in due => Matches(f2, d2, v)
  BY <1>2, <1>5, <1>9, <1>11, <1>13, MatchesBoth
<1>16. v \in due => Matches(f, d2, v)
  BY <1>2, <1>5, <1>9, <1>11, <1>13, <1>14, MatchesFile
<1> QED
  BY <1>11, <1>12, <1>15, <1>16

\* Readings and marks of the version the store has live, that reached both, or only the file.
LEMMA TracksTold ==
  ASSUME NEW f, Sound(f), NEW d, Sound(d), Behind(f, d), NEW due, Tracks(f, d, due),
         NEW u, UnitsOf(u, Live(f)), Sound(u), NEW but, Repeats(u, f, but),
         NEW f2, Appends(f2, f, u), NEW d2, Appends(d2, d, u)
  PROVE  Tracks(f2, d2, due) /\ Tracks(f, d2, due \ but)
<1>1. f \in Seq(Records) /\ d \in Seq(Records)
  BY DEF Sound
<1>2. NoListing(u) /\ u \in Seq(Records) /\ \A i \in 1..Len(u) : u[i].of = Live(f)
  BY UnitsListNothing DEF UnitsOf
<1>3. Inside(f2, d2) /\ Inside(f, d2)
  BY <1>1, <1>2, InsideOn DEF Behind
<1>4. Extends(d2, d)
  BY <1>1, <1>2, ExtendsJoined DEF Appends
<1>5. SUFFICES ASSUME WellListed(d2), NEW v \in Versions, HasMark(d2, v)
               PROVE  /\ IsLast(f2, v) /\ (v \in due => Matches(f2, d2, v))
                      /\ IsLast(f, v) /\ (v \in due \ but => Matches(f, d2, v))
  BY DEF Tracks
<1>6. IsLast(d2, v) /\ IsLast(d, v)
  BY <1>1, <1>2, <1>5, LastStays DEF HasMark
<1>7. WellListed(d)
  BY <1>1, <1>4, <1>5, WellListedOnce
<1>8. WellListed(f)
  BY <1>7 DEF Behind
<1>9. IsLast(f, v)
  <2>1. PICK n \in 1..Len(d2) : MarkedAt(d2, v, n)
    BY <1>5 DEF HasMark
  <2>2. v = Live(f) \/ HasMark(d, v)
    <3>1. v = Live(f) \/ (IsLast(d, v) /\ n \in 1..Len(d) /\ MarkedAt(d, v, n))
      BY <1>1, <1>6, <2>1, UnitsLead
    <3> QED
      BY <3>1 DEF HasMark
  <2>3. CASE v = Live(f)
    <3>1. Live(f) # None
      BY <2>3, PagesAre
    <3> QED
      BY <1>1, <1>8, <2>3, <3>1, LiveIsLast
  <2>4. CASE HasMark(d, v)
    BY <1>7, <2>4 DEF Tracks
  <2> QED
    BY <2>2, <2>3, <2>4
<1>10. IsLast(f2, v)
  BY <1>1, <1>2, <1>9, LastStays
<1>11. Threshold(d2, v) = Threshold(d, v) /\ Threshold(f2, v) = Threshold(f, v)
  BY <1>1, <1>2, ThresholdStays
<1>12. v \in due => Matches(f, d, v)
  BY <1>6, <1>7, TracksIs
<1>13. v \in due => Matches(f2, d2, v)
  BY <1>3, <1>6, <1>9, <1>11, <1>12, MatchesBoth
<1>14. ASSUME v \in due \ but
       PROVE  Matches(f, d2, v)
  <2>1. \A i \in 1..Len(u) : u[i].kind = "unit" /\ u[i].of = v /\ u[i].marked
                               => MarkedBy(f, v, u[i].page, Len(f))
    BY <1>14 DEF Repeats
  <2> QED
    BY <1>3, <1>6, <1>9, <1>11, <1>12, <1>14, <2>1, MatchesFile
<1> QED
  BY <1>9, <1>10, <1>13, <1>14

\* What is complete was so before, where nothing new was marked.
LEMMA CompleteOnce ==
  ASSUME NEW log, Sound(log), NEW r, Sound(r), NEW new, Appends(new, log, r), NEW v \in Versions,
         Complete(new, v), IsLast(log, v), Threshold(new, v) = Threshold(log, v),
         \A i \in 1..Len(r) : r[i].kind = "unit" /\ r[i].of = v /\ r[i].marked
                                => MarkedBy(log, v, r[i].page, Len(log))
  PROVE  Complete(log, v)
<1>1. log \in Seq(Records) /\ r \in Seq(Records)
  BY DEF Sound
<1>2. Extends(new, log)
  BY <1>1, ExtendsJoined DEF Appends
<1>3. Matches(log, log, v)
  BY DEF Matches, Complete
<1>4. Inside(log, new)
  BY <1>2 DEF Inside, Extends
<1>5. Matches(log, new, v)
  BY <1>3, <1>4, MatchesFile
<1>6. ReadInFull(log, v)
  BY <1>5 DEF Matches
<1>7. WellListed(log)
  BY <1>1, <1>2, WellListedOnce DEF Complete
<1>8. Clear(log, v)
  <2>1. \A i \in 1..Len(log) : new[i] = log[i] /\ i \in 1..Len(new)
    BY <1>1, <1>2 DEF Extends
  <2>2. Clear(new, v)
    BY DEF Complete
  <2> QED
    BY <2>1, <2>2 DEF Clear, UnitOf
<1> QED
  BY <1>6, <1>7, <1>8 DEF Complete

LEMMA CompleteLaid ==
  ASSUME NEW f, f \in Seq(Records), NEW log, Sound(log), NEW r, Lays(r, f), NEW new, Appends(new, log, r),
         NEW v \in Versions, Complete(new, v)
  PROVE  Complete(log, v)
<1>1. log \in Seq(Records)
  BY DEF Sound
<1>2. Sound(r) /\ r \in Seq(Records)
  <2>1. Sound(r)
    BY SoundLaid
  <2> QED
    BY <2>1 DEF Sound
<1>3. Sound(new)
  BY <1>2, SoundJoined
<1>4. GoesOn(new, log) /\ Unmarked(new, log)
  BY <1>1, LaysGoesOn
<1>5. HasMark(new, v)
  BY <1>3, CompleteMarks
<1>6. IsLast(new, v) /\ IsLast(log, v)
  <2>1. PICK n \in 1..Len(new) : MarkedAt(new, v, n)
    BY <1>5 DEF HasMark
  <2> QED
    BY <1>1, <1>4, <1>5, <2>1, MarkedOnce DEF HasMark
<1>7. Threshold(new, v) = Threshold(log, v)
  BY <1>1, <1>6, LaidSame
<1>8. Appended(new, log, r)
  BY <1>1, <1>2, AppendedIs
<1>9. ASSUME NEW i \in 1..Len(r), r[i].kind = "unit", r[i].marked
      PROVE  FALSE
  <2>1. PICK m : m = Len(log) + i
    OBVIOUS
  <2>2. m \in (Len(log) + 1)..Len(new) /\ m - Len(log) = i
    BY <1>8, <2>1 DEF Appended
  <2>3. new[m] = r[i]
    BY <1>8, <2>2 DEF Appended
  <2> QED
    BY <1>4, <1>9, <2>2, <2>3 DEF Unmarked
<1> QED
  BY <1>2, <1>6, <1>7, <1>9, CompleteOnce

LEMMA CompleteTold ==
  ASSUME NEW log, Sound(log), NEW u, NoListing(u), Sound(u), NEW but, Repeats(u, log, but),
         NEW new, Appends(new, log, u), NEW v \in Versions, v \notin but, Complete(new, v)
  PROVE  Complete(log, v)
<1>1. log \in Seq(Records)
  BY DEF Sound
<1>2. IsLast(log, v) /\ Threshold(new, v) = Threshold(log, v)
  BY <1>1, LastStays, ThresholdStays DEF Complete
<1>3. \A i \in 1..Len(u) : u[i].kind = "unit" /\ u[i].of = v /\ u[i].marked
                             => MarkedBy(log, v, u[i].page, Len(log))
  BY DEF Repeats
<1> QED
  BY <1>2, <1>3, CompleteOnce

Traced(f, d, due) == Sound(f) /\ Sound(d) /\ Tracks(f, d, due)

LEMMA TracedLess ==
  ASSUME NEW f, NEW d, NEW due, Traced(f, d, due), NEW less, less \subseteq due
  PROVE  Traced(f, d, less)
BY DEF Traced, Tracks

LEMMA TracedItself ==
  ASSUME NEW f, Sound(f), NEW due
  PROVE  Traced(f, f, due)
BY DEF Traced, Tracks, HasMark, Matches, Complete

\* What the file has in full the store has.
LEMMA CompleteBehind ==
  ASSUME NEW f, NEW d, NEW due, Traced(f, d, due), Behind(f, d), NEW v \in due, v \in Versions, Complete(d, v)
  PROVE  Complete(f, v)
<1>1. WellListed(d) /\ IsLast(d, v) /\ Clear(d, v)
  BY DEF Complete
<1>2. WellListed(f) /\ Inside(f, d)
  BY <1>1 DEF Behind
<1>3. HasMark(d, v)
  BY CompleteMarks DEF Traced
<1>4. IsLast(f, v) /\ Matches(f, d, v)
  BY <1>1, <1>3 DEF Traced, Tracks
<1>5. ReadInFull(f, v)
  BY <1>4 DEF Matches
<1>6. Clear(f, v)
  <2>1. SUFFICES ASSUME NEW n \in 1..Len(f), NEW m \in 1..Len(f), UnitOf(f, v, n), UnitOf(f, v, m),
                        f[n].reading.how = "nothing", f[m].page = f[n].page
                 PROVE  f[n].page \in Settled(v) /\ f[m].reading.how = "nothing"
    BY DEF Clear
  <2>2. PICK a \in 1..Len(d) : d[a] = f[n]
    BY <1>2 DEF Inside
  <2>3. PICK b \in 1..Len(d) : d[b] = f[m]
    BY <1>2 DEF Inside
  <2>4. UnitOf(d, v, a) /\ UnitOf(d, v, b)
    BY <2>1, <2>2, <2>3 DEF UnitOf
  <2> QED
    BY <1>1, <2>1, <2>2, <2>3, <2>4 DEF Clear
<1> QED
  BY <1>2, <1>4, <1>5, <1>6 DEF Complete

LEMMA KnownGrows ==
  ASSUME NEW f \in Seq(Records), NEW d \in Seq(Records), Inside(f, d)
  PROVE  Known(f) \subseteq Known(d)
<1>1. SUFFICES ASSUME NEW v \in Versions, Listings(f, v) # {}
               PROVE  Listings(d, v) # {}
  BY DEF Known
<1>2. PICK n \in 1..Len(f) : f[n] = Listing(v)
  BY <1>1, ListingsAre
<1>3. PICK m \in 1..Len(d) : d[m] = f[n]
  BY DEF Inside
<1> QED
  BY <1>2, <1>3, ListingsAre

LEMMA LiveKnown ==
  ASSUME NEW f \in Seq(Records), Live(f) # None
  PROVE  Live(f) \in Known(f)
<1>1. PICK v : v = Live(f)
  OBVIOUS
<1>2. v \in Versions /\ \E n \in LiveListings(f) : f[n].of = v
  BY <1>1, LiveIs
<1>3. PICK n \in LiveListings(f) : f[n].of = v
  BY <1>2
<1>4. n \in Listings(f, v)
  BY <1>3 DEF LiveListings, Listings, Of
<1> QED
  BY <1>1, <1>2, <1>4 DEF Known

-----------------------------------------------------------------------------
(* What the task under way writes. *)

\* A mark repeated for the same reading.
LEMMA ReadingRepeats ==
  ASSUME NEW f, Sound(f), NEW t, NEW r, Live(f) \in Versions, IsReading(r, t, f)
  PROVE  Fit(r) /\ r.of = Live(f) /\ (r.marked => MarkedBy(f, r.of, r.page, Len(f)))
<1>a. f \in Seq(Records)
  BY DEF Sound
<1>1. PICK v \in Versions : v = Live(f)
  OBVIOUS
<1>2. PICK reading : reading = [how |-> t.how, bytes |-> t.from]
  OBVIOUS
<1>3. PICK m \in BOOLEAN :
        /\ r = Unit(v, t.page, reading, m)
        /\ m => Entry(f, v, t.page).reading = {reading} /\ Entry(f, v, t.page).marked
  BY <1>1, <1>2, Zenon DEF IsReading
<1>4. /\ r.of = v /\ r.page = t.page /\ r.reading = reading /\ r.marked = m
  BY <1>3 DEF Unit
<1>5. ASSUME r.marked
      PROVE  /\ MarkedBy(f, v, t.page, Len(f)) /\ InFull(reading) /\ t.page \in DOMAIN Route[v]
  <2>1. Entry(f, v, t.page).reading = {reading} /\ Entry(f, v, t.page).marked
    BY <1>3, <1>4, <1>5
  <2>2. PICK e : e = Entry(f, v, t.page)
    OBVIOUS
  <2>3. PICK n : n = Latest(f, v, t.page, Len(f))
    OBVIOUS
  <2>4. EntryOf(e, n, f, v, t.page)
    BY <1>a, <2>1, <2>2, <2>3, EntryIs
  <2>5. IsOf(n, f, v, t.page) /\ e.reading = {f[n].reading} /\ Counts(f, v, n)
    BY <2>1, <2>2, <2>4 DEF EntryOf
  <2>6. /\ n \in 1..Len(f) /\ f[n].page = t.page /\ f[n].of = v /\ f[n].reading = reading
        /\ f[n].kind = "unit" /\ f[n].marked
    BY <2>1, <2>2, <2>5 DEF IsOf, Counts
  <2>7. MarkedAt(f, v, n)
    BY <2>5, <2>6 DEF MarkedAt, UnitOf
  <2>8. Fit(f[n])
    BY <2>6 DEF Sound
  <2> QED
    BY <2>3, <2>6, <2>7, <2>8 DEF MarkedBy, Fit
<1>6. Fit(r)
  BY <1>4, <1>5 DEF Fit
<1> QED
  BY <1>1, <1>4, <1>5, <1>6

LEMMA CarriedPages ==
  ASSUME NEW c, CallFits(call[c]), call[c].at = "marks"
  PROVE  Carried(c) \subseteq DOMAIN Route[call[c].of]
<1>1. call[c].brings \in {Text} \cup DOMAIN Route[call[c].of]
  BY DEF CallFits
<1> QED
  BY <1>1 DEF Carried, TextPages

LEMMA WorkRepeats ==
  ASSUME Inv, tasks # <<>>, NEW look, LookFits(look, fold), Underway.do # "remove",
         NEW f, Appends(f, fold, look.records), Sound(f), NEW work, work = Work(Underway, look)
  PROVE  Sound(work) /\ Repeats(work, f, PassOf(Underway))
<1>1. PICK t : t = Underway
  OBVIOUS
<1>2. f = fold \o look.records /\ f \in Seq(Records)
  BY DEF Appends, Sound
<1>3. Units(work) /\ NoListing(work)
  <2>1. Units(work)
    BY WorkFitsIn
  <2> QED
    BY <2>1 DEF Units, NoListing
<1>4. SUFFICES ASSUME NEW i \in 1..Len(work)
               PROVE  /\ Fit(work[i])
                      /\ work[i].marked /\ work[i].of \notin PassOf(t)
                           => MarkedBy(f, work[i].of, work[i].page, Len(f))
  <2>1. \A i \in 1..Len(work) : Fit(work[i])
    BY <1>4
  <2>2. Sound(work)
    BY <1>3, <2>1, SoundUnlisted
  <2>3. Repeats(work, f, PassOf(Underway))
    BY <1>1, <1>4 DEF Repeats
  <2> QED
    BY <2>2, <2>3
<1>5. CASE t.do = "reading"
  <2>1. work = ReadingRecords(t, f)
    BY <1>1, <1>2, <1>5, Zenon DEF Work
  <2>2. work # <<>>
    BY <1>4
  <2>3. PICK x : Live(f) # None /\ IsReading(x, t, f) /\ work = <<x>>
    BY <2>1, <2>2, ReadingIs
  <2>4. Live(f) \in Versions
    BY <1>2, <2>3, LiveIs
  <2>5. Fit(x) /\ (x.marked => MarkedBy(f, x.of, x.page, Len(f)))
    BY <2>3, <2>4, ReadingRepeats
  <2>6. work[i] = x
    BY <1>4, <2>3
  <2> QED
    BY <2>5, <2>6
<1>6. CASE t.do = "mark"
  <2>1. PICK c, v : c = t.call /\ v = Current(t, look)
    OBVIOUS
  <2>2. PICK w : w = call[c]
    OBVIOUS
  <2>3. work = MarkRecords(c, f, v)
    BY <1>1, <1>2, <1>6, <2>1, Zenon DEF Work
  <2>4. c \in Calls /\ CallFits(w) /\ w.at = "marks" /\ w.of \in Versions
    BY <1>1, <1>6, <2>1, <2>2, Awaited, AwaitsIs DEF Asking
  <2>5. v \in Versions \cup {None}
    BY <2>1, CurrentIs
  <2>6. work # <<>>
    BY <1>4
  <2>7. v = w.of /\ IsMark(work[i], c, f, v)
    BY <1>2, <1>4, <2>2, <2>3, <2>4, <2>5, <2>6, MarksAre
  <2>8. PICK x : x = work[i]
    OBVIOUS
  <2>9. PICK p \in Carried(c), n \in 1..Len(f) :
          InFull(f[n].reading) /\ x = Unit(v, p, f[n].reading, TRUE)
    BY <2>7, <2>8, Zenon DEF IsMark
  <2>10. PICK reading : reading = f[n].reading
    OBVIOUS
  <2>11. x.of = v /\ x.page = p /\ x.reading = reading
    BY <2>9, <2>10 DEF Unit
  <2>12. p \in DOMAIN Route[v]
    BY <2>2, <2>4, <2>7, <2>9, CarriedPages
  <2>13. Fit(x)
    BY <2>9, <2>10, <2>11, <2>12 DEF Fit
  <2>14. x.of \in PassOf(t)
    BY <1>6, <2>1, <2>2, <2>7, <2>11 DEF PassOf
  <2> QED
    BY <2>8, <2>13, <2>14
<1>7. CASE t.do \notin {"reading", "mark", "remove"}
  <2>1. work = <<>>
    BY <1>1, <1>7 DEF Work
  <2> QED
    BY <1>4, <2>1
<1> QED
  BY <1>1, <1>5, <1>6, <1>7

-----------------------------------------------------------------------------
(* What the appends of a task leave. *)

SweptStages(f, d, r, work, due, but) ==
  /\ Traced(f, d \o r, due) /\ Traced(f \o r, d \o r, due)
  /\ Traced(f \o r \o work, d \o r \o work, due) /\ Traced(f \o r, d \o r \o work, due \ but)
  /\ \A v \in Versions : Complete(f \o r, v) => Complete(f, v)
  /\ \A v \in Versions \ but : Complete(f \o r \o work, v) => Complete(f, v)

LEMMA StagesSwept ==
  ASSUME Inv, AllKept, tasks # <<>>, NEW look, LookFits(look, fold),
         Underway.do = "remove" => look.records = <<>>,
         NEW work, work = Work(Underway, look), NEW due, Traced(fold, disk, due)
  PROVE  SweptStages(fold, disk, look.records, work, due, PassOf(Underway))
<1>1. PICK f, d, r, but : f = fold /\ d = disk /\ r = look.records /\ but = PassOf(Underway)
  OBVIOUS
<1>2. PICK f1, d1 : f1 = f \o r /\ d1 = d \o r
  OBVIOUS
<1>3. PICK f2, d2 : f2 = f1 \o work /\ d2 = d1 \o work
  OBVIOUS
<1>4. Appends(f1, f, r) /\ Appends(d1, d, r) /\ Appends(f2, f1, work) /\ Appends(d2, d1, work)
  BY <1>2, <1>3 DEF Appends
<1>5. Sound(f) /\ Sound(d) /\ Tracks(f, d, due) /\ Lays(r, f)
  BY <1>1 DEF Traced, LookFits, Lays
<1>6. f \in Seq(Records) /\ d \in Seq(Records)
  BY <1>5 DEF Sound
<1>7. Behind(f, d) /\ Behind(f1, d1)
  <2>1. Behind(f, d)
    BY <1>1 DEF AllKept, Kept
  <2>2. PICK k, b2 : k = Holds /\ b2 = borrowed \cup Borrows(Underway, look, work)
    OBVIOUS
  <2>3. Stages(f, d, r, work, b2, k)
    BY <1>1, <2>2, StagesKept
  <2>4. Behind(f1, d1)
    BY <1>2, <2>3 DEF Stages, Kept
  <2> QED
    BY <2>1, <2>4
<1>8. Sound(r)
  BY <1>5, <1>6, SoundLaid
<1>9. Sound(f1) /\ Sound(d1)
  BY <1>4, <1>5, <1>8, SoundJoined
<1>10. Tracks(f1, d1, due) /\ Tracks(f, d1, due)
  BY <1>4, <1>5, <1>7, TracksLaid
<1>11. \A v \in Versions : Complete(f1, v) => Complete(f, v)
  BY <1>4, <1>5, <1>6, CompleteLaid
<1>12. /\ Sound(work) /\ Tracks(f2, d2, due) /\ Tracks(f1, d2, due \ but)
       /\ \A v \in Versions \ but : Complete(f2, v) => Complete(f1, v)
  <2>1. CASE Underway.do = "remove"
    <3>1. work = RetiringOf(f)
      BY <1>1, <2>1 DEF Work, Retiring, RetiringOf
    <3>2. f1 = f
      <4>1. r = <<>>
        BY <1>1, <2>1
      <4> QED
        BY <1>2, <1>6, <4>1
    <3>3. Lays(work, f1)
      BY <3>1, <3>2 DEF Lays
    <3>4. Sound(work) /\ f1 \in Seq(Records)
      BY <1>6, <3>2, <3>3, SoundLaid
    <3>5. Tracks(f2, d2, due) /\ Tracks(f1, d2, due)
      BY <1>4, <1>7, <1>9, <1>10, <3>3, TracksLaid
    <3>6. Tracks(f1, d2, due \ but)
      BY <3>5 DEF Tracks
    <3>7. \A v \in Versions : Complete(f2, v) => Complete(f1, v)
      BY <1>4, <1>9, <3>3, <3>4, CompleteLaid
    <3> QED
      BY <3>4, <3>5, <3>6, <3>7
  <2>2. CASE Underway.do # "remove"
    <3>1. Appends(f1, fold, look.records)
      BY <1>1, <1>4
    <3>2. Sound(work) /\ Repeats(work, f1, but)
      BY <1>1, <1>9, <2>2, <3>1, WorkRepeats
    <3>3. PICK b2 : b2 = borrowed \cup Borrows(Underway, look, work)
      OBVIOUS
    <3>4. UnitsOf(work, Live(f1))
      BY <2>2, <3>1, <3>3, WorkTold
    <3>5. NoListing(work)
      BY <3>4, UnitsListNothing
    <3>6. Tracks(f2, d2, due) /\ Tracks(f1, d2, due \ but)
      BY <1>4, <1>7, <1>9, <1>10, <3>2, <3>4, TracksTold
    <3>7. \A v \in Versions \ but : Complete(f2, v) => Complete(f1, v)
      BY <1>4, <1>9, <3>2, <3>5, CompleteTold
    <3> QED
      BY <3>2, <3>6, <3>7
  <2> QED
    BY <2>1, <2>2
<1>13. Sound(f2) /\ Sound(d2)
  BY <1>4, <1>9, <1>12, SoundJoined
<1>14. SweptStages(f, d, r, work, due, but)
  BY <1>2, <1>3, <1>5, <1>9, <1>10, <1>11, <1>12, <1>13 DEF SweptStages, Traced
<1> QED
  BY <1>1, <1>14

-----------------------------------------------------------------------------
(* The outcomes of other versions, and the passes they are owed. *)

Old(v) == {o \in Outcomes \ late : outcome[o].status = "active" /\ outcome[o].stamp # v}

Stamps(v) == {outcome[o].stamp : o \in Old(v)}

\* The versions with others' outcomes active, that lost no pass.
Due == {v \in Versions : v \notin skipped /\ Old(v) # {}}

\* A delivery is to ask whether the pass may run, or runs it knowing every stamp it is to retire.
Owing(w, v, stamps) ==
  w.of = v /\ (w.at = "settles" \/ (w.at = "retires" /\ stamps \subseteq w.known))

Owed(v) == \E c \in Calls : Owing(call[c], v, Stamps(v))

\* An active outcome is stamped with a version that was listed.
Stamped == \A o \in Outcomes \ late : outcome[o].status = "active" => outcome[o].stamp \in Known(fold)

AllOwed == \A v \in Due : Complete(fold, v) => Owed(v)

AllSwept == Traced(fold, disk, Due) /\ Stamped /\ AllOwed

LEMMA OutcomesSame ==
  ASSUME UNCHANGED <<outcome, late>>
  PROVE  /\ \A v : Old(v)' = Old(v) /\ Stamps(v)' = Stamps(v)
         /\ skipped \subseteq skipped' => Due' \subseteq Due
         /\ skipped \subseteq skipped' => \A v \in Due' : v \in Due /\ v \notin skipped'
BY DEF Old, Stamps, Due

LEMMA StampedOn ==
  ASSUME Stamped, UNCHANGED <<outcome, late>>, fold \in Seq(Records), fold' \in Seq(Records), Inside(fold, fold')
  PROVE  Stamped'
<1>1. Known(fold) \subseteq Known(fold')
  BY KnownGrows
<1> QED
  BY <1>1 DEF Stamped

LEMMA StampsKnown ==
  ASSUME Stamped, NEW v
  PROVE  Stamps(v) \subseteq Known(fold)
BY DEF Stamps, Old, Stamped

\* A delivery that is owed nothing by may move, the others stay.
LEMMA OwedStays ==
  ASSUME NEW c, NEW v, Owed(v), Spares(call', call, c), ~Owing(call[c], v, Stamps(v)) \/ call'[c] = call[c],
         Stamps(v)' \subseteq Stamps(v)
  PROVE  Owed(v)'
<1>1. PICK e \in Calls : Owing(call[e], v, Stamps(v))
  BY DEF Owed
<1>2. call'[e] = call[e]
  BY <1>1 DEF Spares
<1>3. Owing(call'[e], v, Stamps(v)')
  BY <1>1, <1>2 DEF Owing
<1> QED
  BY <1>3 DEF Owed

LEMMA OwedSame ==
  ASSUME NEW v, Owed(v), UNCHANGED call, Stamps(v)' \subseteq Stamps(v)
  PROVE  Owed(v)'
<1>1. PICK e \in Calls : Owing(call[e], v, Stamps(v))
  BY DEF Owed
<1>2. Owing(call'[e], v, Stamps(v)')
  BY <1>1 DEF Owing
<1> QED
  BY <1>2 DEF Owed

-----------------------------------------------------------------------------
(* The steps of the store. *)

LEMMA FoldInside ==
  ASSUME NEW f \in Seq(Records), NEW r \in Seq(Records)
  PROVE  Inside(f, f) /\ Inside(f, f \o r) /\ f \o r \in Seq(Records)
<1>1. Extends(f \o r, f)
  BY ExtendsJoined
<1>2. Inside(f, f)
  BY DEF Inside
<1> QED
  BY <1>1, <1>2 DEF Extends, Inside

\* The delivery the task answers goes on, and a version in full is owed what it was, or what it
\* just came to be owed.
LEMMA AnswersSwept ==
  ASSUME Inv, tasks # <<>>, NEW look, LookFits(look, fold), NEW f, LogFits(f), NEW v \in Versions,
         f = fold \o look.records \o Work(Underway, look),
         Answers(Underway, f, Current(Underway, look)),
         v \notin Skips(Underway, Current(Underway, look)),
         Complete(f, v), v \notin PassOf(Underway) => Owed(v),
         UNCHANGED <<outcome, late>>, Stamps(v) \subseteq Known(f)
  PROVE  Owed(v)'
<1>1. PICK t, cur : t = Underway /\ cur = Current(Underway, look)
  OBVIOUS
<1>2. Stamps(v)' = Stamps(v)
  BY OutcomesSame
<1>3. CallsFit(call) /\ call \in [Calls -> CallType]
  BY DEF Inv, CallsFit
<1>4. CASE t.do \in {"place", "mark", "settle"}
  <2>1. PICK c : c = t.call
    OBVIOUS
  <2>2. c \in Calls /\ CallFits(call[c]) /\ call[c].at = Awaits(t.do) /\ call[c].of \in Versions
    BY <1>1, <1>4, <2>1, Awaited DEF Asking
  <2>3. CASE t.do = "place"
    <3>1. call[c].at = "places" /\ v \notin PassOf(t)
      BY <2>2, <2>3, AwaitsIs DEF PassOf
    <3>2. ~Owing(call[c], v, Stamps(v)) /\ Owed(v)
      BY <1>1, <3>1 DEF Owing
    <3>3. Spares(call', call, c)
      <4>1. \/ Moves(c, "idle")
            \/ call' = [call EXCEPT ![c].at = "resolves", ![c].current = cur,
                                    ![c].listed = IF cur = None THEN 0 ELSE Threshold(f, cur),
                                    ![c].standing = Standing(f, cur, call[c].of)]
        BY <1>1, <2>1, <2>3 DEF Answers
      <4>2. CASE Moves(c, "idle")
        BY <1>3, <4>2, <2>2, MovesFits DEF Spares
      <4>3. CASE call' = [call EXCEPT ![c].at = "resolves", ![c].current = cur,
                                    ![c].listed = IF cur = None THEN 0 ELSE Threshold(f, cur),
                                    ![c].standing = Standing(f, cur, call[c].of)]
        BY <1>3, <4>3 DEF Spares
      <4> QED
        BY <4>1, <4>2, <4>3
    <3> QED
      BY <1>2, <3>2, <3>3, OwedStays
  <2>4. CASE t.do = "mark"
    <3>1. Moves(c, "settles") /\ call[c].at = "marks"
      BY <1>1, <2>1, <2>2, <2>4, AwaitsIs DEF Answers
    <3>2. call'[c].at = "settles" /\ Spares(call', call, c) /\ call'[c].of = call[c].of
      <4>1. call'[c].at = "settles" /\ Spares(call', call, c)
        BY <1>3, <2>2, <3>1, MovesFits DEF Spares
      <4>2. call'[c].of = call[c].of
        BY <1>3, <2>2, <3>1 DEF Moves, CallType
      <4> QED
        BY <4>1, <4>2
    <3>3. CASE call[c].of = v
      <4>1. Owing(call'[c], v, Stamps(v)')
        BY <3>2, <3>3 DEF Owing
      <4> QED
        BY <2>2, <4>1 DEF Owed
    <3>4. CASE call[c].of # v
      <4>1. v \notin PassOf(t)
        BY <2>1, <2>4, <3>4 DEF PassOf
      <4>2. Owed(v) /\ ~Owing(call[c], v, Stamps(v))
        BY <1>1, <3>4, <4>1 DEF Owing
      <4> QED
        BY <1>2, <3>2, <4>2, OwedStays
    <3> QED
      BY <3>3, <3>4
  <2>5. CASE t.do = "settle"
    <3>1. \/ cur = None \/ ~ReadInFull(f, cur)
          \/ call' = [call EXCEPT ![c] = [NoCall EXCEPT !.at = "retires", !.of = cur, !.current = cur,
                                                        !.known = Known(f)]]
      BY <1>1, <2>1, <2>5 DEF Answers
    <3>2. Spares(call', call, c)
      <4>1. \/ Moves(c, "idle")
            \/ call' = [call EXCEPT ![c] = [NoCall EXCEPT !.at = "retires", !.of = cur, !.current = cur,
                                                          !.known = Known(f)]]
        BY <1>1, <2>1, <2>5 DEF Answers
      <4>2. CASE Moves(c, "idle")
        BY <1>3, <4>2, <2>2, MovesFits DEF Spares
      <4>3. CASE call' = [call EXCEPT ![c] = [NoCall EXCEPT !.at = "retires", !.of = cur, !.current = cur,
                                                          !.known = Known(f)]]
        BY <1>3, <4>3 DEF Spares
      <4> QED
        BY <4>1, <4>2, <4>3
    <3>3. CASE call[c].of # v
      <4>1. v \notin PassOf(t)
        BY <2>1, <2>5, <3>3 DEF PassOf
      <4>2. Owed(v) /\ ~Owing(call[c], v, Stamps(v))
        BY <1>1, <3>3, <4>1 DEF Owing
      <4> QED
        BY <1>2, <3>2, <4>2, OwedStays
    <3>4. CASE call[c].of = v
      <4>1. cur # None
        <5>1. SUFFICES ASSUME cur = None
                       PROVE  v \in Skips(t, cur)
          BY <1>1
        <5>2. v \in PassOf(t)
          BY <2>1, <2>5, <3>4 DEF PassOf
        <5> QED
          BY <2>5, <5>1, <5>2 DEF Skips
      <4>2. cur = Live(f)
        <5>1. cur = Live(fold \o look.records)
          BY <1>1, <4>1, Zenon DEF Current
        <5>2. Work(Underway, look) = <<>>
          BY <1>1, <2>5 DEF Work
        <5>3. fold \o look.records \in Seq(Records)
          BY LookedLog DEF Inv, Logs, LogFits
        <5>4. f = fold \o look.records
          BY <5>2, <5>3
        <5> QED
          BY <5>1, <5>4
      <4>3. cur = v
        <5>1. WellListed(f) /\ IsLast(f, v) /\ f \in Seq(Records)
          BY DEF Complete, LogFits
        <5>2. IsLast(f, Live(f))
          BY <4>1, <4>2, <5>1, LiveIsLast
        <5> QED
          BY <4>2, <5>1, <5>2, OneIsLast
      <4>4. ReadInFull(f, cur)
        BY <4>3 DEF Complete
      <4>5. call'[c] = [NoCall EXCEPT !.at = "retires", !.of = cur, !.current = cur, !.known = Known(f)]
        BY <1>3, <2>2, <3>1, <4>1, <4>4
      <4>6. call'[c].at = "retires" /\ call'[c].of = v /\ call'[c].known = Known(f)
        BY <4>3, <4>5 DEF NoCall
      <4>7. Owing(call'[c], v, Stamps(v)')
        BY <1>2, <4>6 DEF Owing
      <4> QED
        BY <2>2, <4>7 DEF Owed
    <3> QED
      BY <3>3, <3>4
  <2> QED
    BY <1>4, <2>3, <2>4, <2>5
<1>5. CASE t.do \notin {"place", "mark", "settle"}
  <2>1. UNCHANGED call /\ v \notin PassOf(t)
    BY <1>1, <1>5 DEF Answers, PassOf
  <2> QED
    BY <1>1, <1>2, <2>1, OwedSame
<1> QED
  BY <1>4, <1>5

LEMMA EndsSwept ==
  ASSUME Inv, AllKept, AllSwept, tasks # <<>>, NEW look, LookFits(look, fold),
         Underway.do = "remove" => look.records = <<>>, Ends(look), UNCHANGED <<outcome, late>>
  PROVE  AllSwept'
<1>1. PICK work : work = Work(Underway, look)
  OBVIOUS
<1>2. PICK f, d, v : /\ f = fold \o look.records \o work /\ d = disk \o look.records \o work
                     /\ v = Current(Underway, look)
  OBVIOUS
<1>3. fold' = f /\ disk' = d /\ Answers(Underway, f, v) /\ skipped' = skipped \cup Skips(Underway, v)
  BY <1>1, <1>2, Zenon DEF Ends
<1>4. PICK due, but : due = Due /\ but = PassOf(Underway)
  OBVIOUS
<1>5. Traced(fold, disk, due) /\ Stamped /\ AllOwed
  BY <1>4 DEF AllSwept
<1>6. SweptStages(fold, disk, look.records, work, due, but)
  BY <1>1, <1>4, <1>5, StagesSwept
<1>7. Traced(f, d, due) /\ \A w \in Versions \ but : Complete(f, w) => Complete(fold, w)
  BY <1>2, <1>6 DEF SweptStages
<1>8. Due' \subseteq due /\ \A w \in Due' : w \in Due /\ w \notin skipped' /\ w \in Versions
  BY <1>3, <1>4, OutcomesSame DEF Due
<1>9. LogFits(f) /\ f \in Seq(Records) /\ fold \in Seq(Records)
  <2>1. LogFits(fold \o look.records) /\ LogFits(work) /\ LogFits(fold)
    BY <1>1, LookedLog, WorkFitsIn DEF Inv, Logs
  <2>2. LogFits(f)
    BY <1>2, <2>1, FitsJoined
  <2> QED
    BY <2>1, <2>2 DEF LogFits
<1>10. Inside(fold, f)
  <2>1. look.records \in Seq(Records) /\ work \in Seq(Records)
    BY <1>1, LookedLog, WorkFitsIn DEF Inv, Logs, LogFits
  <2>2. Extends(f, fold)
    BY <1>2, <1>9, <2>1, ExtendsTwice
  <2> QED
    BY <2>2 DEF Extends, Inside
<1>11. Stamped'
  BY <1>3, <1>5, <1>9, <1>10, StampedOn
<1>12. Known(fold) \subseteq Known(f)
  BY <1>9, <1>10, KnownGrows
<1>13. ASSUME NEW w \in Due', Complete(f, w)
       PROVE  Owed(w)'
  <2>1. w \in Due /\ w \notin skipped' /\ w \in Versions
    BY <1>8
  <2>2. w \notin PassOf(Underway) => Owed(w)
    BY <1>4, <1>5, <1>7, <1>13, <2>1 DEF AllOwed
  <2>3. w \notin Skips(Underway, v)
    BY <1>3, <2>1
  <2>4. Stamps(w) \subseteq Known(f)
    BY <1>5, <1>12, StampsKnown
  <2>5. f = fold \o look.records \o Work(Underway, look)
    BY <1>1, <1>2
  <2>6. Answers(Underway, f, Current(Underway, look)) /\ w \notin Skips(Underway, Current(Underway, look))
    BY <1>2, <1>3, <2>3
  <2> QED
    BY <1>9, <1>13, <2>1, <2>2, <2>4, <2>5, <2>6, AnswersSwept
<1>14. AllOwed'
  BY <1>3, <1>13 DEF AllOwed
<1>15. Traced(f, d, Due')
  BY <1>7, <1>8, TracedLess
<1> QED
  BY <1>3, <1>11, <1>14, <1>15 DEF AllSwept

LEMMA WorksSwept ==
  ASSUME Inv, AllKept, AllSwept, Works
  PROVE  AllSwept'
<1>1. PICK look : look = Looked(Underway)
  OBVIOUS
<1>2. tasks # <<>> /\ LookFits(look, fold) /\ Ends(look) /\ UNCHANGED <<outcome, late>>
  BY <1>1, LookedFits DEF Works
<1>3. Underway.do = "remove" => look.records = <<>>
  BY <1>1, <1>2, RemovesLook
<1> QED
  BY <1>2, <1>3, EndsSwept

LEMMA CannotListSwept ==
  ASSUME Inv, AllKept, AllSwept, CannotList
  PROVE  AllSwept'
<1>1. PICK look : look = Unlisted
  OBVIOUS
<1>2. tasks # <<>> /\ LookFits(look, fold) /\ Ends(look) /\ UNCHANGED <<outcome, late>> /\ Hashed
  BY <1>1, LookedFits DEF CannotList, Hashed
<1>3. Underway.do = "remove" => look.records = <<>>
  BY <1>2, RemovesLook
<1> QED
  BY <1>2, <1>3, EndsSwept

\* A delivery that is refused loses its pass.
LEMMA RejectedSwept ==
  ASSUME Inv, tasks # <<>>, Rejected(Underway), NEW v, v \notin PassOf(Underway), Owed(v),
         UNCHANGED <<outcome, late>>
  PROVE  Owed(v)'
<1>1. PICK t : t = Underway
  OBVIOUS
<1>2. Stamps(v)' = Stamps(v)
  BY OutcomesSame
<1>3. CallsFit(call) /\ call \in [Calls -> CallType]
  BY DEF Inv, CallsFit
<1>4. CASE t.do \in {"place", "mark", "settle"}
  <2>1. PICK c : c = t.call
    OBVIOUS
  <2>2. c \in Calls /\ call[c].at = Awaits(t.do)
    BY <1>1, <1>4, <2>1, Awaited DEF Asking
  <2>3. ~Owing(call[c], v, Stamps(v))
    <3>1. CASE t.do = "place"
      BY <2>2, <3>1, AwaitsIs DEF Owing
    <3>2. CASE t.do \in {"mark", "settle"}
      BY <1>1, <2>1, <3>2 DEF Owing, PassOf
    <3> QED
      BY <1>4, <3>1, <3>2
  <2>4. Spares(call', call, c)
    <3>1. \/ Moves(c, "idle")
          \/ call' = [call EXCEPT ![c].at = "resolves", ![c].standing = "unplaced"]
      BY <1>1, <1>4, <2>1 DEF Rejected
    <3>2. CASE Moves(c, "idle")
      BY <1>3, <3>2, <2>2, MovesFits DEF Spares
    <3>3. CASE call' = [call EXCEPT ![c].at = "resolves", ![c].standing = "unplaced"]
      BY <1>3, <3>3 DEF Spares
    <3> QED
      BY <3>1, <3>2, <3>3
  <2> QED
    BY <1>2, <2>3, <2>4, OwedStays
<1>5. CASE t.do \notin {"place", "mark", "settle"}
  <2>1. UNCHANGED call
    BY <1>1, <1>5 DEF Rejected
  <2> QED
    BY <1>2, <2>1, OwedSame
<1> QED
  BY <1>4, <1>5

LEMMA AppendFailsSwept ==
  ASSUME Inv, AllKept, AllSwept, AppendFails
  PROVE  AllSwept'
<1>1. PICK look : look = Looked(Underway)
  OBVIOUS
<1>2. PICK work : work = Work(Underway, look)
  OBVIOUS
<1>3. /\ tasks # <<>> /\ LookFits(look, fold) /\ Rejected(Underway) /\ UNCHANGED <<outcome, late>>
      /\ skipped' = skipped \cup PassOf(Underway)
  BY <1>1, LookedFits DEF AppendFails
<1>4. Underway.do = "remove" => look.records = <<>>
  BY <1>1, <1>3, RemovesLook
<1>5. PICK due, but : due = Due /\ but = PassOf(Underway)
  OBVIOUS
<1>6. Traced(fold, disk, due) /\ Stamped /\ AllOwed
  BY <1>5 DEF AllSwept
<1>7. SweptStages(fold, disk, look.records, work, due, but)
  BY <1>2, <1>3, <1>4, <1>5, <1>6, StagesSwept
<1>8. /\ Due' \subseteq due \ but /\ due \ but \subseteq due
      /\ \A w \in Due' : w \in Due /\ w \notin but /\ w \in Versions
  BY <1>3, <1>5, OutcomesSame DEF Due
<1>9. fold \in Seq(Records) /\ look.records \in Seq(Records)
  BY <1>3, LookedLog DEF Inv, Logs, LogFits
<1>10. \/ ListingFails
       \/ WorkFails
  BY DEF AppendFails
<1>11. /\ Traced(fold', disk', due \ but) /\ (fold' = fold \/ fold' = fold \o look.records)
  <2>1. CASE ListingFails
    <3>1. disk' \in {disk, disk \o look.records} /\ fold' = fold
      BY <1>1, <2>1 DEF ListingFails
    <3>2. Traced(fold', disk', due)
      BY <1>6, <1>7, <3>1 DEF SweptStages
    <3> QED
      BY <1>8, <3>1, <3>2, TracedLess
  <2>2. CASE WorkFails
    <3>1. /\ fold' = fold \o look.records
          /\ disk' \in {disk \o look.records, disk \o look.records \o work}
      BY <1>1, <1>2, <2>2, Zenon DEF WorkFails
    <3>2. CASE disk' = disk \o look.records
      <4>1. Traced(fold', disk', due)
        BY <1>7, <3>1, <3>2 DEF SweptStages
      <4> QED
        BY <1>8, <3>1, <4>1, TracedLess
    <3>3. CASE disk' = disk \o look.records \o work
      BY <1>7, <3>1, <3>3 DEF SweptStages
    <3> QED
      BY <3>1, <3>2, <3>3
  <2> QED
    BY <1>10, <2>1, <2>2
<1>12. Inside(fold, fold') /\ fold' \in Seq(Records)
  BY <1>9, <1>11, FoldInside
<1>13. Stamped'
  BY <1>3, <1>6, <1>9, <1>12, StampedOn
<1>14. ASSUME NEW w \in Due', Complete(fold', w)
       PROVE  Owed(w)'
  <2>1. w \in Due /\ w \notin but /\ w \in Versions
    BY <1>8
  <2>2. Complete(fold, w)
    BY <1>7, <1>11, <1>14, <2>1 DEF SweptStages
  <2>3. Owed(w)
    BY <1>6, <2>1, <2>2 DEF AllOwed
  <2> QED
    BY <1>3, <1>5, <2>1, <2>3, RejectedSwept
<1>15. AllOwed'
  BY <1>14 DEF AllOwed
<1>16. Traced(fold', disk', Due')
  BY <1>8, <1>11, TracedLess
<1> QED
  BY <1>13, <1>15, <1>16 DEF AllSwept

\* A restart drops every delivery, and the versions they owed a pass are told.
LEMMA RestartsSwept ==
  ASSUME Inv, AllKept, AllSwept, Restarts
  PROVE  AllSwept'
<1>1. PICK look, d, f : look = Looked(Underway) /\ d = disk' /\ f = fold
  OBVIOUS
<1>2. /\ fold' = d /\ UNCHANGED <<outcome, late>>
      /\ skipped' = skipped \cup {v \in Versions : PassToCome(v)}
  BY <1>1 DEF Restarts
<1>3. PICK due : due = Due
  OBVIOUS
<1>4. Traced(f, disk, due) /\ Stamped /\ AllOwed
  BY <1>1, <1>3 DEF AllSwept
<1>5. Behind(f, disk) /\ f \in Seq(Records) /\ disk \in Seq(Records)
  BY <1>1 DEF AllKept, Kept, Inv, Logs, LogFits
<1>6. d \in Seq(Records) /\ Sound(d) /\ Inside(disk, d)
      /\ \A v \in Versions : Complete(d, v) => Complete(disk, v)
  <2>1. CASE d = disk
    BY <1>4, <1>5, <2>1, FoldInside DEF Traced
  <2>2. CASE d # disk
    <3>1. Hashed /\ d = disk \o look.records
      BY <1>1, <2>2 DEF Restarts
    <3>2. LookFits(look, fold)
      BY <1>1, <3>1, LookedFits DEF Hashed
    <3>3. PICK r : r = look.records
      OBVIOUS
    <3>4. Lays(r, f) /\ Appends(d, disk, r)
      BY <1>1, <3>1, <3>2, <3>3 DEF LookFits, Lays, Appends
    <3>5. Sound(r)
      BY <1>5, <3>4, SoundLaid
    <3>6. Sound(d)
      BY <1>4, <3>4, <3>5, SoundJoined DEF Traced
    <3>7. \A v \in Versions : Complete(d, v) => Complete(disk, v)
      BY <1>4, <1>5, <3>4, CompleteLaid DEF Traced
    <3>8. Inside(disk, d)
      BY <1>5, <3>4, <3>5, FoldInside DEF Sound, Appends
    <3> QED
      BY <3>6, <3>7, <3>8 DEF Sound
  <2> QED
    BY <2>1, <2>2
<1>7. Inside(f, d)
  <2>1. Inside(f, disk)
    BY <1>5 DEF Behind
  <2> QED
    BY <1>6, <2>1 DEF Inside
<1>8. Stamped'
  BY <1>1, <1>2, <1>4, <1>5, <1>6, <1>7, StampedOn
<1>9. Traced(d, d, Due')
  BY <1>6, TracedItself
<1>10. ASSUME NEW v \in Due', Complete(d, v)
       PROVE  FALSE
  <2>1. v \in Due /\ v \notin skipped' /\ v \in Versions
    BY <1>2, OutcomesSame DEF Due
  <2>2. Complete(disk, v)
    BY <1>6, <1>10, <2>1
  <2>3. Complete(f, v)
    BY <1>3, <1>4, <1>5, <2>1, <2>2, CompleteBehind
  <2>4. Owed(v)
    BY <1>1, <1>4, <2>1, <2>3 DEF AllOwed
  <2>5. PassToCome(v)
    BY <2>4 DEF Owed, Owing, PassToCome
  <2> QED
    BY <1>2, <2>1, <2>5
<1>11. AllOwed'
  BY <1>2, <1>10 DEF AllOwed
<1> QED
  BY <1>1, <1>2, <1>8, <1>9, <1>11 DEF AllSwept

-----------------------------------------------------------------------------
(* The other steps. *)

\* Where no log and no outcome changes, it is enough that what is owed stays.
LEMMA SweptStays ==
  ASSUME AllSwept, UNCHANGED <<fold, disk, outcome, late, skipped>>,
         \A v \in Versions : Owed(v) => Owed(v)'
  PROVE  AllSwept'
<1>1. Due' = Due /\ Due \subseteq Versions
  BY OutcomesSame DEF Due, Old
<1>2. Traced(fold', disk', Due')
  BY <1>1 DEF AllSwept
<1>3. Stamped'
  BY DEF AllSwept, Stamped
<1>4. AllOwed'
  BY <1>1 DEF AllSwept, AllOwed
<1> QED
  BY <1>2, <1>3, <1>4 DEF AllSwept

LEMMA SameSwept ==
  ASSUME AllSwept, UNCHANGED <<fold, disk, call, outcome, late, skipped>>
  PROVE  AllSwept'
<1>1. \A v \in Versions : Owed(v) => Owed(v)'
  BY OwedSame, OutcomesSame
<1> QED
  BY <1>1, SweptStays

LEMMA DeliverySwept ==
  ASSUME Inv, AllSwept, NEW c \in Calls,
         Starts(c) \/ ReadsPage(c) \/ ReadsInPart(c) \/ CallFails(c) \/ Extracts(c)
  PROVE  AllSwept'
<1>1. PICK new : new = call'
  OBVIOUS
<1>2. CallsFit(call) /\ call \in [Calls -> CallType]
  BY DEF Inv, CallsFit
<1>3. Spares(new, call, c) /\ call[c].at \notin {"settles", "retires"}
  <2>1. CASE Starts(c)
    <3>1. PICK d : call' = [call EXCEPT ![c] = [NoCall EXCEPT !.of = file, !.brings = d,
                     !.found = States[file][d],
                     !.how = IF d = Text THEN "text" ELSE "image",
                     !.at = IF d = Text THEN "extracts" ELSE "reads"]]
      BY <2>1 DEF Starts
    <3>2. call[c].at = "idle"
      BY <2>1 DEF Starts
    <3> QED
      BY <1>1, <1>2, <3>1, <3>2 DEF Spares
  <2>2. CASE ReadsPage(c)
    <3>1. call[c].at = "reads" /\ (Moves(c, "extracts") \/ Moves(c, "idle"))
      BY <2>2 DEF ReadsPage
    <3> QED
      BY <1>1, <1>2, <3>1, MovesFits DEF Spares
  <2>3. CASE ReadsInPart(c)
    <3>1. /\ call[c].at = "reads"
          /\ \/ call' = [call EXCEPT ![c].at = "extracts", ![c].how = "partial", ![c].found = {}]
             \/ call' = [call EXCEPT ![c] = NoCall]
      BY <2>3 DEF ReadsInPart
    <3> QED
      BY <1>1, <1>2, <3>1 DEF Spares
  <2>4. CASE CallFails(c)
    <3>1. Moves(c, "idle") /\ call[c].at \in {"reads", "extracts"}
      BY <2>4 DEF CallFails
    <3> QED
      BY <1>1, <1>2, <3>1, MovesFits DEF Spares
  <2>5. CASE Extracts(c)
    <3>1. Moves(c, "places") /\ call[c].at = "extracts"
      BY <2>5 DEF Extracts
    <3> QED
      BY <1>1, <1>2, <3>1, MovesFits DEF Spares
  <2> QED
    BY <2>1, <2>2, <2>3, <2>4, <2>5
<1>4. UNCHANGED <<fold, disk, outcome, late, skipped>>
  BY DEF Starts, ReadsPage, ReadsInPart, CallFails, Extracts, store
<1>5. \A v \in Versions : Owed(v) => Owed(v)'
  <2>1. \A v : ~Owing(call[c], v, Stamps(v))
    BY <1>3 DEF Owing
  <2> QED
    BY <1>1, <1>3, <1>4, <2>1, OwedStays, OutcomesSame
<1> QED
  BY <1>4, <1>5, SweptStays

\* An outcome active once a delivery has resolved its own was active before, or is of the version
\* the store has live.
LEMMA ResolvedActive ==
  ASSUME Inv, NEW c \in Calls, Resolves(c) \/ ResolveFails(c), NEW o \in Outcomes \ late',
         outcome'[o].status = "active"
  PROVE  \/ o \in Outcomes \ late /\ outcome'[o] = outcome[o]
         \/ Live(fold) = call[c].of /\ Live(fold) \in Versions /\ outcome'[o].stamp = Live(fold)
<1>1. PICK w : w = call[c]
  OBVIOUS
<1>2. CallFits(w) /\ w.at = "resolves" /\ late' = Late(c)
  BY <1>1 DEF Inv, CallsFit, Resolves, ResolveFails
<1>3. w.of \in Versions /\ w.current \in {w.of, None}
  BY <1>2 DEF CallFits
<1>4. /\ Live(fold) # w.of /\ outcome'[o] # outcome[o] => o \in late'
      /\ o \in late =>
           o \in late' \/ (Live(fold) = w.of /\ outcome'[o] = [status |-> "active", stamp |-> w.of])
  BY <1>1, <1>2, <1>3, LateIs
<1>5. CASE outcome'[o] = outcome[o]
  BY <1>1, <1>3, <1>4, <1>5
<1>6. CASE outcome'[o] # outcome[o]
  <2>1. Live(fold) = w.of
    BY <1>4, <1>6
  <2>2. outcome \in [Outcomes -> OutcomeType]
    BY DEF Inv, Fields
  <2>3. outcome'[o] = Resolved(c, o)
    <3>1. CASE Resolves(c)
      BY <3>1 DEF Resolves
    <3>2. CASE ResolveFails(c)
      <4>1. PICK x \in call[c].found : outcome' = [outcome EXCEPT ![x] = Resolved(c, x)]
        BY <3>2 DEF ResolveFails
      <4>2. o = x
        BY <1>6, <2>2, <4>1
      <4> QED
        BY <2>2, <4>1, <4>2
    <3> QED
      BY <3>1, <3>2
  <2>4. outcome'[o] = [status |-> "active", stamp |-> w.of]
    BY <1>1, <1>6, <2>3 DEF Resolved
  <2> QED
    BY <1>1, <1>3, <2>1, <2>4
<1> QED
  BY <1>5, <1>6

\* No version but the one live is listed last.
LEMMA OthersNotLast ==
  ASSUME NEW f \in Seq(Records), WellListed(f), NEW v, IsLast(f, v), Live(f) # None
  PROVE  v = Live(f)
BY LastIsLive

LEMMA ResolvesSwept ==
  ASSUME Inv, AllKept, AllSwept, NEW c \in Calls, Resolves(c) \/ ResolveFails(c)
  PROVE  AllSwept'
<1>1. PICK w : w = call[c]
  OBVIOUS
<1>2. CallFits(w) /\ w.at = "resolves" /\ CallsFit(call)
  BY <1>1 DEF Inv, CallsFit, Resolves, ResolveFails
<1>3. UNCHANGED <<fold, disk, skipped>>
  BY DEF Resolves, ResolveFails, store
<1>4. Spares(call', call, c)
  <2>1. \/ Moves(c, "settles") \/ Moves(c, "marks") \/ Moves(c, "idle")
    BY DEF Resolves, ResolveFails
  <2> QED
    BY <1>1, <1>2, <2>1, MovesFits DEF Spares
<1>5. Behind(fold, disk) /\ fold \in Seq(Records) /\ disk \in Seq(Records)
  BY DEF AllKept, Kept, Inv, Logs, LogFits
<1>6. Traced(fold, disk, Due) /\ Stamped /\ AllOwed
  BY DEF AllSwept
<1>7. PICK live : live = Live(fold)
  OBVIOUS
<1>8. \A o \in Outcomes \ late' : outcome'[o].status = "active" =>
        \/ o \in Outcomes \ late /\ outcome'[o] = outcome[o]
        \/ live = w.of /\ live \in Versions /\ outcome'[o].stamp = live
  BY <1>1, <1>7, ResolvedActive
<1>9. Stamped'
  <2>1. SUFFICES ASSUME NEW o \in Outcomes \ late', outcome'[o].status = "active"
                 PROVE  outcome'[o].stamp \in Known(fold)
    BY <1>3 DEF Stamped
  <2>2. CASE o \in Outcomes \ late /\ outcome'[o] = outcome[o]
    BY <1>6, <2>1, <2>2 DEF Stamped
  <2>3. CASE live \in Versions /\ outcome'[o].stamp = live
    <3>1. Live(fold) # None
      BY <1>7, <2>3, PagesAre
    <3> QED
      BY <1>5, <1>7, <2>3, <3>1, LiveKnown
  <2> QED
    BY <1>8, <2>1, <2>2, <2>3
<1>10. ASSUME NEW v \in Due'
       PROVE  \/ v \in Due /\ Stamps(v)' \subseteq Stamps(v)
              \/ live # None /\ v # live
  <2>1. v \in Versions /\ v \notin skipped /\ Old(v)' # {}
    BY <1>3 DEF Due
  <2>2. SUFFICES ASSUME live = None \/ v = live
                 PROVE  v \in Due /\ Stamps(v)' \subseteq Stamps(v)
    OBVIOUS
  <2>3. ASSUME NEW o \in Old(v)'
        PROVE  o \in Old(v) /\ outcome'[o] = outcome[o]
    <3>1. o \in Outcomes \ late' /\ outcome'[o].status = "active" /\ outcome'[o].stamp # v
      BY <2>3 DEF Old
    <3>2. ~(live \in Versions /\ outcome'[o].stamp = live)
      BY <2>2, <3>1, PagesAre
    <3>3. o \in Outcomes \ late /\ outcome'[o] = outcome[o]
      BY <1>8, <3>1, <3>2
    <3> QED
      BY <3>1, <3>3 DEF Old
  <2>4. Stamps(v)' \subseteq Stamps(v)
    BY <2>3 DEF Stamps
  <2>5. Old(v) # {}
    BY <2>1, <2>3
  <2> QED
    BY <2>1, <2>4, <2>5 DEF Due
<1>11. ASSUME NEW v, IsLast(fold, v), WellListed(fold), live # None
       PROVE  v = live
  BY <1>5, <1>7, <1>11, OthersNotLast
<1>12. Traced(fold, disk, Due')
  <2>1. SUFFICES ASSUME WellListed(disk), NEW v \in Versions, HasMark(disk, v)
                 PROVE  IsLast(fold, v) /\ (v \in Due' => Matches(fold, disk, v))
    BY <1>6 DEF Traced, Tracks
  <2>2. IsLast(fold, v) /\ (v \in Due => Matches(fold, disk, v))
    BY <1>6, <2>1 DEF Traced, Tracks
  <2>3. WellListed(fold)
    BY <1>5, <2>1 DEF Behind
  <2>4. v \in Due' => v \in Due
    BY <1>10, <1>11, <2>2, <2>3
  <2> QED
    BY <2>2, <2>4
<1>13. ASSUME NEW v \in Due', Complete(fold, v)
       PROVE  Owed(v)'
  <2>1. v \in Due /\ Stamps(v)' \subseteq Stamps(v)
    BY <1>10, <1>11, <1>13 DEF Complete
  <2>2. Owed(v)
    BY <1>6, <1>13, <2>1 DEF AllOwed
  <2>3. ~Owing(call[c], v, Stamps(v))
    BY <1>1, <1>2 DEF Owing
  <2> QED
    BY <1>4, <2>1, <2>2, <2>3, OwedStays
<1>14. AllOwed'
  BY <1>3, <1>13 DEF AllOwed
<1> QED
  BY <1>3, <1>9, <1>12, <1>14 DEF AllSwept

\* The pass of a version leaves no outcome of another it knows active.
LEMMA RetiresSwept ==
  ASSUME Inv, AllSwept, NEW c \in Calls, Retires(c)
  PROVE  AllSwept'
<1>1. PICK w, v : w = call[c] /\ v = call[c].of
  OBVIOUS
<1>2. CallFits(w) /\ w.at = "retires" /\ CallsFit(call) /\ v \in Versions /\ late' = Late(c)
  BY <1>1 DEF Inv, CallsFit, CallFits, Retires
<1>3. UNCHANGED <<fold, disk>>
  BY DEF Retires, store
<1>4. Spares(call', call, c)
  BY <1>1, <1>2, MovesFits DEF Retires, Spares
<1>5. Traced(fold, disk, Due) /\ Stamped /\ AllOwed
  BY DEF AllSwept
<1>6. ASSUME NEW o \in Outcomes, outcome'[o].status = "active"
      PROVE  ~RetiredBy(c, o) /\ outcome'[o] = outcome[o]
  <2>1. outcome \in [Outcomes -> OutcomeType]
    BY DEF Inv, Fields
  <2>2. outcome'[o] = IF RetiredBy(c, o) THEN [outcome[o] EXCEPT !.status = "retired"] ELSE outcome[o]
    BY DEF Retires
  <2>3. CASE RetiredBy(c, o)
    <3>1. outcome'[o].status = "retired"
      BY <2>1, <2>2, <2>3 DEF OutcomeType
    <3> QED
      BY <1>6, <3>1
  <2> QED
    BY <2>2, <2>3
<1>7. late \subseteq late'
  <2>1. SUFFICES ASSUME NEW o \in late, o \notin late'
                 PROVE  FALSE
    OBVIOUS
  <2>2. PICK changed : changed = {x \in Outcomes : outcome'[x] # outcome[x]}
    OBVIOUS
  <2>3. \/ late' = late \cup changed
        \/ late' = late \ {x \in changed : outcome'[x] = [status |-> "active", stamp |-> call[c].of]}
    BY <1>2, <2>2, Zenon DEF Late
  <2>4. o \in Outcomes /\ outcome'[o] # outcome[o]
        /\ outcome'[o] = [status |-> "active", stamp |-> call[c].of]
    BY <2>1, <2>2, <2>3
  <2>5. outcome'[o].status = "active"
    BY <2>4
  <2> QED
    BY <1>6, <2>4, <2>5
<1>8. \A x : Old(x)' \subseteq Old(x) /\ Stamps(x)' \subseteq Stamps(x)
  <2>1. ASSUME NEW x, NEW o \in Old(x)'
        PROVE  o \in Old(x) /\ outcome'[o] = outcome[o]
    <3>1. o \in Outcomes \ late' /\ outcome'[o].status = "active" /\ outcome'[o].stamp # x
      BY <2>1 DEF Old
    <3> QED
      BY <1>6, <1>7, <3>1 DEF Old
  <2> QED
    BY <2>1 DEF Stamps
<1>9. ASSUME Stamps(v) \subseteq w.known
      PROVE  Old(v)' = {}
  <2>1. SUFFICES ASSUME NEW o \in Old(v)'
                 PROVE  FALSE
    OBVIOUS
  <2>2. o \in Outcomes /\ outcome'[o].status = "active" /\ outcome'[o].stamp # v
    BY <2>1 DEF Old
  <2>3. ~RetiredBy(c, o) /\ outcome'[o] = outcome[o]
    BY <1>6, <2>2
  <2>4. outcome[o].stamp \in Stamps(v)
    BY <1>8, <2>1 DEF Stamps
  <2> QED
    BY <1>1, <1>9, <2>2, <2>3, <2>4 DEF RetiredBy
<1>10. Stamped'
  <2>1. \A o \in Outcomes \ late' : outcome'[o].status = "active" =>
          o \in Outcomes \ late /\ outcome[o].status = "active" /\ outcome'[o].stamp = outcome[o].stamp
    BY <1>6, <1>7
  <2> QED
    BY <1>3, <1>5, <2>1 DEF Stamped
<1>11. ASSUME NEW x \in Due'
       PROVE  x \in Due
  <2>1. x \in Versions /\ x \notin skipped' /\ Old(x)' # {}
    BY <1>11 DEF Due
  <2>2. Old(x) # {}
    BY <1>8, <2>1
  <2>3. x \notin skipped
    <3>1. SUFFICES ASSUME x \in skipped
                   PROVE  FALSE
      OBVIOUS
    <3>2. Known(fold) \subseteq w.known /\ x = v
      BY <1>1, <2>1, <3>1 DEF Retires
    <3>3. Stamps(v) \subseteq w.known
      BY <1>5, <3>2, StampsKnown
    <3> QED
      BY <1>9, <2>1, <3>2, <3>3
  <2> QED
    BY <2>1, <2>2, <2>3 DEF Due
<1>12. ASSUME NEW x \in Due', Complete(fold, x)
       PROVE  Owed(x)'
  <2>1. Owed(x) /\ Old(x)' # {}
    BY <1>5, <1>11, <1>12 DEF AllOwed, Due
  <2>2. ~Owing(call[c], x, Stamps(x))
    <3>1. SUFFICES ASSUME Owing(call[c], x, Stamps(x))
                   PROVE  FALSE
      OBVIOUS
    <3>2. x = v /\ Stamps(v) \subseteq w.known
      BY <1>1, <1>2, <3>1 DEF Owing
    <3> QED
      BY <1>9, <2>1, <3>2
  <2> QED
    BY <1>4, <1>8, <2>1, <2>2, OwedStays
<1>13. AllOwed'
  BY <1>3, <1>12 DEF AllOwed
<1>14. Traced(fold', disk', Due')
  <2>1. Due' \subseteq Due
    BY <1>11
  <2> QED
    BY <1>3, <1>5, <2>1, TracedLess
<1> QED
  BY <1>10, <1>13, <1>14 DEF AllSwept

LEMMA StepSwept ==
  ASSUME Inv, AllKept, AllSwept, [Next]_vars
  PROVE  AllSwept'
<1>1. CASE UNCHANGED vars
  BY <1>1, SameSwept DEF vars, store
<1>2. CASE Edits \/ Observes \/ Census \/ Hashes
  <2>1. UNCHANGED <<fold, disk, call, outcome, late, skipped>>
    BY <1>2 DEF Edits, Observes, Census, Hashes, store
  <2> QED
    BY <2>1, SameSwept
<1>3. CASE Next /\ ~(Edits \/ Observes \/ Census \/ Hashes)
  BY <1>3, CannotListSwept, WorksSwept, AppendFailsSwept, RestartsSwept, DeliverySwept, ResolvesSwept,
     RetiresSwept DEF Next
<1> QED
  BY <1>1, <1>2, <1>3

\* What was read of a document read in full is of its pages.
LEMMA FullLogSound == Sound(FullLog(First)) /\ First \in Known(FullLog(First))
<1>1. PICK v, log, e : v = First /\ log = FullLog(First) /\ e = Enumeration(First)
  OBVIOUS
<1>2. v \in Versions
  BY <1>1, OutcomeRevisionAssumption
<1>3. PICK u : Appends(log, e, u) /\ Units(u) /\ \A n \in 1..Len(u) : IsRead(u[n], v)
  BY <1>1, <1>2, FullLogIs
<1>4. \A n \in 1..Len(u) : Fit(u[n])
  <2>1. SUFFICES ASSUME NEW n \in 1..Len(u), u[n].marked
                 PROVE  InFull(u[n].reading) /\ u[n].page \in DOMAIN Route[u[n].of]
    BY DEF Fit
  <2>2. PICK x : x = u[n]
    OBVIOUS
  <2>3. IsRead(x, v)
    BY <1>3, <2>2
  <2>4. PICK p \in DOMAIN Route[v] :
          x = Unit(v, p, [how |-> ReadAs(v, p), bytes |-> v], ReadAs(v, p) # "nothing")
    BY <2>3, Zenon DEF IsRead
  <2>5. PICK how : how = ReadAs(v, p)
    OBVIOUS
  <2>6. PICK m \in BOOLEAN : m = (how # "nothing")
    OBVIOUS
  <2>7. x = Unit(v, p, [how |-> how, bytes |-> v], m)
    BY <2>4, <2>5, <2>6, Zenon
  <2>8. x.of = v /\ x.page = p /\ x.reading.how = how /\ x.marked = m
    BY <2>7 DEF Unit
  <2>9. how # "nothing"
    BY <2>1, <2>2, <2>6, <2>8
  <2>10. how \in {"text", "image"}
    BY <1>2, <2>5, <2>9, ReadAsIs
  <2> QED
    BY <2>2, <2>8, <2>10 DEF InFull
<1>5. NoListing(u)
  BY <1>3 DEF Units, NoListing
<1>6. Sound(u) /\ Sound(e)
  BY <1>1, <1>2, <1>4, <1>5, SoundUnlisted, SoundListing
<1>7. Sound(log)
  BY <1>3, <1>6, SoundJoined
<1>8. v \in Known(log)
  <2>1. e \in Seq(Records) /\ Len(e) \in Nat \ {0} /\ e[1] = Listing(v)
    BY <1>1, <1>2, EnumerationIs
  <2>2. Appended(log, e, u)
    BY <1>3, <1>6, AppendedIs DEF Sound
  <2>3. 1 \in 1..Len(log) /\ log[1] = Listing(v)
    BY <2>1, <2>2 DEF Appended
  <2>4. log \in Seq(Records)
    BY <1>7 DEF Sound
  <2>5. 1 \in Listings(log, v)
    BY <1>2, <2>3, <2>4, ListingsAre
  <2> QED
    BY <1>2, <2>5 DEF Known
<1> QED
  BY <1>1, <1>7, <1>8

LEMMA InitSwept ==
  ASSUME Init
  PROVE  AllSwept
<1>1. fold = disk /\ skipped = {} /\ late = {}
  BY DEF Init
<1>2. CASE /\ disk = <<>>
           /\ outcome = [o \in Outcomes |-> [status |-> "none", stamp |-> None]]
  <2>1. Sound(disk)
    <3>1. NoListing(<<>>)
      BY DEF NoListing
    <3> QED
      BY <1>2, <3>1, SoundUnlisted
  <2>2. \A o \in Outcomes : outcome[o].status # "active"
    BY <1>2
  <2>3. Stamped /\ Due = {}
    BY <2>2 DEF Stamped, Due, Old
  <2> QED
    BY <1>1, <2>1, <2>3, TracedItself DEF AllSwept, AllOwed
<1>3. CASE /\ disk = FullLog(First)
           /\ outcome = [o \in Outcomes |-> IF o \in Stated(First)
                                            THEN [status |-> "active", stamp |-> First]
                                            ELSE [status |-> "none", stamp |-> None]]
  <2>1. Sound(disk) /\ First \in Known(disk) /\ First \in Versions
    BY <1>3, FullLogSound, OutcomeRevisionAssumption
  <2>2. \A o \in Outcomes : outcome[o].status = "active" => outcome[o].stamp = First
    BY <1>3
  <2>3. Stamped
    BY <1>1, <2>1, <2>2 DEF Stamped
  <2>4. ASSUME NEW v \in Due, Complete(disk, v)
        PROVE  FALSE
    <3>1. v # First /\ v \in Versions
      BY <2>2 DEF Due, Old
    <3>2. IsLast(disk, v)
      BY <2>4 DEF Complete
    <3>3. PICK n \in 1..Len(disk) : disk[n] = Listing(v)
      BY <3>2 DEF IsLast
    <3>4. PICK log, e : log = disk /\ e = Enumeration(First)
      OBVIOUS
    <3>5. PICK u : Appends(log, e, u) /\ Units(u)
      BY <1>3, <2>1, <3>4, FullLogIs
    <3>6. /\ e \in Seq(Records) /\ Len(e) \in Nat \ {0} /\ e[1] = Listing(First)
          /\ \A k \in 2..Len(e) : \E p \in Settled(First) : e[k] = Unit(First, p, SettledAs(First, p), FALSE)
      BY <2>1, <3>4, EnumerationIs
    <3>7. Appended(log, e, u) /\ u \in Seq(Records)
      BY <3>5, <3>6, AppendedIs DEF Units
    <3>8. log[n].kind = "enumerated" /\ log[n].of = v /\ n \in 1..Len(log)
      BY <3>3, <3>4, ListingKind
    <3>9. CASE n \in 1..Len(e)
      <4>1. log[n] = e[n]
        BY <3>7, <3>9 DEF Appended
      <4>2. CASE n = 1
        BY <3>1, <3>6, <3>8, <4>1, <4>2, ListingKind
      <4>3. CASE n # 1
        <5>1. n \in 2..Len(e)
          BY <3>6, <3>9, <4>3
        <5>2. PICK p \in Settled(First) : e[n] = Unit(First, p, SettledAs(First, p), FALSE)
          BY <3>6, <5>1
        <5> QED
          BY <3>8, <4>1, <5>2 DEF Unit
      <4> QED
        BY <4>2, <4>3
    <3>10. CASE n \notin 1..Len(e)
      <4>1. n \in (Len(e) + 1)..Len(log)
        BY <3>7, <3>8, <3>10 DEF Appended
      <4>2. n - Len(e) \in 1..Len(u) /\ log[n] = u[n - Len(e)]
        BY <3>7, <4>1 DEF Appended
      <4> QED
        BY <3>5, <3>8, <4>2 DEF Units
    <3> QED
      BY <3>9, <3>10
  <2>5. AllOwed
    BY <1>1, <2>4 DEF AllOwed
  <2> QED
    BY <1>1, <2>1, <2>3, <2>5, TracedItself DEF AllSwept
<1> QED
  BY <1>2, <1>3 DEF Init

LEMMA SweptIsStale ==
  ASSUME Inv, AllSwept
  PROVE  StaleIsRetired
<1>1. PICK v : v = Live(fold)
  OBVIOUS
<1>2. SUFFICES ASSUME v # None, WellListed(fold), ReadInFull(fold, v), NoBlank(v), v \notin skipped,
                      ~PassToCome(v), NEW o \in Outcomes \ late, outcome[o].status = "active",
                      outcome[o].stamp # v
               PROVE  FALSE
  BY <1>1, Zenon DEF StaleIsRetired
<1>3. fold \in Seq(Records) /\ DOMAIN fold = 1..Len(fold)
  BY DEF Inv, Logs, LogFits
<1>4. v \in Versions /\ IsLast(fold, v)
  BY <1>1, <1>2, <1>3, LiveIs, LiveIsLast
<1>5. v \in Due
  BY <1>2, <1>4 DEF Due, Old
<1>6. Clear(fold, v)
  BY <1>2, <1>3 DEF NoBlank, Clear, Of, UnitOf
<1>7. Complete(fold, v)
  BY <1>2, <1>4, <1>6 DEF Complete
<1>8. Owed(v)
  BY <1>5, <1>7 DEF AllSwept, AllOwed
<1> QED
  BY <1>2, <1>8 DEF Owed, Owing, PassToCome

\* When the current version has been read in full and no delivery has its pass to come, no outcome of
\* another version is active, whatever the edits, rereads, late deliveries, failures and restarts on
\* the way; but for a version that lost a pass (`settleOutcomeRevision` runs it after every delivery).
THEOREM StaleRetired == Spec => []StaleIsRetired
<1>1. Init => AllKept /\ AllSwept
  BY InitKept, InitSwept
<1>2. Inv /\ AllKept /\ AllSwept /\ [Next]_vars => AllKept' /\ AllSwept'
  BY StepKept, StepSwept
<1>3. Inv /\ AllSwept => StaleIsRetired
  BY SweptIsStale
<1> QED
  BY <1>1, <1>2, <1>3, InvHolds, PTL DEF Spec
===============================================================================
