------------------------- MODULE PaperJournal_proofs -------------------------
(***************************************************************************)
(* Proofs about PaperJournal.  The invariants below speak of one request,  *)
(* of the journals and of the papers, given as arguments, so that a step   *)
(* of one composer is seen to leave the requests of the others as they     *)
(* were.                                                                   *)
(***************************************************************************)
EXTENDS PaperJournal, SequenceTheorems, FiniteSetTheorems, WellFoundedInduction, TLAPS

-----------------------------------------------------------------------------
(* The invariant of any number of composers. *)

Whys == {"none", "reuse-incompatible", "abandoned", "authoring-spec-changed"}

Events ==
  [kind : {"completed"}] \cup [kind : {"discarded"}, why : Whys \ {"none"}]
  \cup [kind : {"slot"}, slot : Slot, outcome : Outcome]

Points == Drafting \cup {"idle", "choosing", "opening", "discarding", "folding", "writing"}

Appending(r) == r.at \in {"folding", "writing"}

\* The point a request is at, or comes back to from an append.
Comes(r) == IF Appending(r) THEN r.next ELSE r.at

\* A discarded journal, and no other, says why.
SaysWhy(x) == x.why # "none" <=> x.status = "discarded"

Shaped(r, js) ==
  r \in [at : Points, on : Composition \cup {None}, chosen : 0..Len(js), todo : SUBSET (1..Len(js)),
         order : Seq(1..Len(js)), missed : SUBSET (1..Len(js)), journal : 0..Len(js),
         copy : Journal \cup {None}, pos : Nat \ {0}, tries : Nat, target : 0..Len(js),
         event : Events \cup {NoEvent}, next : {"idle", "opening", "discarding", "drafting", "ended"}]

\* What a request has at hand where it is.
Placed(r, js) ==
  /\ r.at # "idle" => r.on \in Composition
  /\ r.todo \subseteq ToSet(r.order)
  /\ Comes(r) \in Drafting => r.journal # 0
  /\ Appending(r) => r.target # 0
  /\ r.at = "folding" => r.event \in Events
  /\ Appending(r) /\ r.next \in {"drafting", "ended"} => r.target = r.journal
  /\ r.at \in {"drafting", "asking", "ended", "creating", "writing"} => r.copy \in Journal
  /\ r.at = "writing" => SaysWhy(r.copy) /\ r.copy.on = js[r.target].on
  /\ r.at = "asking" => r.pos \in DOMAIN Plan[r.copy.on.shape]

\* Composition comp, planned again on journal x, is not the one of x, or x was not the one chosen.
Moved(r, js, j) == [r.on EXCEPT !.shape = js[j].on.shape] # js[j].on \/ r.chosen # j

\* A request runs the composition of the journal it chose, or one that could not be it.
Chose(r, js) ==
  r.at # "idle" /\ r.chosen # 0 => r.on = js[r.chosen].on \/ Moved(r, js, r.chosen)

\* A journal is set aside for another composition when it was another.
Reasoned(r, js) ==
  /\ r.at = "folding" /\ r.event = Discarded("reuse-incompatible") => Moved(r, js, r.target)
  /\ r.at = "writing" /\ r.copy.why = "reuse-incompatible" => Moved(r, js, r.target)

HasPaper(ps, j) == \E p \in DOMAIN ps : ps[p].journal = j

\* A journal is completed when its paper is there.
Printed(r, ps) ==
  /\ r.at = "folding" /\ r.event = Completed => HasPaper(ps, r.target)
  /\ r.at = "writing" /\ r.copy.status = "completed" => HasPaper(ps, r.target)

Held(r, js, ps) ==
  Shaped(r, js) /\ Placed(r, js) /\ Chose(r, js) /\ Reasoned(r, js) /\ Printed(r, ps)

Journals(js, ps) ==
  /\ js \in Seq(Journal)
  /\ \A j \in 1..Len(js) : SaysWhy(js[j]) /\ (js[j].status = "completed" => HasPaper(ps, j))

Paper(n) == [journal : 1..n, asked : Composition, outcomes : [Slot -> Outcome]]

\* The order of the last updates, and the lengths of the histories.
Ordered(js, order, ws) ==
  /\ order \in Seq(1..Len(js)) /\ ToSet(order) = 1..Len(js) /\ Len(order) = Len(js)
  /\ ws \in Seq(Nat) /\ Len(ws) = Len(js)

World == world \in Composition /\ prompt \in [Tasks -> Version]

Counters == skipped \in Nat /\ changes \in Nat /\ failures \in Nat /\ crashes \in Nat

Files ==
  /\ Journals(journals, papers) /\ Ordered(journals, recent, written)
  /\ papers \in Seq(Paper(Len(journals)))

Requests ==
  /\ DOMAIN request = Composers
  /\ \A c \in Composers : Held(request[c], journals, papers)

Inv == World /\ Counters /\ Files /\ Requests

-----------------------------------------------------------------------------
(* The invariant of one composer. *)

OneComposer == \E c : Composers = {c}

LandedSlots(x) == {s \in Slots(x) : x.outcomes[s].status = "landed"}

\* A part's item goes with those of the others: of the journal's composition, written on what it
\* needs, by the prompt of its task.
Agrees(x, s, o) ==
  /\ o.on = x.on
  /\ NeedsIn(x, s) \subseteq LandedSlots(x)
  /\ \A n \in LandedSlots(x) : Task[n] = Task[s] => x.outcomes[n].version = o.version

Sound(x) == \A s \in LandedSlots(x) : Agrees(x, s, x.outcomes[s])

\* An item, or the discard it brought.
Adds(e) ==
  \/ e.kind = "slot" /\ e.outcome.status = "landed"
  \/ e = Discarded("authoring-spec-changed")

\* An event that a journal takes.
Fits(x, e) ==
  /\ e.kind = "slot" \/ Adds(e) => x.status = "open"
  /\ e.kind = "slot" =>
       /\ e.slot \in Slots(x) /\ ~IsFinal(x.outcomes[e.slot])
       /\ e.outcome.status = "landed" => Agrees(x, e.slot, e.outcome)

\* A request drafts on the journal as the file has it.
Works(r, js) ==
  /\ Comes(r) \in Drafting \/ (Comes(r) = "discarding" /\ r.journal # 0) => r.on = js[r.journal].on
  /\ Comes(r) \in {"drafting", "asking", "ended"} /\ r.at # "writing" =>
       r.copy = js[r.journal] /\ js[r.journal].status = "open"
  /\ r.at = "asking" => /\ ~IsFinal(r.copy.outcomes[At(r, r.pos)])
                        /\ NeedsIn(r.copy, At(r, r.pos)) \subseteq LandedSlots(r.copy)
  /\ r.at = "creating" => r.copy = js[r.journal] /\ OwedSlots(r.copy) = {}

\* An append is of an event its journal takes, and that suits the point it comes back to.
Appends(r, js) ==
  /\ r.at = "folding" =>
       /\ Fits(js[r.target], r.event)
       /\ r.next \in {"drafting", "ended"} => r.event.kind = "slot"
       /\ r.next = "discarding" => r.event.kind = "discarded"
       /\ Adds(r.event) => r.target = r.journal
  /\ r.at = "writing" =>
       /\ js[r.target].status = "open"
       /\ \E e \in Events : /\ Fits(js[r.target], e) /\ r.copy = Folded(js[r.target], e)
                            /\ Adds(e) => r.target = r.journal
       /\ r.next \in {"drafting", "ended"} => r.copy.status = "open"
       /\ r.next = "discarding" => r.copy.status # "open"

OpenIn(js) == {j \in 1..Len(js) : js[j].status = "open"}

\* The journals open beside a request's own are those it is yet to set aside, or did not see.
Aside(r, js) ==
  /\ Comes(r) = "discarding" =>
       OpenIn(js) \subseteq
         r.todo \cup r.missed \cup {r.journal} \cup (IF Appending(r) THEN {r.target} ELSE {})
  /\ Comes(r) \in Drafting => OpenIn(js) \subseteq r.missed \cup {r.journal}

Copies(ps, j) == {p \in DOMAIN ps : ps[p].journal = j}

\* A paper is written for a journal once none, or none it could read, was there.
Fresh(r, ps, n) == r.at = "creating" => Cardinality(Copies(ps, r.journal)) <= n

\* What of a journal accounts for the service's items.
Shown(x) == Cardinality(LandedSlots(x)) + (IF x.why = "authoring-spec-changed" THEN 1 ELSE 0)

\* The same, once the request's append is through.
WillShow(r, js, j) ==
  IF r.at = "writing" /\ r.target = j THEN Shown(r.copy)
  ELSE IF r.at = "folding" /\ r.target = j /\ Adds(r.event) THEN Shown(js[j]) + 1
  ELSE Shown(js[j])

Paid(r, js, ws, n) == \A j \in 1..Len(js) : ws[j] <= WillShow(r, js, j) + n

\* A paper and the journal it was made of.
Whole(paper, x) ==
  LET landed == {s \in Slots(x) : paper.outcomes[s].status = "landed"} IN
  /\ \A s \in Slots(x) : paper.outcomes[s].status \in {"landed", "refused", "depends"}
  /\ \A s \in landed :
       /\ NeedsIn(x, s) \subseteq landed
       /\ paper.outcomes[s].on = paper.asked
       /\ \A n \in landed : Task[s] = Task[n] => paper.outcomes[s].version = paper.outcomes[n].version

Papers(js, ps, n) ==
  /\ \A p \in DOMAIN ps : Whole(ps[p], js[ps[p].journal])
  /\ \A j \in 1..Len(js) : Cardinality(Copies(ps, j)) <= 1 + n

Alone(r) ==
  /\ Works(r, journals) /\ Appends(r, journals) /\ Aside(r, journals)
  /\ Fresh(r, papers, skipped) /\ Paid(r, journals, written, crashes + failures)

AInv ==
  /\ \A j \in 1..Len(journals) : Sound(journals[j])
  /\ Papers(journals, papers, skipped)
  /\ \A c \in Composers : Alone(request[c])

-----------------------------------------------------------------------------
(* Sequences and orders. *)

LEMMA LessIsWellFounded ==
  \E R : /\ IsWellFoundedOn(R, Nat)
         /\ \A k \in Nat, n \in Nat : <<k, n>> \notin R => ~(k < n)
<1>1. IsWellFoundedOn(OpToRel(<, Nat), Nat)
  BY NatLessThanWellFounded
<1>2. \A k \in Nat, n \in Nat : <<k, n>> \notin OpToRel(<, Nat) => ~(k < n)
  BY DEF OpToRel
<1> QED
  BY <1>1, <1>2, Zenon

\* A set of numbers has a least one.
LEMMA LeastExists ==
  ASSUME NEW S \in SUBSET Nat, S # {}
  PROVE  \E n \in S : \A k \in S : n <= k
<1>1. PICK R : /\ IsWellFoundedOn(R, Nat)
               /\ \A k \in Nat, n \in Nat : <<k, n>> \notin R => ~(k < n)
  BY LessIsWellFounded
<1>2. \E n \in S : \A k \in S : ~(<<k, n>> \in R)
  BY <1>1, WFMin, Zenon
<1>3. PICK n \in S : \A k \in S : ~(<<k, n>> \in R)
  BY <1>2
<1>4. \A k \in S : n <= k
  <2> TAKE k \in S
  <2>1. k \in Nat /\ n \in Nat
    OBVIOUS
  <2>2. ~(k < n)
    BY <1>1, <1>3, <2>1
  <2> QED
    BY <2>1, <2>2
<1> QED
  BY <1>4

\* A bounded set of numbers has a greatest one.
LEMMA GreatestExists ==
  ASSUME NEW n \in Nat, NEW S \in SUBSET (1..n), S # {}
  PROVE  Max(S) \in S
<1> DEFINE T == {n - k : k \in S}
<1>1. T \in SUBSET Nat /\ T # {}
  <2>1. \A k \in S : n - k \in Nat
    OBVIOUS
  <2>2. \A t \in T : \E k \in S : t = n - k
    OBVIOUS
  <2>3. \A t \in T : t \in Nat
    <3> HIDE DEF T
    <3> QED
      BY <2>1, <2>2
  <2> QED
    BY <2>3
<1>2. PICK t \in T : \A k \in T : t <= k
  <2> HIDE DEF T
  <2> QED
    BY <1>1, LeastExists
<1>3. PICK m \in S : t = n - m
  OBVIOUS
<1>4. \A k \in S : m >= k
  <2> TAKE k \in S
  <2>1. t <= n - k
    BY <1>2
  <2> QED
    BY <1>3, <2>1
<1> QED
  BY <1>3, <1>4 DEF Max

\* The last of a set in an order that lists it is of the set.
LEMMA LatestIs ==
  ASSUME NEW N, NEW order \in Seq(N), NEW seen, seen \subseteq ToSet(order), seen # {}
  PROVE  Latest(order, seen) \in seen
<1> DEFINE S == {n \in DOMAIN order : order[n] \in seen}
<1>1. PICK j \in seen : TRUE
  OBVIOUS
<1>2. \E n \in DOMAIN order : order[n] = j
  BY <1>1 DEF ToSet
<1>3. S # {} /\ S \in SUBSET (1..Len(order)) /\ Len(order) \in Nat
  BY <1>2
<1>4. Max(S) \in S
  <2> HIDE DEF S
  <2> QED
    BY <1>3, GreatestExists
<1> QED
  BY <1>4 DEF Latest

LEMMA WithoutAt ==
  ASSUME NEW R, NEW s \in Seq(R), NEW p \in 1..Len(s)
  PROVE  /\ RemoveAt(s, p) \in Seq(R) /\ Len(RemoveAt(s, p)) = Len(s) - 1
         /\ \A i \in 1..(p - 1) : RemoveAt(s, p)[i] = s[i]
         /\ \A i \in p..(Len(s) - 1) : RemoveAt(s, p)[i] = s[i + 1]
<1>1. Len(s) \in Nat /\ \A i \in 1..Len(s) : s[i] \in R
  OBVIOUS
<1>2. /\ SubSeq(s, 1, p - 1) \in Seq(R)
      /\ Len(SubSeq(s, 1, p - 1)) = p - 1
      /\ \A i \in 1..(p - 1) : SubSeq(s, 1, p - 1)[i] = s[i]
  BY <1>1
<1>3. /\ SubSeq(s, p + 1, Len(s)) \in Seq(R)
      /\ Len(SubSeq(s, p + 1, Len(s))) = Len(s) - p
      /\ \A i \in 1..(Len(s) - p) : SubSeq(s, p + 1, Len(s))[i] = s[p + i]
  BY <1>1
<1> DEFINE a == SubSeq(s, 1, p - 1)
           b == SubSeq(s, p + 1, Len(s))
<1>4. RemoveAt(s, p) = a \o b
  BY DEF RemoveAt
<1>5. a \in Seq(R) /\ Len(a) = p - 1 /\ \A i \in 1..(p - 1) : a[i] = s[i]
  BY <1>2
<1>6. b \in Seq(R) /\ Len(b) = Len(s) - p /\ \A i \in 1..(Len(s) - p) : b[i] = s[p + i]
  BY <1>3
<1> HIDE DEF a, b
<1>7. /\ a \o b \in Seq(R) /\ Len(a \o b) = Len(s) - 1
      /\ \A i \in 1..(p - 1) : (a \o b)[i] = s[i]
  BY <1>1, <1>5, <1>6
<1>8. ASSUME NEW i \in p..(Len(s) - 1)
      PROVE  (a \o b)[i] = s[i + 1]
  <2>1. i - (p - 1) \in 1..(Len(s) - p) /\ p + (i - (p - 1)) = i + 1
    BY <1>1
  <2>2. (a \o b)[i] = b[i - (p - 1)]
    BY <1>1, <1>5, <1>6, <2>1
  <2> QED
    BY <1>6, <2>1, <2>2
<1> QED
  BY <1>4, <1>7, <1>8

\* A journal updated is the last of the order, and the others stay in it.
LEMMA Reordered ==
  ASSUME NEW n \in Nat, NEW s \in Seq(1..n), ToSet(s) = 1..n, NEW j \in 1..n
  PROVE  LET t == Append(RemoveFirst(s, j), j)
         IN  t \in Seq(1..n) /\ ToSet(t) = 1..n /\ Len(t) = Len(s)
<1> DEFINE I == {i \in 1..Len(s) : s[i] = j}
           u == RemoveFirst(s, j)
<1>1. Len(s) \in Nat /\ DOMAIN s = 1..Len(s) /\ \A i \in 1..Len(s) : s[i] \in 1..n
  OBVIOUS
<1>2. \E i \in DOMAIN s : s[i] = j
  BY DEF ToSet
<1>3. I # {} /\ I \in SUBSET (1..Len(s)) /\ I \in SUBSET Nat
  BY <1>1, <1>2
<1>4. \E p \in I : \A k \in I : p <= k
  <2> HIDE DEF I
  <2> QED
    BY <1>3, LeastExists
<1>5. PICK p \in I : p = Min(I)
  BY <1>4 DEF Min
<1>6. u = RemoveAt(s, p)
  BY <1>3, <1>5 DEF RemoveFirst, SelectInSeq
<1>7. p \in 1..Len(s) /\ s[p] = j
  BY <1>5
<1>8. /\ u \in Seq(1..n) /\ Len(u) = Len(s) - 1
      /\ \A i \in 1..(p - 1) : u[i] = s[i]
      /\ \A i \in p..(Len(s) - 1) : u[i] = s[i + 1]
  BY <1>6, <1>7, WithoutAt
<1> HIDE DEF u
<1> DEFINE t == Append(u, j)
<1>9. /\ t \in Seq(1..n) /\ Len(t) = Len(s) /\ DOMAIN t = 1..Len(s)
      /\ \A i \in 1..(Len(s) - 1) : t[i] = u[i]
      /\ t[Len(s)] = j
  <2>1. /\ t \in Seq(1..n) /\ Len(t) = Len(u) + 1 /\ t[Len(u) + 1] = j
        /\ \A i \in 1..Len(u) : t[i] = u[i]
    BY <1>8
  <2>2. Len(u) + 1 = Len(s)
    BY <1>1, <1>8
  <2> HIDE DEF t
  <2>3. Len(t) = Len(s)
    BY <2>1, <2>2
  <2>4. DOMAIN t = 1..Len(s)
    BY <2>1, <2>3
  <2> QED
    BY <1>8, <2>1, <2>2, <2>3, <2>4
<1> HIDE DEF t
<1>10. \A i \in DOMAIN t : t[i] \in 1..n
  BY <1>9
<1>11. ASSUME NEW k \in 1..n PROVE \E i \in DOMAIN t : t[i] = k
  <2>1. CASE k = j
    BY <1>1, <1>7, <1>9, <2>1
  <2>2. CASE k # j
    <3>1. PICK m \in 1..Len(s) : s[m] = k
      BY <1>1 DEF ToSet
    <3>2. CASE m < p
      <4>1. m \in 1..(p - 1) /\ m \in 1..(Len(s) - 1)
        BY <1>1, <1>7, <3>2
      <4> QED
        BY <1>8, <1>9, <3>1, <4>1
    <3>3. CASE m > p
      <4>1. m - 1 \in p..(Len(s) - 1) /\ m - 1 \in 1..(Len(s) - 1) /\ (m - 1) + 1 = m
        BY <1>1, <1>7, <3>3
      <4>2. u[m - 1] = s[m]
        BY <1>8, <4>1
      <4>3. m - 1 \in 1..Len(s) /\ m - 1 \in 1..(Len(s) - 1)
        BY <1>1, <1>7, <3>3
      <4>4. t[m - 1] = k
        BY <1>9, <3>1, <4>2, <4>3
      <4> QED
        BY <1>9, <4>3, <4>4
    <3> QED
      BY <1>1, <1>7, <2>2, <3>1, <3>2, <3>3
  <2> QED
    BY <2>1, <2>2
<1>12. ToSet(t) = 1..n
  <2>1. ToSet(t) = {t[i] : i \in DOMAIN t}
    BY DEF ToSet
  <2> QED
    BY <1>10, <1>11, <2>1
<1> QED
  BY <1>9, <1>12 DEF t, u

\* A journal opened is the last of the order.
LEMMA Extended ==
  ASSUME NEW n \in Nat, NEW s \in Seq(1..n), ToSet(s) = 1..n
  PROVE  LET t == Append(RemoveFirst(s, n + 1), n + 1)
         IN  t \in Seq(1..(n + 1)) /\ ToSet(t) = 1..(n + 1) /\ Len(t) = Len(s) + 1
<1>1. Len(s) \in Nat /\ DOMAIN s = 1..Len(s) /\ \A i \in 1..Len(s) : s[i] \in 1..n
  OBVIOUS
<1>2. RemoveFirst(s, n + 1) = s
  BY <1>1 DEF RemoveFirst
<1>3. s \in Seq(1..(n + 1))
  BY <1>1
<1> DEFINE t == Append(s, n + 1)
<1>4. /\ t \in Seq(1..(n + 1)) /\ Len(t) = Len(s) + 1 /\ DOMAIN t = 1..(Len(s) + 1)
      /\ \A i \in 1..Len(s) : t[i] = s[i]
      /\ t[Len(s) + 1] = n + 1
  BY <1>1, <1>3
<1> HIDE DEF t
<1>5. ASSUME NEW k \in 1..(n + 1) PROVE \E i \in DOMAIN t : t[i] = k
  <2>1. CASE k = n + 1
    <3>1. Len(s) + 1 \in 1..(Len(s) + 1)
      BY <1>1
    <3> QED
      BY <1>4, <2>1, <3>1
  <2>2. CASE k # n + 1
    <3>1. k \in 1..n
      BY <2>2
    <3>2. PICK m \in 1..Len(s) : s[m] = k
      BY <1>1, <3>1 DEF ToSet
    <3>3. m \in 1..(Len(s) + 1)
      BY <1>1
    <3> QED
      BY <1>4, <3>2, <3>3
  <2> QED
    BY <2>1, <2>2
<1>6. \A i \in DOMAIN t : t[i] \in 1..(n + 1)
  BY <1>4
<1>7. ToSet(t) = 1..(n + 1)
  <2>1. ToSet(t) = {t[i] : i \in DOMAIN t}
    BY DEF ToSet
  <2> QED
    BY <1>5, <1>6, <2>1
<1> QED
  BY <1>2, <1>4, <1>7 DEF t

-----------------------------------------------------------------------------
(* Journals and events. *)

LEMMA OutcomesAre ==
  /\ {Unattempted, Owed, Refused, Depends} \subseteq Outcome
  /\ \A v \in Version, comp \in Composition : Landed(v, comp) \in Outcome
<1>1. Unattempted \in Outcome
  BY DEF Unattempted, Outcome
<1>2. Owed \in Outcome /\ Refused \in Outcome /\ Depends \in Outcome
  BY DEF Unattempted, Owed, Refused, Depends, Outcome
<1>3. \A v \in Version, comp \in Composition : Landed(v, comp) \in Outcome
  BY DEF Landed, Outcome
<1> QED
  BY <1>1, <1>2, <1>3

LEMMA EventsAre ==
  /\ Completed \in Events
  /\ \A w \in Whys \ {"none"} : Discarded(w) \in Events
  /\ \A s \in Slot, o \in Outcome : Ends(s, o) \in Events
BY DEF Events, Completed, Discarded, Ends

LEMMA KindsAre ==
  ASSUME NEW e \in Events
  PROVE  \/ e = Completed
         \/ \E w \in Whys \ {"none"} : e = Discarded(w)
         \/ \E s \in Slot, o \in Outcome : e = Ends(s, o)
<1>1. CASE e \in [kind : {"completed"}]
  BY <1>1 DEF Completed
<1>2. CASE e \in [kind : {"discarded"}, why : Whys \ {"none"}]
  <2>1. e.why \in Whys \ {"none"} /\ e = Discarded(e.why)
    BY <1>2 DEF Discarded
  <2> QED
    BY <2>1
<1>3. CASE e \in [kind : {"slot"}, slot : Slot, outcome : Outcome]
  <2>1. e.slot \in Slot /\ e.outcome \in Outcome /\ e = Ends(e.slot, e.outcome)
    BY <1>3 DEF Ends
  <2> QED
    BY <2>1
<1> QED
  BY <1>1, <1>2, <1>3 DEF Events

LEMMA OpenedIs ==
  ASSUME NEW comp \in Composition
  PROVE  /\ Opened(comp) \in Journal /\ Opened(comp).on = comp
         /\ SaysWhy(Opened(comp)) /\ Opened(comp).status = "open"
BY OutcomesAre DEF Opened, Journal, SaysWhy

\* What a journal becomes with each event.
LEMMA FoldsSlot ==
  ASSUME NEW x \in Journal, NEW s \in Slot, NEW o \in Outcome
  PROVE  Folded(x, Ends(s, o)) =
           IF x.status = "open" /\ ~IsFinal(x.outcomes[s])
           THEN [x EXCEPT !.outcomes = [x.outcomes EXCEPT ![s] = o]] ELSE x
BY DEF Folded, Ends, Journal

LEMMA FoldsDiscard ==
  ASSUME NEW x \in Journal, NEW w
  PROVE  Folded(x, Discarded(w)) =
           IF x.status = "open" THEN [x EXCEPT !.status = "discarded", !.why = w] ELSE x
BY DEF Folded, Discarded, Journal

LEMMA FoldsCompleted ==
  ASSUME NEW x \in Journal
  PROVE  Folded(x, Completed) =
           IF x.status = "open" THEN [x EXCEPT !.status = "completed"] ELSE x
BY DEF Folded, Completed, Journal

\* A fold is a journal of the same composition; it is closed only by its event, and says why.
LEMMA FoldedIs ==
  ASSUME NEW x \in Journal, SaysWhy(x), NEW e \in Events
  PROVE  /\ Folded(x, e) \in Journal /\ SaysWhy(Folded(x, e)) /\ Folded(x, e).on = x.on
         /\ Folded(x, e) # x => x.status = "open"
         /\ Folded(x, e).status = "completed" => x.status = "completed" \/ e = Completed
         /\ Folded(x, e).why = "reuse-incompatible" /\ x.status = "open"
              => e = Discarded("reuse-incompatible")
<1>1. CASE e = Completed
  <2>1. PICK y : y = Folded(x, e)
    OBVIOUS
  <2>2. y = IF x.status = "open" THEN [x EXCEPT !.status = "completed"] ELSE x
    BY <1>1, <2>1, FoldsCompleted
  <2> QED
    BY <1>1, <2>1, <2>2 DEF Journal, SaysWhy
<1>2. ASSUME NEW w \in Whys \ {"none"}, e = Discarded(w)
      PROVE  /\ Folded(x, e) \in Journal /\ SaysWhy(Folded(x, e)) /\ Folded(x, e).on = x.on
             /\ Folded(x, e) # x => x.status = "open"
             /\ Folded(x, e).status = "completed" => x.status = "completed" \/ e = Completed
             /\ Folded(x, e).why = "reuse-incompatible" /\ x.status = "open"
                  => e = Discarded("reuse-incompatible")
  <2>1. PICK y : y = Folded(x, e)
    OBVIOUS
  <2>2. y = IF x.status = "open" THEN [x EXCEPT !.status = "discarded", !.why = w] ELSE x
    BY <1>2, <2>1, FoldsDiscard
  <2> QED
    BY <1>2, <2>1, <2>2 DEF Journal, SaysWhy, Whys
<1>3. ASSUME NEW s \in Slot, NEW o \in Outcome, e = Ends(s, o)
      PROVE  /\ Folded(x, e) \in Journal /\ SaysWhy(Folded(x, e)) /\ Folded(x, e).on = x.on
             /\ Folded(x, e) # x => x.status = "open"
             /\ Folded(x, e).status = "completed" => x.status = "completed" \/ e = Completed
             /\ Folded(x, e).why = "reuse-incompatible" /\ x.status = "open"
                  => e = Discarded("reuse-incompatible")
  <2>1. PICK y : y = Folded(x, e)
    OBVIOUS
  <2>2. y = IF x.status = "open" /\ ~IsFinal(x.outcomes[s])
            THEN [x EXCEPT !.outcomes = [x.outcomes EXCEPT ![s] = o]] ELSE x
    BY <1>3, <2>1, FoldsSlot
  <2> QED
    BY <1>3, <2>1, <2>2 DEF Journal, SaysWhy
<1> QED
  BY <1>1, <1>2, <1>3, KindsAre

-----------------------------------------------------------------------------
(* Requests beside a step. *)

\* Files that only grew: no journal is gone or of another composition, and no paper is gone.
Grown(js, js2, ps, ps2) ==
  /\ js \in Seq(Journal) /\ js2 \in Seq(Journal) /\ Len(js) <= Len(js2)
  /\ \A j \in 1..Len(js) : js2[j].on = js[j].on
  /\ \A j : HasPaper(ps, j) => HasPaper(ps2, j)

LEMMA GrownIs ==
  ASSUME NEW js \in Seq(Journal), NEW ps
  PROVE  Grown(js, js, ps, ps)
BY DEF Grown

LEMMA SeqsWiden ==
  ASSUME NEW A, NEW B, A \subseteq B
  PROVE  Seq(A) \subseteq Seq(B)
<1> SUFFICES ASSUME NEW s \in Seq(A) PROVE s \in Seq(B)
  OBVIOUS
<1>1. Len(s) \in Nat /\ s \in [1..Len(s) -> A]
  OBVIOUS
<1> QED
  BY <1>1

LEMMA HeldOn ==
  ASSUME NEW r, NEW js, NEW js2, NEW ps, NEW ps2, Held(r, js, ps), Grown(js, js2, ps, ps2)
  PROVE  Held(r, js2, ps2)
<1>1. Len(js) \in Nat /\ Len(js2) \in Nat /\ Len(js) <= Len(js2) /\ Shaped(r, js)
  BY DEF Grown, Held
<1>2. Seq(1..Len(js)) \subseteq Seq(1..Len(js2))
  <2>1. 1..Len(js) \subseteq 1..Len(js2)
    BY <1>1
  <2> QED
    BY <2>1, SeqsWiden
<1>3. Shaped(r, js2)
  BY <1>1, <1>2 DEF Shaped
<1>4. r.target \in 0..Len(js) /\ r.chosen \in 0..Len(js)
  BY <1>1 DEF Shaped
<1>5. \A j \in 0..Len(js) : j # 0 => js2[j].on = js[j].on
  BY <1>1 DEF Grown
<1>6. Placed(r, js2)
  BY <1>4, <1>5 DEF Held, Placed, Appending
<1>7. \A j \in 0..Len(js) : j # 0 => (Moved(r, js2, j) <=> Moved(r, js, j))
  BY <1>5 DEF Moved
<1>8. Chose(r, js2)
  BY <1>4, <1>5, <1>7 DEF Held, Chose
<1>9. Appending(r) => r.target # 0
  BY DEF Held, Placed
<1>10. Reasoned(r, js2)
  BY <1>4, <1>7, <1>9 DEF Held, Reasoned, Appending
<1>11. Printed(r, ps2)
  BY DEF Held, Printed, Grown
<1> QED
  BY <1>3, <1>6, <1>8, <1>10, <1>11 DEF Held

LEMMA IdleHeld ==
  ASSUME NEW js \in Seq(Journal), NEW ps
  PROVE  Held(Idle, js, ps)
<1>1. Shaped(Idle, js)
  <2>1. <<>> \in Seq(1..Len(js)) /\ Len(js) \in Nat
    OBVIOUS
  <2>2. Idle.order = <<>>
    BY DEF Idle
  <2> QED
    BY <2>1 DEF Shaped, Idle, Points
<1>2. Placed(Idle, js)
  BY DEF Placed, Idle, Appending, Comes, Drafting
<1> QED
  BY <1>1, <1>2 DEF Held, Idle, Chose, Reasoned, Printed

\* A step of one composer.
LEMMA StepInv ==
  ASSUME Inv, NEW c \in Composers, NEW r,
         request' = [request EXCEPT ![c] = r],
         World', Counters', Files',
         Grown(journals, journals', papers, papers'), Held(r, journals', papers')
  PROVE  Inv'
<1>1. DOMAIN request' = Composers
  BY DEF Inv, Requests
<1>2. ASSUME NEW d \in Composers PROVE Held(request'[d], journals', papers')
  <2>1. CASE d = c
    BY <2>1 DEF Inv, Requests
  <2>2. CASE d # c
    <3>1. request'[d] = request[d] /\ Held(request[d], journals, papers)
      BY <2>2 DEF Inv, Requests
    <3> QED
      BY <3>1, HeldOn
  <2> QED
    BY <2>1, <2>2
<1>3. Requests'
  BY <1>1, <1>2 DEF Requests
<1> QED
  BY <1>3 DEF Inv

\* A step of one composer that leaves the files alone.
LEMMA QuietInv ==
  ASSUME Inv, NEW c \in Composers, NEW r,
         request' = [request EXCEPT ![c] = r], UNCHANGED <<world, prompt, files, written>>, Counters',
         Held(r, journals, papers)
  PROVE  Inv'
<1>1. World' /\ Files'
  BY DEF Inv, World, Files, files
<1>2. journals' = journals /\ papers' = papers
  BY DEF files
<1>3. Grown(journals, journals', papers, papers')
  BY <1>2, GrownIs DEF Inv, Files, Journals
<1> QED
  BY <1>1, <1>2, <1>3, StepInv

-----------------------------------------------------------------------------
(* The steps of a request, for any number of composers. *)

LEMMA Known ==
  ASSUME Inv, NEW c \in Composers
  PROVE  /\ request[c].at \in Points /\ Held(request[c], journals, papers)
         /\ journals \in Seq(Journal) /\ Len(journals) \in Nat /\ DOMAIN journals = 1..Len(journals)
         /\ \A j \in 1..Len(journals) : journals[j] \in Journal /\ journals[j].on \in Composition
         /\ recent \in Seq(1..Len(journals)) /\ ToSet(recent) = 1..Len(journals)
         /\ OpenJournals \subseteq 1..Len(journals)
<1>1. Held(request[c], journals, papers)
  BY DEF Inv, Requests
<1>2. request[c].at \in Points
  BY <1>1 DEF Held, Shaped
<1>3. /\ journals \in Seq(Journal) /\ Len(journals) \in Nat /\ DOMAIN journals = 1..Len(journals)
      /\ \A j \in 1..Len(journals) : journals[j] \in Journal
  BY DEF Inv, Files, Journals
<1>4. \A j \in 1..Len(journals) : journals[j].on \in Composition
  BY <1>3 DEF Journal
<1>5. recent \in Seq(1..Len(journals)) /\ ToSet(recent) = 1..Len(journals)
  BY DEF Inv, Files, Ordered
<1>6. OpenJournals \subseteq 1..Len(journals)
  BY <1>3 DEF OpenJournals
<1> QED
  BY <1>1, <1>2, <1>3, <1>4, <1>5, <1>6

LEMMA ListingCounts ==
  ASSUME NEW n \in Nat, NEW all \in SUBSET (1..n), NEW seen, failures \in Nat, Listing(all, seen)
  PROVE  failures' \in Nat /\ failures <= failures'
<1>1. IsFiniteSet(all \ seen)
  <2>1. IsFiniteSet(1..n)
    BY FS_Interval
  <2>2. all \ seen \in SUBSET (1..n)
    OBVIOUS
  <2> QED
    BY <2>1, <2>2, FS_Subset
<1>2. Cardinality(all \ seen) \in Nat
  BY <1>1, FS_CardinalityType
<1> QED
  BY <1>2 DEF Listing

LEMMA ThrowsInv ==
  ASSUME Inv, NEW c \in Composers, Throws(c),
         UNCHANGED <<world, prompt, files, written, skipped, changes, crashes>>
  PROVE  Inv'
<1>1. Counters'
  BY DEF Inv, Counters, Throws, Fails
<1>2. request' = [request EXCEPT ![c] = Idle]
  BY DEF Throws, Goes
<1>3. Held(Idle, journals, papers)
  BY Known, IdleHeld
<1> QED
  BY <1>1, <1>2, <1>3, QuietInv

\* A request that only goes on keeps what it has.
LEMMA AsksInv ==
  ASSUME Inv, NEW c \in Composers, Asks(c)
  PROVE  Inv'
<1>1. PICK r : r = [Idle EXCEPT !.at = "choosing", !.on = world]
  OBVIOUS
<1>2. request' = [request EXCEPT ![c] = r] /\ world \in Composition
  BY <1>1 DEF Asks, Goes, Inv, World
<1>3. Shaped(r, journals)
  <2>1. Shaped(Idle, journals)
    BY Known, IdleHeld DEF Held
  <2> QED
    BY <1>1, <1>2, <2>1 DEF Shaped, Points
<1>4. /\ r.at = "choosing" /\ r.on \in Composition /\ r.todo = {} /\ r.chosen = 0
  BY <1>1, <1>2 DEF Idle
<1>5. Held(r, journals, papers)
  BY <1>3, <1>4 DEF Held, Placed, Appending, Comes, Drafting, Chose, Reasoned, Printed
<1>6. Counters'
  BY DEF Asks, Inv, Counters
<1> QED
  BY <1>2, <1>5, <1>6, QuietInv DEF Asks

LEMMA ChoosesInv ==
  ASSUME Inv, NEW c \in Composers, Chooses(c)
  PROVE  Inv'
<1>1. CASE Throws(c)
  BY <1>1, ThrowsInv DEF Chooses
<1>2. ASSUME ~Throws(c) PROVE Inv'
  <2>0. PICK r : r = request[c]
    OBVIOUS
  <2>a. PICK seen \in SUBSET OpenJournals :
          LET j == Latest(recent, seen)
              x == [r EXCEPT !.at = "opening", !.chosen = IF seen = {} THEN 0 ELSE j]
              again == PlannedAgain(r.on, j)
          IN  /\ Listing(OpenJournals, seen)
              /\ Goes(c, CASE seen = {} -> x
                            [] seen # {} /\ again = journals[j].on -> [x EXCEPT !.on = again]
                            [] seen # {} /\ again # journals[j].on /\ again = r.on /\ r.on.shape \in Flat -> x
                            [] OTHER -> WillAppend(x, j, Discarded("reuse-incompatible"), "opening"))
    BY <1>2, <2>0 DEF Chooses
  <2>1. PICK j, x, again :
          /\ j = Latest(recent, seen) /\ again = PlannedAgain(r.on, j)
          /\ x = [r EXCEPT !.at = "opening", !.chosen = IF seen = {} THEN 0 ELSE j]
          /\ Listing(OpenJournals, seen)
          /\ Goes(c, CASE seen = {} -> x
                       [] seen # {} /\ again = journals[j].on -> [x EXCEPT !.on = again]
                       [] seen # {} /\ again # journals[j].on /\ again = r.on /\ r.on.shape \in Flat -> x
                       [] OTHER -> WillAppend(x, j, Discarded("reuse-incompatible"), "opening"))
    BY <2>a, Zenon
  <2>2. /\ Held(r, journals, papers) /\ r.at = "choosing" /\ r.on \in Composition
        /\ UNCHANGED <<world, prompt, files, written, skipped, changes, crashes>>
    BY <2>0, Known DEF Chooses, Held, Placed
  <2>3. Counters'
    <3>1. OpenJournals \in SUBSET (1..Len(journals)) /\ Len(journals) \in Nat /\ failures \in Nat
      BY Known DEF Inv, Counters
    <3>2. failures' \in Nat
      BY <2>1, <3>1, ListingCounts
    <3> QED
      BY <2>2, <3>2 DEF Inv, Counters
  <2>4. seen # {} => /\ j \in seen /\ j \in 1..Len(journals)
                     /\ journals[j].on \in Composition /\ again \in Composition
    <3>1. ASSUME seen # {} PROVE j \in seen
      BY <2>1, <3>1, Known, LatestIs
    <3>2. ASSUME seen # {} PROVE j \in 1..Len(journals) /\ journals[j].on \in Composition
      BY <3>1, <3>2, Known
    <3>3. ASSUME seen # {} PROVE again \in Composition
      BY <2>1, <2>2, <3>2, <3>3 DEF PlannedAgain, Composition
    <3> QED
      BY <3>1, <3>2, <3>3
  <2>5. Len(journals) \in Nat
    BY Known
  <2>6. Shaped(x, journals) /\ x.at = "opening" /\ x.on = r.on /\ x.todo = r.todo /\ x.order = r.order
    <3>1. PICK n : n = IF seen = {} THEN 0 ELSE j
      OBVIOUS
    <3>2. n \in 0..Len(journals) /\ x = [r EXCEPT !.at = "opening", !.chosen = n]
      BY <2>1, <2>4, <2>5, <3>1
    <3> QED
      BY <2>2, <2>5, <3>2 DEF Held, Shaped, Points
  <2>7. x.chosen = IF seen = {} THEN 0 ELSE j
    BY <2>1, <2>2 DEF Held, Shaped
  <2>8. CASE seen = {} \/ (again # journals[j].on /\ again = r.on /\ r.on.shape \in Flat)
    <3>1. request' = [request EXCEPT ![c] = x]
      BY <2>1, <2>8 DEF Goes
    <3>2. Chose(x, journals)
      BY <2>1, <2>6, <2>7, <2>8 DEF Chose, Moved, PlannedAgain
    <3>3. Held(x, journals, papers)
      BY <2>2, <2>6, <3>2 DEF Held, Placed, Appending, Comes, Drafting, Reasoned, Printed
    <3> QED
      BY <2>2, <2>3, <3>1, <3>3, QuietInv
  <2>9. CASE seen # {} /\ again = journals[j].on
    <3>1. PICK y : y = [x EXCEPT !.on = again]
      OBVIOUS
    <3>2. request' = [request EXCEPT ![c] = y]
      BY <2>1, <2>9, <3>1 DEF Goes
    <3>3. /\ Shaped(y, journals) /\ y.at = "opening" /\ y.on = again /\ y.todo = r.todo
          /\ y.order = r.order /\ y.chosen = j
      BY <2>4, <2>6, <2>7, <2>9, <3>1 DEF Shaped
    <3>4. Chose(y, journals)
      BY <2>9, <3>3 DEF Chose
    <3>5. Held(y, journals, papers)
      BY <2>2, <2>4, <2>9, <3>3, <3>4
      DEF Held, Placed, Appending, Comes, Drafting, Reasoned, Printed
    <3> QED
      BY <2>2, <2>3, <3>2, <3>5, QuietInv
  <2>10. CASE /\ ~(seen # {} /\ again = journals[j].on)
              /\ ~(seen = {} \/ (again # journals[j].on /\ again = r.on /\ r.on.shape \in Flat))
    <3>0. PICK e : e = Discarded("reuse-incompatible")
      OBVIOUS
    <3>a. seen # {} /\ again # journals[j].on
      BY <2>10, Zenon
    <3>1. PICK y : y = WillAppend(x, j, e, "opening")
      OBVIOUS
    <3>2. request' = [request EXCEPT ![c] = y]
      BY <2>1, <2>10, <3>0, <3>1 DEF Goes
    <3>3. e \in Events
      BY <3>0, EventsAre DEF Whys
    <3>4. j \in 0..Len(journals) /\ j # 0
      BY <2>4, <2>5, <3>a
    <3>5. /\ Shaped(y, journals) /\ y.at = "folding" /\ y.next = "opening" /\ y.on = r.on
          /\ y.todo = r.todo /\ y.order = r.order /\ y.chosen = j /\ y.target = j /\ y.event = e
      BY <2>6, <2>7, <3>a, <3>1, <3>3, <3>4 DEF Shaped, WillAppend, Points
    <3>6. Moved(y, journals, j)
      BY <2>1, <3>a, <3>5 DEF Moved, PlannedAgain
    <3>7. e # Completed
      BY <3>0 DEF Discarded, Completed
    <3>8. Held(y, journals, papers)
      BY <2>2, <3>3, <3>4, <3>5, <3>6, <3>7
      DEF Held, Placed, Appending, Comes, Drafting, Chose, Reasoned, Printed
    <3> QED
      BY <2>2, <2>3, <3>2, <3>8, QuietInv
  <2> QED
    BY <2>8, <2>9, <2>10
<1> QED
  BY <1>1, <1>2

LEMMA OpensInv ==
  ASSUME Inv, NEW c \in Composers, Opens(c)
  PROVE  Inv'
<1>1. CASE Throws(c)
  BY <1>1, ThrowsInv DEF Opens
<1>2. ASSUME ~Throws(c) PROVE Inv'
  <2>0. PICK r : r = request[c]
    OBVIOUS
  <2>1. PICK seen \in SUBSET OpenJournals :
          LET kept == IF Reusable(seen, r.on) = {} THEN 0 ELSE Latest(recent, Reusable(seen, r.on))
          IN  /\ Listing(OpenJournals, seen)
              /\ Goes(c, [r EXCEPT !.at = "discarding", !.todo = Others(seen, kept),
                                   !.order = recent, !.missed = OpenJournals \ seen,
                                   !.journal = kept])
    BY <1>2, <2>0 DEF Opens
  <2>2. PICK kept : kept = IF Reusable(seen, r.on) = {} THEN 0 ELSE Latest(recent, Reusable(seen, r.on))
    OBVIOUS
  <2>3. /\ Listing(OpenJournals, seen)
        /\ Goes(c, [r EXCEPT !.at = "discarding", !.todo = Others(seen, kept),
                             !.order = recent, !.missed = OpenJournals \ seen, !.journal = kept])
    BY <2>1, <2>2, Zenon
  <2>4. PICK y : y = [r EXCEPT !.at = "discarding", !.todo = Others(seen, kept),
                               !.order = recent, !.missed = OpenJournals \ seen, !.journal = kept]
    OBVIOUS
  <2>5. request' = [request EXCEPT ![c] = y]
    BY <2>3, <2>4, Zenon DEF Goes
  <2>6. /\ Held(r, journals, papers) /\ r.at = "opening" /\ r.on \in Composition
        /\ UNCHANGED <<world, prompt, files, written, skipped, changes, crashes>>
    BY <2>0, Known DEF Opens, Held, Placed
  <2>7. Counters'
    <3>1. OpenJournals \in SUBSET (1..Len(journals)) /\ Len(journals) \in Nat /\ failures \in Nat
      BY Known DEF Inv, Counters
    <3>2. failures' \in Nat
      BY <2>3, <3>1, ListingCounts
    <3> QED
      BY <2>6, <3>2 DEF Inv, Counters
  <2>8. kept \in 0..Len(journals)
    <3>1. Reusable(seen, r.on) \subseteq seen /\ seen \subseteq 1..Len(journals)
      BY Known DEF Reusable
    <3>2. CASE Reusable(seen, r.on) # {}
      <4>1. kept \in Reusable(seen, r.on)
        BY <2>2, <3>1, <3>2, Known, LatestIs
      <4>2. kept \in 1..Len(journals) /\ Len(journals) \in Nat
        BY <3>1, <4>1, Known
      <4> QED
        BY <4>2
    <3> QED
      BY <2>2, <3>2, Known
  <2>9. /\ Shaped(y, journals) /\ y.at = "discarding" /\ y.on = r.on /\ y.chosen = r.chosen
        /\ y.todo \subseteq 1..Len(journals) /\ y.order = recent
    <3>1. Others(seen, kept) \in SUBSET (1..Len(journals))
      BY Known DEF Others
    <3>2. OpenJournals \ seen \in SUBSET (1..Len(journals)) /\ recent \in Seq(1..Len(journals))
      BY Known
    <3>3. Shaped(r, journals)
      BY <2>6 DEF Held
    <3> QED
      BY <2>4, <2>8, <3>1, <3>2, <3>3 DEF Shaped, Points
  <2>10. ToSet(recent) = 1..Len(journals)
    BY Known
  <2>11. Held(y, journals, papers)
    BY <2>6, <2>9, <2>10
    DEF Held, Placed, Appending, Comes, Drafting, Chose, Moved, Reasoned, Printed
  <2> QED
    BY <2>5, <2>6, <2>7, <2>11, QuietInv
<1> QED
  BY <1>1, <1>2

LEMMA DiscardsNextInv ==
  ASSUME Inv, NEW c \in Composers, DiscardsNext(c)
  PROVE  Inv'
<1>0. PICK r, j, e, x, y :
        /\ r = request[c] /\ j = Latest(r.order, r.todo)
        /\ e = Discarded(IF journals[j].on = r.on THEN "abandoned" ELSE "reuse-incompatible")
        /\ x = [r EXCEPT !.todo = @ \ {j}] /\ y = WillAppend(x, j, e, "discarding")
  OBVIOUS
<1>1. r.at = "discarding" /\ r.todo # {} /\ request' = [request EXCEPT ![c] = y]
  BY <1>0, Zenon DEF DiscardsNext, Goes
<1>2. Held(r, journals, papers)
  BY <1>0, Known
<1>3. r.order \in Seq(1..Len(journals)) /\ r.todo \in SUBSET (1..Len(journals)) /\ r.todo \subseteq ToSet(r.order)
  BY <1>2 DEF Held, Shaped, Placed
<1>4. j \in r.todo /\ j \in 1..Len(journals) /\ j \in 0..Len(journals) /\ j # 0
  <2>1. j \in r.todo
    BY <1>0, <1>1, <1>3, LatestIs
  <2> QED
    BY <1>3, <2>1, Known
<1>5. e \in Events /\ e # Completed
  BY <1>0, EventsAre DEF Whys, Discarded, Completed
<1>6. Shaped(x, journals)
  <2>1. r.todo \ {j} \in SUBSET (1..Len(journals))
    BY <1>3
  <2> QED
    BY <1>0, <1>2, <2>1 DEF Held, Shaped
<1>7. x.todo = r.todo \ {j} /\ x.on = r.on /\ x.order = r.order /\ x.chosen = r.chosen
  BY <1>0, <1>2 DEF Held, Shaped
<1>8. /\ Shaped(y, journals) /\ y.at = "folding" /\ y.next = "discarding" /\ y.on = r.on
      /\ y.todo = r.todo \ {j} /\ y.order = r.order /\ y.chosen = r.chosen /\ y.target = j /\ y.event = e
  <2>1. y = WillAppend(x, j, e, "discarding")
    BY <1>0
  <2>2. "folding" \in Points
    BY DEF Points
  <2> QED
    BY <1>4, <1>5, <1>6, <1>7, <2>1, <2>2 DEF WillAppend, Shaped
<1>9. ASSUME e = Discarded("reuse-incompatible") PROVE Moved(y, journals, j)
  <2>1. journals[j].on # r.on
    BY <1>0, <1>9 DEF Discarded
  <2>2. CASE r.chosen = j
    <3>1. Moved(r, journals, j)
      BY <1>1, <1>2, <1>4, <2>1, <2>2 DEF Held, Chose
    <3> QED
      BY <1>8, <3>1 DEF Moved
  <2>3. CASE r.chosen # j
    BY <1>8, <2>3 DEF Moved
  <2> QED
    BY <2>2, <2>3
<1>10. Held(y, journals, papers)
  <2>1. Placed(y, journals)
    BY <1>1, <1>2, <1>3, <1>4, <1>5, <1>8 DEF Held, Placed, Appending, Comes, Drafting
  <2>2. Chose(y, journals)
    BY <1>1, <1>2, <1>8 DEF Held, Chose, Moved
  <2>3. Reasoned(y, journals) /\ Printed(y, papers)
    BY <1>5, <1>8, <1>9 DEF Reasoned, Printed
  <2> QED
    BY <1>8, <2>1, <2>2, <2>3 DEF Held
<1>11. Counters'
  BY DEF DiscardsNext, Inv, Counters
<1> QED
  BY <1>1, <1>10, <1>11, QuietInv DEF DiscardsNext

LEMMA ResumesInv ==
  ASSUME Inv, NEW c \in Composers, Resumes(c)
  PROVE  Inv'
<1>1. PICK r, y : r = request[c] /\ y = [r EXCEPT !.at = "loading", !.order = <<>>]
  OBVIOUS
<1>2. /\ Held(r, journals, papers) /\ r.at = "discarding" /\ r.todo = {} /\ r.journal # 0
      /\ request' = [request EXCEPT ![c] = y]
  BY <1>1, Known DEF Resumes, Goes
<1>3. <<>> \in Seq(1..Len(journals))
  OBVIOUS
<1>4. /\ Shaped(y, journals) /\ y.at = "loading" /\ y.on = r.on /\ y.todo = {} /\ y.chosen = r.chosen
      /\ y.journal = r.journal
  BY <1>1, <1>2, <1>3 DEF Held, Shaped, Points, Drafting
<1>5. Held(y, journals, papers)
  BY <1>2, <1>4 DEF Held, Placed, Appending, Comes, Drafting, Chose, Moved, Reasoned, Printed
<1>6. Counters'
  BY DEF Resumes, Inv, Counters
<1> QED
  BY <1>2, <1>5, <1>6, QuietInv DEF Resumes

\* A journal opened.
LEMMA OpenedFiles ==
  ASSUME Inv, NEW comp \in Composition,
         journals' = Append(journals, Opened(comp)), Updated(Len(journals')),
         written' = Append(written, 0), papers' = papers
  PROVE  /\ Files' /\ Grown(journals, journals', papers, papers')
         /\ Len(journals') = Len(journals) + 1 /\ journals'[Len(journals')] = Opened(comp)
         /\ \A j \in 1..Len(journals) : journals'[j] = journals[j]
<1>1. PICK js, n : js = journals' /\ n = Len(journals)
  OBVIOUS
<1>2. /\ journals \in Seq(Journal) /\ n \in Nat
      /\ \A j \in 1..n : journals[j] \in Journal /\ SaysWhy(journals[j])
      /\ \A j \in 1..n : journals[j].status = "completed" => HasPaper(papers, j)
  BY <1>1 DEF Inv, Files, Journals
<1>3. js = Append(journals, Opened(comp)) /\ Opened(comp) \in Journal
  BY <1>1, OpenedIs
<1>4. /\ js \in Seq(Journal) /\ Len(js) = n + 1 /\ js[n + 1] = Opened(comp)
      /\ \A j \in 1..n : js[j] = journals[j]
  BY <1>1, <1>2, <1>3
<1>5. Journals(js, papers)
  <2>1. ASSUME NEW j \in 1..Len(js)
        PROVE  SaysWhy(js[j]) /\ (js[j].status = "completed" => HasPaper(papers, j))
    <3>1. CASE j = n + 1
      BY <1>4, <3>1, OpenedIs
    <3>2. CASE j # n + 1
      <4>1. j \in 1..n
        BY <1>2, <1>4, <3>2
      <4> QED
        BY <1>2, <1>4, <4>1
    <3> QED
      BY <3>1, <3>2
  <2> QED
    BY <1>4, <2>1 DEF Journals
<1>6. Ordered(js, recent', written')
  <2>1. /\ recent \in Seq(1..n) /\ ToSet(recent) = 1..n /\ Len(recent) = n
        /\ written \in Seq(Nat) /\ Len(written) = n
    BY <1>1 DEF Inv, Files, Ordered
  <2>2. recent' = Append(RemoveFirst(recent, n + 1), n + 1)
    BY <1>1, <1>4 DEF Updated
  <2>3. recent' \in Seq(1..(n + 1)) /\ ToSet(recent') = 1..(n + 1) /\ Len(recent') = n + 1
    BY <1>2, <2>1, <2>2, Extended
  <2>4. written' \in Seq(Nat) /\ Len(written') = n + 1
    BY <2>1
  <2> QED
    BY <1>4, <2>3, <2>4 DEF Ordered
<1>7. papers' \in Seq(Paper(Len(js)))
  <2>1. Paper(n) \subseteq Paper(n + 1)
    BY <1>2 DEF Paper
  <2>2. papers \in Seq(Paper(n))
    BY <1>1 DEF Inv, Files
  <2> QED
    BY <1>4, <2>1, <2>2, SeqsWiden
<1>8. Files'
  BY <1>1, <1>5, <1>6, <1>7 DEF Files
<1>9. Grown(journals, js, papers, papers)
  BY <1>1, <1>2, <1>4 DEF Grown
<1> QED
  BY <1>1, <1>4, <1>8, <1>9

LEMMA BeginsInv ==
  ASSUME Inv, NEW c \in Composers, Begins(c)
  PROVE  Inv'
<1>0. PICK r : r = request[c]
  OBVIOUS
<1>1. /\ Held(r, journals, papers) /\ r.at = "discarding" /\ r.todo = {} /\ r.on \in Composition
      /\ UNCHANGED <<world, prompt, papers, skipped, changes, crashes>>
  BY <1>0, Known DEF Begins, Held, Placed
<1>2. CASE Throws(c) /\ UNCHANGED <<journals, recent, written>>
  BY <1>1, <1>2, ThrowsInv DEF files
<1>3. CASE /\ journals' = Append(journals, Opened(r.on)) /\ Updated(Len(journals'))
           /\ written' = Append(written, 0)
  <2>1. /\ Files' /\ Grown(journals, journals', papers, papers')
        /\ Len(journals') = Len(journals) + 1 /\ journals'[Len(journals')] = Opened(r.on)
    BY <1>1, <1>3, OpenedFiles
  <2>2. World'
    BY <1>1 DEF Inv, World
  <2>3. CASE Throws(c)
    <3>1. Counters' /\ request' = [request EXCEPT ![c] = Idle]
      BY <1>1, <2>3 DEF Inv, Counters, Throws, Fails, Goes
    <3>2. Held(Idle, journals', papers')
      BY <2>1, IdleHeld DEF Grown
    <3> QED
      BY <2>1, <2>2, <3>1, <3>2, StepInv
  <2>4. CASE Goes(c, [r EXCEPT !.at = "loading", !.order = <<>>, !.journal = Len(journals')]) /\ UNCHANGED failures
    <3>1. PICK n, y : n = Len(journals') /\ y = [r EXCEPT !.at = "loading", !.order = <<>>, !.journal = n]
      OBVIOUS
    <3>2. request' = [request EXCEPT ![c] = y]
      BY <2>4, <3>1 DEF Goes
    <3>3. Held(r, journals', papers')
      BY <1>1, <2>1, HeldOn
    <3>4. n \in 0..Len(journals') /\ n # 0 /\ <<>> \in Seq(1..Len(journals'))
      BY <2>1, <3>1, Known
    <3>5. /\ Shaped(y, journals') /\ y.at = "loading" /\ y.on = r.on /\ y.todo = {} /\ y.chosen = r.chosen
          /\ y.journal = n
      BY <1>1, <3>1, <3>3, <3>4 DEF Held, Shaped, Points, Drafting
    <3>6. Held(y, journals', papers')
      BY <1>1, <3>3, <3>4, <3>5 DEF Held, Placed, Appending, Comes, Drafting, Chose, Moved, Reasoned, Printed
    <3>7. Counters'
      BY <1>1, <2>4 DEF Inv, Counters
    <3> QED
      BY <2>1, <2>2, <3>2, <3>6, <3>7, StepInv
  <2> QED
    BY <1>0, <1>3, <2>3, <2>4 DEF Begins
<1> QED
  BY <1>0, <1>2, <1>3 DEF Begins

LEMMA StopsInv ==
  ASSUME Inv, NEW c \in Composers, Goes(c, Idle), UNCHANGED <<world, prompt, files, written>>, Counters'
  PROVE  Inv'
<1>1. request' = [request EXCEPT ![c] = Idle]
  BY DEF Goes
<1>2. Held(Idle, journals, papers)
  BY Known, IdleHeld
<1> QED
  BY <1>1, <1>2, QuietInv

LEMMA LoadsInv ==
  ASSUME Inv, NEW c \in Composers, Loads(c)
  PROVE  Inv'
<1>0. PICK r, y : r = request[c] /\ y = [r EXCEPT !.at = "drafting", !.copy = journals[r.journal]]
  OBVIOUS
<1>1. /\ Held(r, journals, papers) /\ r.at = "loading"
      /\ UNCHANGED <<world, prompt, files, written, skipped, changes, crashes>>
  BY <1>0, Known DEF Loads
<1>2. r.journal \in 1..Len(journals)
  <2>1. r.journal \in 0..Len(journals) /\ r.journal # 0
    BY <1>1 DEF Held, Shaped, Placed, Comes, Appending, Drafting
  <2> QED
    BY <2>1, Known
<1>3. CASE Throws(c)
  BY <1>1, <1>3, ThrowsInv
<1>4. CASE ~Throws(c)
  <2>1. Counters'
    BY <1>1, <1>4 DEF Loads, Inv, Counters
  <2>2. CASE ~IsOpen(r.journal)
    <3>1. Goes(c, Idle)
      BY <1>0, <1>4, <2>2 DEF Loads
    <3> QED
      BY <1>1, <2>1, <3>1, StopsInv
  <2>3. CASE IsOpen(r.journal)
    <3>1. request' = [request EXCEPT ![c] = y]
      BY <1>0, <1>4, <2>3 DEF Loads, Goes
    <3>2. PICK x : x = journals[r.journal] /\ x \in Journal
      BY <1>2, Known
    <3>3. y = [r EXCEPT !.at = "drafting", !.copy = x]
      BY <1>0, <3>2
    <3>4. /\ Shaped(y, journals) /\ y.at = "drafting" /\ y.on = r.on /\ y.todo = r.todo /\ y.chosen = r.chosen
          /\ y.journal = r.journal /\ y.order = r.order /\ y.copy = x
      BY <1>1, <3>2, <3>3 DEF Held, Shaped, Points, Drafting
    <3>5. Held(y, journals, papers)
      BY <1>1, <1>2, <3>2, <3>4, Known
      DEF Held, Placed, Appending, Comes, Drafting, Chose, Moved, Reasoned, Printed
    <3> QED
      BY <1>1, <2>1, <3>1, <3>5, QuietInv
  <2> QED
    BY <2>2, <2>3
<1> QED
  BY <1>3, <1>4

\* A request that drafts has a journal; one that asks for a part has its slot.
LEMMA Drafted ==
  ASSUME Inv, NEW c \in Composers, NEW r, r = request[c]
  PROVE  /\ Held(r, journals, papers) /\ Shaped(r, journals) /\ r.todo \subseteq ToSet(r.order)
         /\ r.at # "idle" => r.on \in Composition
         /\ r.at \in Drafting => r.journal \in 1..Len(journals)
         /\ r.at \in {"drafting", "asking", "ended", "creating"} =>
              r.copy \in Journal /\ r.copy.on \in Composition /\ r.copy.on.shape \in Shape
         /\ r.at = "asking" => r.pos \in DOMAIN Plan[r.copy.on.shape] /\ At(r, r.pos) \in Slot
<1>1. Held(r, journals, papers) /\ Len(journals) \in Nat
  BY Known
<1>2. Shaped(r, journals) /\ r.todo \subseteq ToSet(r.order) /\ (r.at # "idle" => r.on \in Composition)
  BY <1>1 DEF Held, Placed
<1>3. r.at \in Drafting => r.journal \in 0..Len(journals) /\ r.journal # 0
  BY <1>1 DEF Held, Placed, Shaped, Comes, Appending, Drafting
<1>4. r.at \in {"drafting", "asking", "ended", "creating"} =>
        r.copy \in Journal /\ r.copy.on \in Composition /\ r.copy.on.shape \in Shape
  BY <1>1 DEF Held, Placed, Journal, Composition
<1>5. r.at = "asking" => r.pos \in DOMAIN Plan[r.copy.on.shape] /\ At(r, r.pos) \in Slot
  <2>1. \A h \in Shape : Plan[h] \in Seq(Slot)
    BY Assumption
  <2> QED
    BY <1>1, <1>4, <2>1 DEF Held, Placed, At
<1> QED
  BY <1>1, <1>2, <1>3, <1>4, <1>5

Ready(x, js) ==
  /\ Shaped(x, js) /\ Chose(x, js) /\ x.todo \subseteq ToSet(x.order)
  /\ x.at # "idle" /\ x.on \in Composition /\ x.journal # 0

Own(e, nx) ==
  /\ e \in Events /\ e # Completed /\ e # Discarded("reuse-incompatible")
  /\ nx \in {"idle", "drafting", "ended"}

ToAppend(y, x, e, nx) == y = WillAppend(x, x.journal, e, nx)

LEMMA AppendsHeld ==
  ASSUME NEW js, NEW ps, NEW x, NEW e, NEW nx, NEW y, Ready(x, js), Own(e, nx), ToAppend(y, x, e, nx)
  PROVE  /\ Held(y, js, ps) /\ Shaped(y, js) /\ y.at = "folding" /\ y.next = nx /\ y.event = e
         /\ y.target = x.journal /\ y.journal = x.journal /\ y.on = x.on /\ y.copy = x.copy
         /\ y.missed = x.missed
<1>2. "folding" \in Points
  BY DEF Points
<1>3. /\ Shaped(y, js) /\ y.at = "folding" /\ y.next = nx /\ y.event = e /\ y.target = x.journal
      /\ y.journal = x.journal /\ y.on = x.on /\ y.todo = x.todo /\ y.order = x.order
      /\ y.chosen = x.chosen /\ y.copy = x.copy /\ y.missed = x.missed
  BY <1>2 DEF Shaped, WillAppend, Ready, Own, ToAppend
<1>4. Placed(y, js)
  BY <1>3 DEF Placed, Appending, Comes, Ready, Own, Drafting
<1>5. Chose(y, js)
  BY <1>3 DEF Chose, Moved, Ready
<1>6. Reasoned(y, js) /\ Printed(y, ps)
  BY <1>3 DEF Reasoned, Printed, Own
<1> QED
  BY <1>3, <1>4, <1>5, <1>6 DEF Held

LEMMA DraftsInv ==
  ASSUME Inv, NEW c \in Composers, Drafts(c)
  PROVE  Inv'
<1>0. PICK r : r = request[c]
  OBVIOUS
<1>1. /\ Held(r, journals, papers) /\ Shaped(r, journals) /\ r.at = "drafting" /\ r.on \in Composition
      /\ r.journal \in 1..Len(journals) /\ r.copy \in Journal /\ r.todo \subseteq ToSet(r.order)
      /\ r.copy.on.shape \in Shape
  BY <1>0, Drafted DEF Drafts, Drafting
<1>2. Counters' /\ UNCHANGED <<world, prompt, files, written>>
  BY DEF Drafts, Inv, Counters
<1>3. ASSUME NEW y, y = [r EXCEPT !.at = "ended"], Goes(c, y) PROVE Inv'
  <2>1. /\ Shaped(y, journals) /\ y.at = "ended" /\ y.on = r.on /\ y.todo = r.todo /\ y.chosen = r.chosen
        /\ y.journal = r.journal /\ y.order = r.order /\ y.copy = r.copy
    BY <1>1, <1>3 DEF Shaped, Points, Drafting
  <2>2. Held(y, journals, papers)
    BY <1>1, <2>1 DEF Held, Placed, Appending, Comes, Drafting, Chose, Moved, Reasoned, Printed
  <2> QED
    BY <1>2, <1>3, <2>2, QuietInv DEF Goes
<1>4. ASSUME NEW i \in Unsettled(r),
             Goes(c, CASE EmptyNeeds(r, At(r, i)) # {} ->
                            WillAppend([r EXCEPT !.pos = i + 1], r.journal, Ends(At(r, i), Depends), "drafting")
                       [] EmptyNeeds(r, At(r, i)) = {} /\ OwedNeeds(r, At(r, i)) # {} ->
                            [r EXCEPT !.at = "ended"]
                       [] OTHER -> [r EXCEPT !.at = "asking", !.pos = i, !.tries = 0])
      PROVE  Inv'
  <2>1. i \in Nat \ {0} /\ i + 1 \in Nat \ {0} /\ i \in DOMAIN Plan[r.copy.on.shape] /\ At(r, i) \in Slot
    <3>1. Plan[r.copy.on.shape] \in Seq(Slot)
      BY <1>1, Assumption
    <3>2. r.pos \in Nat \ {0} /\ i \in r.pos..Len(Plan[r.copy.on.shape])
      BY <1>1 DEF Shaped, Unsettled
    <3> QED
      BY <3>1, <3>2 DEF At
  <2>2. CASE EmptyNeeds(r, At(r, i)) # {}
    <3>1. PICK x, e : x = [r EXCEPT !.pos = i + 1] /\ e = Ends(At(r, i), Depends)
      OBVIOUS
    <3>2. request' = [request EXCEPT ![c] = WillAppend(x, r.journal, e, "drafting")]
      BY <1>4, <2>2, <3>1 DEF Goes
    <3>3. e \in Events /\ e # Completed /\ e # Discarded("reuse-incompatible")
      <4>1. e \in Events
        BY <2>1, <3>1, EventsAre, OutcomesAre
      <4> QED
        BY <3>1, <4>1 DEF Ends, Completed, Discarded
    <3>4. /\ Shaped(x, journals) /\ x.at = "drafting" /\ x.on = r.on /\ x.todo = r.todo
          /\ x.order = r.order /\ x.chosen = r.chosen /\ x.journal = r.journal
      BY <1>1, <2>1, <3>1 DEF Shaped
    <3>5. Chose(x, journals)
      BY <1>1, <3>4 DEF Held, Chose, Moved
    <3>6. x.journal # 0 /\ journals \in Seq(Journal)
      BY <1>1, <3>4, Known
    <3>7. PICK y : ToAppend(y, x, e, "drafting")
      BY DEF ToAppend
    <3>8. Ready(x, journals)
      BY <1>1, <3>4, <3>5, <3>6 DEF Ready
    <3>9. Own(e, "drafting")
      BY <3>3 DEF Own
    <3>10. Held(y, journals, papers)
      BY <3>7, <3>8, <3>9, AppendsHeld
    <3>11. request' = [request EXCEPT ![c] = y]
      BY <3>2, <3>4, <3>7 DEF ToAppend
    <3> QED
      BY <1>2, <3>10, <3>11, QuietInv
  <2>3. CASE EmptyNeeds(r, At(r, i)) = {} /\ OwedNeeds(r, At(r, i)) # {}
    BY <1>3, <1>4, <2>3
  <2>4. CASE EmptyNeeds(r, At(r, i)) = {} /\ OwedNeeds(r, At(r, i)) = {}
    <3>1. PICK y : y = [r EXCEPT !.at = "asking", !.pos = i, !.tries = 0]
      OBVIOUS
    <3>2. request' = [request EXCEPT ![c] = y]
      BY <1>4, <2>4, <3>1 DEF Goes
    <3>3. /\ Shaped(y, journals) /\ y.at = "asking" /\ y.on = r.on /\ y.todo = r.todo /\ y.chosen = r.chosen
          /\ y.journal = r.journal /\ y.order = r.order /\ y.copy = r.copy /\ y.pos = i
      BY <1>1, <2>1, <3>1 DEF Shaped, Points, Drafting
    <3>4. Held(y, journals, papers)
      BY <1>1, <2>1, <3>3 DEF Held, Placed, Appending, Comes, Drafting, Chose, Moved, Reasoned, Printed
    <3> QED
      BY <1>2, <3>2, <3>4, QuietInv
  <2> QED
    BY <2>2, <2>3, <2>4
<1>5. CASE Goes(c, [r EXCEPT !.at = "ended"])
  BY <1>3, <1>5
<1> QED
  BY <1>0, <1>4, <1>5 DEF Drafts

LEMMA IsWrittenInv ==
  ASSUME Inv, NEW c \in Composers, IsWritten(c)
  PROVE  Inv'
<1>0. PICK r, s : r = request[c] /\ s = At(r, r.pos)
  OBVIOUS
<1>1. /\ Held(r, journals, papers) /\ Shaped(r, journals) /\ r.at = "asking" /\ r.on \in Composition
      /\ r.journal \in 1..Len(journals) /\ r.todo \subseteq ToSet(r.order) /\ s \in Slot
      /\ r.journal # 0 /\ journals \in Seq(Journal) /\ r.pos \in Nat \ {0} /\ r.pos + 1 \in Nat \ {0}
  <2>1. r.at = "asking" /\ r.at \in Drafting
    BY <1>0 DEF IsWritten, Drafting
  <2>2. /\ Held(r, journals, papers) /\ Shaped(r, journals) /\ r.on \in Composition
        /\ r.journal \in 1..Len(journals) /\ r.todo \subseteq ToSet(r.order) /\ s \in Slot
    BY <1>0, <2>1, Drafted
  <2>3. r.pos \in Nat \ {0}
    BY <2>2 DEF Shaped
  <2> QED
    BY <2>1, <2>2, <2>3, Known
<1>2. PICK x, e, nx :
        /\ x = (IF Mixes(r, s) THEN r ELSE [r EXCEPT !.pos = @ + 1])
        /\ e = (IF Mixes(r, s) THEN Discarded("authoring-spec-changed")
                ELSE Ends(s, Landed(prompt[Task[s]], r.on)))
        /\ nx = (IF Mixes(r, s) THEN "idle" ELSE "drafting")
  OBVIOUS
<1>3. request' = [request EXCEPT ![c] = WillAppend(x, r.journal, e, nx)]
  <2>1. CASE Mixes(r, s)
    BY <1>0, <1>2, <2>1 DEF IsWritten, Goes
  <2>2. CASE ~Mixes(r, s)
    BY <1>0, <1>2, <2>2 DEF IsWritten, Goes
  <2> QED
    BY <2>1, <2>2
<1>4. e \in Events /\ e # Completed /\ e # Discarded("reuse-incompatible")
  <2>1. CASE Mixes(r, s)
    BY <1>2, <2>1, EventsAre DEF Whys, Discarded, Completed
  <2>2. CASE ~Mixes(r, s)
    <3>1. prompt[Task[s]] \in Version
      BY <1>1 DEF Inv, World, Tasks
    <3>2. Landed(prompt[Task[s]], r.on) \in Outcome
      BY <1>1, <3>1, OutcomesAre
    <3>3. e = Ends(s, Landed(prompt[Task[s]], r.on)) /\ e \in Events
      BY <1>1, <1>2, <2>2, <3>2, EventsAre
    <3> QED
      BY <3>3 DEF Ends, Completed, Discarded
  <2> QED
    BY <2>1, <2>2
<1>5. /\ Shaped(x, journals) /\ x.at = "asking" /\ x.on = r.on /\ x.todo = r.todo
      /\ x.order = r.order /\ x.chosen = r.chosen /\ x.journal = r.journal
  <2>1. CASE Mixes(r, s)
    BY <1>1, <1>2, <2>1
  <2>2. CASE ~Mixes(r, s)
    <3>1. PICK p \in Nat \ {0} : p = r.pos + 1
      BY <1>1
    <3>2. x = [r EXCEPT !.pos = p]
      BY <1>2, <2>2, <3>1
    <3> QED
      BY <1>1, <3>2 DEF Shaped
  <2> QED
    BY <2>1, <2>2
<1>6. Chose(x, journals)
  BY <1>1, <1>5 DEF Held, Chose, Moved
<1>7. nx \in {"idle", "drafting", "ended"}
  BY <1>2
<1>8. PICK y : ToAppend(y, x, e, nx)
  BY DEF ToAppend
<1>a. Ready(x, journals) /\ Own(e, nx)
  BY <1>1, <1>4, <1>5, <1>6, <1>7 DEF Ready, Own
<1>9. request' = [request EXCEPT ![c] = y] /\ Held(y, journals, papers)
  <2>1. Held(y, journals, papers)
    BY <1>8, <1>a, AppendsHeld
  <2> QED
    BY <1>3, <1>5, <1>8, <2>1 DEF ToAppend
<1>10. World' /\ Counters' /\ papers' = papers /\ journals' = journals /\ recent' = recent
  BY DEF IsWritten, Inv, World, Counters, files
<1>11. Files'
  <2>1. written' \in Seq(Nat) /\ Len(written') = Len(written)
    <3>1. written \in Seq(Nat) /\ Len(written) = Len(journals)
      BY DEF Inv, Files, Ordered
    <3>2. written' = [written EXCEPT ![r.journal] = written[r.journal] + 1]
      BY <1>0 DEF IsWritten
    <3>3. written[r.journal] + 1 \in Nat
      BY <1>1, <3>1
    <3> QED
      BY <1>1, <3>1, <3>2, <3>3
  <2> QED
    BY <1>10, <2>1 DEF Inv, Files, Ordered
<1>12. Grown(journals, journals', papers, papers')
  BY <1>1, <1>10, GrownIs
<1> QED
  BY <1>9, <1>10, <1>11, <1>12, StepInv

LEMMA IsRefusedInv ==
  ASSUME Inv, NEW c \in Composers, IsRefused(c)
  PROVE  Inv'
<1>0. PICK r, s, x, e :
        r = request[c] /\ s = At(r, r.pos) /\ x = [r EXCEPT !.pos = r.pos + 1] /\ e = Ends(s, Refused)
  OBVIOUS
<1>1. /\ Held(r, journals, papers) /\ Shaped(r, journals) /\ r.at = "asking" /\ r.on \in Composition
      /\ r.journal \in 1..Len(journals) /\ r.todo \subseteq ToSet(r.order) /\ s \in Slot
      /\ r.journal # 0 /\ journals \in Seq(Journal) /\ r.pos \in Nat \ {0} /\ r.pos + 1 \in Nat \ {0}
  <2>1. r.at = "asking" /\ r.at \in Drafting
    BY <1>0 DEF IsRefused, Drafting
  <2>2. /\ Held(r, journals, papers) /\ Shaped(r, journals) /\ r.on \in Composition
        /\ r.journal \in 1..Len(journals) /\ r.todo \subseteq ToSet(r.order) /\ s \in Slot
    BY <1>0, <2>1, Drafted
  <2>3. r.pos \in Nat \ {0}
    BY <2>2 DEF Shaped
  <2> QED
    BY <2>1, <2>2, <2>3, Known
<1>2. request' = [request EXCEPT ![c] = WillAppend(x, r.journal, e, "drafting")]
  BY <1>0 DEF IsRefused, Goes
<1>3. e \in Events /\ e # Completed /\ e # Discarded("reuse-incompatible")
  <2>1. e \in Events
    BY <1>0, <1>1, EventsAre, OutcomesAre
  <2> QED
    BY <1>0, <2>1 DEF Ends, Completed, Discarded
<1>4. /\ Shaped(x, journals) /\ x.at = "asking" /\ x.on = r.on /\ x.todo = r.todo
      /\ x.order = r.order /\ x.chosen = r.chosen /\ x.journal = r.journal
  <2>1. PICK p \in Nat \ {0} : p = r.pos + 1
    BY <1>1
  <2>2. x = [r EXCEPT !.pos = p]
    BY <1>0, <2>1
  <2> QED
    BY <1>1, <2>2 DEF Shaped
<1>5. Chose(x, journals)
  BY <1>1, <1>4 DEF Held, Chose, Moved
<1>a. PICK y : ToAppend(y, x, e, "drafting")
  BY DEF ToAppend
<1>b. Ready(x, journals) /\ Own(e, "drafting")
  BY <1>1, <1>3, <1>4, <1>5 DEF Ready, Own
<1>6. request' = [request EXCEPT ![c] = y] /\ Held(y, journals, papers)
  <2>1. Held(y, journals, papers)
    BY <1>a, <1>b, AppendsHeld
  <2> QED
    BY <1>2, <1>4, <1>a, <2>1 DEF ToAppend
<1>7. Counters' /\ UNCHANGED <<world, prompt, files, written>>
  BY DEF IsRefused, Inv, Counters
<1> QED
  BY <1>6, <1>7, QuietInv

LEMMA IsUnavailableInv ==
  ASSUME Inv, NEW c \in Composers, IsUnavailable(c)
  PROVE  Inv'
<1>0. PICK r, s : r = request[c] /\ s = At(r, r.pos)
  OBVIOUS
<1>1. /\ Held(r, journals, papers) /\ Shaped(r, journals) /\ r.at = "asking" /\ r.on \in Composition
      /\ r.journal \in 1..Len(journals) /\ r.todo \subseteq ToSet(r.order) /\ s \in Slot
      /\ r.journal # 0 /\ journals \in Seq(Journal) /\ r.tries \in Nat /\ r.tries + 1 \in Nat
      /\ r.copy \in Journal /\ r.pos \in DOMAIN Plan[r.copy.on.shape]
  <2>1. r.at = "asking" /\ r.at \in Drafting
    BY <1>0 DEF IsUnavailable, Drafting
  <2>2. /\ Held(r, journals, papers) /\ Shaped(r, journals) /\ r.on \in Composition
        /\ r.journal \in 1..Len(journals) /\ r.todo \subseteq ToSet(r.order) /\ s \in Slot
        /\ r.copy \in Journal /\ r.pos \in DOMAIN Plan[r.copy.on.shape]
    BY <1>0, <2>1, Drafted
  <2>3. r.tries \in Nat
    BY <2>2 DEF Shaped
  <2> QED
    BY <2>1, <2>2, <2>3, Known
<1>2. Counters' /\ UNCHANGED <<world, prompt, files, written>>
  BY DEF IsUnavailable, Inv, Counters
<1>3. CASE Tried(r.tries) <= Retries
  <2>1. PICK y : y = [r EXCEPT !.tries = r.tries + 1]
    OBVIOUS
  <2>2. request' = [request EXCEPT ![c] = y]
    BY <1>0, <1>3, <2>1 DEF IsUnavailable, Goes, Tried
  <2>3. /\ Shaped(y, journals) /\ y.at = "asking" /\ y.on = r.on /\ y.todo = r.todo /\ y.chosen = r.chosen
        /\ y.journal = r.journal /\ y.order = r.order /\ y.copy = r.copy /\ y.pos = r.pos
    <3>1. PICK t \in Nat : t = r.tries + 1
      BY <1>1
    <3>2. y = [r EXCEPT !.tries = t]
      BY <2>1, <3>1
    <3> QED
      BY <1>1, <3>2 DEF Shaped
  <2>4. Held(y, journals, papers)
    BY <1>1, <2>3 DEF Held, Placed, Appending, Comes, Drafting, Chose, Moved, Reasoned, Printed
  <2> QED
    BY <1>2, <2>2, <2>4, QuietInv
<1>4. CASE ~(Tried(r.tries) <= Retries)
  <2>0. PICK x, e : x = [r EXCEPT !.tries = 0] /\ e = Ends(s, Owed)
    OBVIOUS
  <2>2. request' = [request EXCEPT ![c] = WillAppend(x, r.journal, e, "ended")]
    BY <1>0, <1>4, <2>0 DEF IsUnavailable, Goes
  <2>3. e \in Events /\ e # Completed /\ e # Discarded("reuse-incompatible")
    <3>1. e \in Events
      BY <1>1, <2>0, EventsAre, OutcomesAre
    <3> QED
      BY <2>0, <3>1 DEF Ends, Completed, Discarded
  <2>4. /\ Shaped(x, journals) /\ x.at = "asking" /\ x.on = r.on /\ x.todo = r.todo
        /\ x.order = r.order /\ x.chosen = r.chosen /\ x.journal = r.journal
    BY <1>1, <2>0 DEF Shaped
  <2>5. Chose(x, journals)
    BY <1>1, <2>4 DEF Held, Chose, Moved
  <2>6. PICK y : ToAppend(y, x, e, "ended")
    BY DEF ToAppend
  <2>7. Ready(x, journals) /\ Own(e, "ended")
    BY <1>1, <2>3, <2>4, <2>5 DEF Ready, Own
  <2>8. Held(y, journals, papers)
    BY <2>6, <2>7, AppendsHeld
  <2>9. request' = [request EXCEPT ![c] = y]
    BY <2>2, <2>4, <2>6 DEF ToAppend
  <2> QED
    BY <1>2, <2>8, <2>9, QuietInv
<1> QED
  BY <1>3, <1>4

LEMMA RunEndsInv ==
  ASSUME Inv, NEW c \in Composers, RunEnds(c)
  PROVE  Inv'
<1>0. PICK r, y : r = request[c] /\ y = [r EXCEPT !.at = "finishing"]
  OBVIOUS
<1>1. /\ Held(r, journals, papers) /\ Shaped(r, journals) /\ r.at = "ended" /\ r.on \in Composition
      /\ r.journal \in 1..Len(journals)
  BY <1>0, Drafted DEF RunEnds, Drafting
<1>2. Counters' /\ UNCHANGED <<world, prompt, files, written>>
  BY DEF RunEnds, Inv, Counters
<1>3. CASE OwedSlots(r.copy) # {}
  <2>1. Goes(c, Idle)
    BY <1>0, <1>3 DEF RunEnds
  <2> QED
    BY <1>2, <2>1, StopsInv
<1>4. CASE OwedSlots(r.copy) = {}
  <2>1. request' = [request EXCEPT ![c] = y]
    BY <1>0, <1>4 DEF RunEnds, Goes
  <2>2. /\ Shaped(y, journals) /\ y.at = "finishing" /\ y.on = r.on /\ y.todo = r.todo /\ y.chosen = r.chosen
        /\ y.journal = r.journal /\ y.order = r.order
    BY <1>0, <1>1 DEF Shaped, Points, Drafting
  <2>3. Held(y, journals, papers)
    BY <1>1, <2>2 DEF Held, Placed, Appending, Comes, Drafting, Chose, Moved, Reasoned, Printed
  <2> QED
    BY <1>2, <2>1, <2>3, QuietInv
<1> QED
  BY <1>3, <1>4

\* The same for the completion of a journal whose paper is there.
LEMMA CompletesHeld ==
  ASSUME NEW js, NEW ps, NEW x, NEW e, NEW y, e = Completed, Ready(x, js), HasPaper(ps, x.journal),
         ToAppend(y, x, e, "idle")
  PROVE  /\ Held(y, js, ps) /\ Shaped(y, js) /\ y.at = "folding" /\ y.next = "idle" /\ y.event = e
         /\ y.target = x.journal /\ y.journal = x.journal /\ y.on = x.on /\ y.missed = x.missed
<1>1. "folding" \in Points /\ e \in Events
  BY EventsAre DEF Points
<1>2. /\ Shaped(y, js) /\ y.at = "folding" /\ y.next = "idle" /\ y.event = e /\ y.target = x.journal
      /\ y.journal = x.journal /\ y.on = x.on /\ y.todo = x.todo /\ y.order = x.order
      /\ y.chosen = x.chosen /\ y.missed = x.missed
  BY <1>1 DEF Shaped, WillAppend, Ready, ToAppend
<1>3. Placed(y, js)
  BY <1>1, <1>2 DEF Placed, Appending, Comes, Ready, Drafting
<1>4. Chose(y, js)
  BY <1>2 DEF Chose, Moved, Ready
<1>5. e # Discarded("reuse-incompatible")
  BY DEF Completed, Discarded
<1>6. Reasoned(y, js) /\ Printed(y, ps)
  BY <1>2, <1>5 DEF Reasoned, Printed
<1> QED
  BY <1>2, <1>3, <1>4, <1>6 DEF Held

LEMMA FinishesInv ==
  ASSUME Inv, NEW c \in Composers, Finishes(c)
  PROVE  Inv'
<1>0. PICK r, j, all : r = request[c] /\ j = journals[r.journal] /\ all = PapersOf(r.journal)
  OBVIOUS
<1>1. /\ Held(r, journals, papers) /\ Shaped(r, journals) /\ r.at = "finishing" /\ r.on \in Composition
      /\ r.journal \in 1..Len(journals) /\ r.todo \subseteq ToSet(r.order) /\ r.journal # 0
      /\ j \in Journal /\ UNCHANGED <<world, prompt, files, written, changes, crashes>>
  <2>1. r.at = "finishing" /\ r.at \in Drafting /\ UNCHANGED <<world, prompt, files, written, changes, crashes>>
    BY <1>0 DEF Finishes, Drafting
  <2>2. /\ Held(r, journals, papers) /\ Shaped(r, journals) /\ r.on \in Composition
        /\ r.journal \in 1..Len(journals) /\ r.todo \subseteq ToSet(r.order)
    BY <1>0, <2>1, Drafted
  <2>3. j \in Journal
    BY <1>0, <2>2, Known
  <2> QED
    BY <2>1, <2>2, <2>3, Known
<1>2. CASE Throws(c) /\ UNCHANGED skipped
  BY <1>1, <1>2, ThrowsInv
<1>3. CASE ~(Throws(c) /\ UNCHANGED skipped)
  <2>1. PICK seen \in SUBSET all :
              /\ Listing(all, seen)
              /\ skipped' = skipped + Cardinality(all \ seen)
              /\ Goes(c, CASE j.status = "discarded" -> Idle
                            [] j.status = "open" /\ IsFinished(seen) ->
                                 WillAppend(r, r.journal, Completed, "idle")
                            [] j.status = "completed" /\ IsFinished(seen) -> Idle
                            [] j.status # "discarded" /\ ~IsFinished(seen) ->
                                 IF OwedSlots(j) # {} THEN Idle
                                 ELSE [r EXCEPT !.at = "creating", !.copy = j])
    BY <1>0, <1>3 DEF Finishes
  <2>2. Len(papers) \in Nat /\ all \in SUBSET (1..Len(papers)) /\ failures \in Nat /\ skipped \in Nat
    BY <1>0 DEF Inv, Files, Counters, PapersOf
  <2>3. failures' \in Nat /\ skipped' \in Nat
    <3>1. failures' \in Nat
      BY <2>1, <2>2, ListingCounts
    <3>2. all \ seen \in SUBSET (1..Len(papers)) /\ IsFiniteSet(1..Len(papers))
      BY <2>2, FS_Interval
    <3>3. Cardinality(all \ seen) \in Nat
      BY <3>2, FS_Subset, FS_CardinalityType
    <3> QED
      BY <2>1, <2>2, <3>1, <3>3
  <2>4. Counters'
    BY <1>1, <2>3 DEF Inv, Counters
  <2>5. CASE Goes(c, Idle)
    BY <1>1, <2>4, <2>5, StopsInv
  <2>6. CASE j.status = "open" /\ IsFinished(seen)
    <3>1. PICK e : e = Completed
      OBVIOUS
    <3>2. PICK y : ToAppend(y, r, e, "idle")
      BY DEF ToAppend
    <3>3. request' = [request EXCEPT ![c] = y]
      BY <2>1, <2>6, <3>1, <3>2 DEF Goes, ToAppend
    <3>4. HasPaper(papers, r.journal)
      BY <1>0, <2>1, <2>6 DEF IsFinished, PapersOf, HasPaper
    <3>5. Ready(r, journals)
      BY <1>1 DEF Ready, Held
    <3>6. Held(y, journals, papers)
      BY <3>1, <3>2, <3>4, <3>5, CompletesHeld
    <3> QED
      BY <1>1, <2>4, <3>3, <3>6, QuietInv
  <2>7. CASE j.status # "discarded" /\ ~IsFinished(seen) /\ OwedSlots(j) = {}
    <3>1. PICK y : y = [r EXCEPT !.at = "creating", !.copy = j]
      OBVIOUS
    <3>2. request' = [request EXCEPT ![c] = y]
      BY <2>1, <2>7, <3>1 DEF Goes
    <3>3. /\ Shaped(y, journals) /\ y.at = "creating" /\ y.on = r.on /\ y.todo = r.todo /\ y.chosen = r.chosen
          /\ y.journal = r.journal /\ y.order = r.order /\ y.copy = j
      BY <1>1, <3>1 DEF Shaped, Points, Drafting
    <3>4. Held(y, journals, papers)
      BY <1>1, <3>3 DEF Held, Placed, Appending, Comes, Drafting, Chose, Moved, Reasoned, Printed
    <3> QED
      BY <1>1, <2>4, <3>2, <3>4, QuietInv
  <2>8. j.status \in {"open", "completed", "discarded"}
    BY <1>1 DEF Journal
  <2> QED
    BY <2>1, <2>5, <2>6, <2>7, <2>8, Zenon
<1> QED
  BY <1>2, <1>3

LEMMA CreatesInv ==
  ASSUME Inv, NEW c \in Composers, Creates(c)
  PROVE  Inv'
<1>0. PICK r, paper : /\ r = request[c]
                      /\ paper = [journal |-> r.journal, asked |-> r.on, outcomes |-> r.copy.outcomes]
  OBVIOUS
<1>1. /\ Held(r, journals, papers) /\ Shaped(r, journals) /\ r.at = "creating" /\ r.on \in Composition
      /\ r.journal \in 1..Len(journals) /\ r.todo \subseteq ToSet(r.order) /\ r.journal # 0
      /\ r.copy \in Journal /\ UNCHANGED <<world, prompt, journals, recent, written, skipped, changes, crashes>>
  <2>1. /\ r.at = "creating" /\ r.at \in Drafting
        /\ UNCHANGED <<world, prompt, journals, recent, written, skipped, changes, crashes>>
    BY <1>0 DEF Creates, Drafting
  <2>2. /\ Held(r, journals, papers) /\ Shaped(r, journals) /\ r.on \in Composition
        /\ r.journal \in 1..Len(journals) /\ r.todo \subseteq ToSet(r.order) /\ r.copy \in Journal
    BY <1>0, <2>1, Drafted
  <2> QED
    BY <2>1, <2>2, Known
<1>2. CASE Throws(c) /\ UNCHANGED papers
  BY <1>1, <1>2, ThrowsInv DEF files
<1>3. CASE papers' = Append(papers, paper)
  <2>1. paper \in Paper(Len(journals))
    BY <1>0, <1>1 DEF Paper, Journal
  <2>2. papers \in Seq(Paper(Len(journals))) /\ Len(papers) \in Nat
    BY DEF Inv, Files
  <2>3. /\ papers' \in Seq(Paper(Len(journals))) /\ DOMAIN papers' = 1..(Len(papers) + 1)
        /\ DOMAIN papers = 1..Len(papers)
        /\ papers'[Len(papers) + 1] = paper /\ \A p \in 1..Len(papers) : papers'[p] = papers[p]
    BY <1>3, <2>1, <2>2
  <2>4. ASSUME NEW k, HasPaper(papers, k) PROVE HasPaper(papers', k)
    <3>1. PICK p \in 1..Len(papers) : papers[p].journal = k
      BY <2>3, <2>4 DEF HasPaper
    <3>2. p \in DOMAIN papers' /\ papers'[p].journal = k
      BY <2>2, <2>3, <3>1
    <3> QED
      BY <3>2 DEF HasPaper
  <2>5. HasPaper(papers', r.journal)
    <3>1. Len(papers) + 1 \in DOMAIN papers' /\ papers'[Len(papers) + 1].journal = r.journal
      BY <1>0, <2>2, <2>3
    <3> QED
      BY <3>1 DEF HasPaper
  <2>6. Grown(journals, journals', papers, papers')
    BY <1>1, <2>4, Known DEF Grown
  <2>7. Files'
    <3>1. Journals(journals', papers')
      BY <1>1, <2>4 DEF Inv, Files, Journals
    <3> QED
      BY <1>1, <2>3, <3>1 DEF Inv, Files, Ordered
  <2>8. World'
    BY <1>1 DEF Inv, World
  <2>9. CASE Throws(c)
    <3>1. Counters' /\ request' = [request EXCEPT ![c] = Idle]
      BY <1>1, <2>9 DEF Inv, Counters, Throws, Fails, Goes
    <3>2. Held(Idle, journals', papers')
      BY <1>1, IdleHeld, Known
    <3> QED
      BY <2>6, <2>7, <2>8, <3>1, <3>2, StepInv
  <2>10. CASE Goes(c, WillAppend(r, r.journal, Completed, "idle")) /\ UNCHANGED failures
    <3>1. PICK e : e = Completed
      OBVIOUS
    <3>2. PICK y : ToAppend(y, r, e, "idle")
      BY DEF ToAppend
    <3>3. request' = [request EXCEPT ![c] = y]
      BY <2>10, <3>1, <3>2 DEF Goes, ToAppend
    <3>4. Ready(r, journals')
      BY <1>1 DEF Ready, Held
    <3>5. Held(y, journals', papers')
      BY <2>5, <3>1, <3>2, <3>4, CompletesHeld
    <3>6. Counters'
      BY <1>1, <2>10 DEF Inv, Counters
    <3> QED
      BY <2>6, <2>7, <2>8, <3>3, <3>5, <3>6, StepInv
  <2> QED
    BY <1>0, <1>3, <2>9, <2>10 DEF Creates
<1> QED
  BY <1>0, <1>2, <1>3 DEF Creates

LEMMA FoldsInv ==
  ASSUME Inv, NEW c \in Composers, Folds(c)
  PROVE  Inv'
<1>0. PICK r, x, z, a, y :
        /\ r = request[c] /\ x = journals[r.target] /\ z = Folded(x, r.event)
        /\ a = (IF z = x THEN r.next ELSE "writing")
        /\ y = [r EXCEPT !.copy = z, !.event = NoEvent, !.at = a]
  OBVIOUS
<1>1. /\ Held(r, journals, papers) /\ Shaped(r, journals) /\ r.at = "folding" /\ r.on \in Composition
      /\ r.target \in 1..Len(journals) /\ r.event \in Events /\ r.todo \subseteq ToSet(r.order)
      /\ UNCHANGED <<world, prompt, files, written, skipped, changes, crashes>>
  <2>1. r.at = "folding" /\ UNCHANGED <<world, prompt, files, written, skipped, changes, crashes>>
    BY <1>0 DEF Folds
  <2>2. Held(r, journals, papers) /\ Len(journals) \in Nat
    BY <1>0, Known
  <2>3. r.target \in 0..Len(journals) /\ r.target # 0
    BY <2>1, <2>2 DEF Held, Shaped, Placed, Appending
  <2> QED
    BY <2>1, <2>2, <2>3 DEF Held, Placed
<1>2. CASE Throws(c)
  BY <1>1, <1>2, ThrowsInv
<1>3. CASE ~Throws(c)
  <2>1. request' = [request EXCEPT ![c] = y] /\ failures' = failures
    BY <1>0, <1>3, Zenon DEF Folds, Goes
  <2>2. x \in Journal /\ SaysWhy(x)
    BY <1>0, <1>1 DEF Inv, Files, Journals
  <2>3. /\ z \in Journal /\ SaysWhy(z) /\ z.on = x.on
        /\ z # x => x.status = "open"
        /\ z.status = "completed" => x.status = "completed" \/ r.event = Completed
        /\ z.why = "reuse-incompatible" /\ x.status = "open" => r.event = Discarded("reuse-incompatible")
    BY <1>0, <1>1, <2>2, FoldedIs
  <2>4. a \in Points /\ r.next \in {"idle", "opening", "discarding", "drafting", "ended"}
    BY <1>0, <1>1 DEF Shaped, Points, Drafting
  <2>5. /\ Shaped(y, journals) /\ y.at = a /\ y.on = r.on /\ y.todo = r.todo /\ y.chosen = r.chosen
        /\ y.journal = r.journal /\ y.order = r.order /\ y.copy = z /\ y.target = r.target
        /\ y.next = r.next
    BY <1>0, <1>1, <2>3, <2>4 DEF Shaped
  <2>6. Placed(y, journals)
    BY <1>0, <1>1, <2>3, <2>4, <2>5 DEF Held, Placed, Appending, Comes, Drafting
  <2>7. Chose(y, journals)
    BY <1>1, <2>5 DEF Held, Chose, Moved
  <2>8. Reasoned(y, journals) /\ Printed(y, papers)
    <3>1. CASE z = x
      BY <1>0, <2>4, <2>5, <3>1 DEF Reasoned, Printed
    <3>2. CASE z # x
      BY <1>0, <1>1, <2>3, <2>5, <3>2 DEF Held, Reasoned, Printed, Moved
    <3> QED
      BY <3>1, <3>2
  <2>9. Counters'
    BY <1>1, <2>1 DEF Inv, Counters
  <2> QED
    BY <1>1, <2>1, <2>5, <2>6, <2>7, <2>8, <2>9, QuietInv DEF Held
<1> QED
  BY <1>2, <1>3

\* A journal written back.
LEMMA WrittenFiles ==
  ASSUME Inv, NEW j \in 1..Len(journals), NEW x \in Journal, SaysWhy(x), x.on = journals[j].on,
         x.status = "completed" => HasPaper(papers, j),
         journals' = [journals EXCEPT ![j] = x], Updated(j), UNCHANGED <<papers, written>>
  PROVE  /\ Files' /\ Grown(journals, journals', papers, papers')
         /\ Len(journals') = Len(journals) /\ journals'[j] = x
         /\ \A k \in 1..Len(journals) : k # j => journals'[k] = journals[k]
<1>1. PICK js, n : js = journals' /\ n = Len(journals)
  OBVIOUS
<1>2. /\ journals \in Seq(Journal) /\ n \in Nat
      /\ \A k \in 1..n : SaysWhy(journals[k]) /\ (journals[k].status = "completed" => HasPaper(papers, k))
  BY <1>1 DEF Inv, Files, Journals
<1>3. /\ js \in Seq(Journal) /\ Len(js) = n /\ js[j] = x
      /\ \A k \in 1..n : k # j => js[k] = journals[k]
  BY <1>1, <1>2
<1>4. Journals(js, papers)
  BY <1>2, <1>3 DEF Journals
<1>5. Ordered(js, recent', written')
  <2>1. /\ recent \in Seq(1..n) /\ ToSet(recent) = 1..n /\ Len(recent) = n
        /\ written \in Seq(Nat) /\ Len(written) = n
    BY <1>1 DEF Inv, Files, Ordered
  <2>2. recent' = Append(RemoveFirst(recent, j), j)
    BY DEF Updated
  <2>3. recent' \in Seq(1..n) /\ ToSet(recent') = 1..n /\ Len(recent') = n
    BY <1>1, <1>2, <2>1, <2>2, Reordered
  <2> QED
    BY <1>3, <2>1, <2>3 DEF Ordered
<1>6. papers' \in Seq(Paper(Len(js)))
  BY <1>1, <1>3 DEF Inv, Files
<1>7. Files'
  BY <1>1, <1>4, <1>5, <1>6 DEF Files
<1>8. Grown(journals, js, papers, papers)
  BY <1>1, <1>2, <1>3 DEF Grown
<1> QED
  BY <1>1, <1>3, <1>7, <1>8

LEMMA WritesInv ==
  ASSUME Inv, NEW c \in Composers, Writes(c)
  PROVE  Inv'
<1>0. PICK r : r = request[c]
  OBVIOUS
<1>1. /\ Held(r, journals, papers) /\ Shaped(r, journals) /\ r.at = "writing" /\ r.on \in Composition
      /\ r.target \in 1..Len(journals) /\ r.copy \in Journal /\ SaysWhy(r.copy)
      /\ r.copy.on = journals[r.target].on /\ (r.copy.status = "completed" => HasPaper(papers, r.target))
      /\ UNCHANGED <<world, prompt, papers, written, skipped, changes, crashes>>
  <2>1. r.at = "writing" /\ UNCHANGED <<world, prompt, papers, written, skipped, changes, crashes>>
    BY <1>0 DEF Writes
  <2>2. Held(r, journals, papers) /\ Len(journals) \in Nat
    BY <1>0, Known
  <2>3. r.target \in 0..Len(journals) /\ r.target # 0
    BY <2>1, <2>2 DEF Held, Shaped, Placed, Appending
  <2> QED
    BY <2>1, <2>2, <2>3 DEF Held, Placed, Printed
<1>2. CASE Throws(c) /\ UNCHANGED <<journals, recent>>
  BY <1>1, <1>2, ThrowsInv DEF files
<1>3. CASE journals' = [journals EXCEPT ![r.target] = r.copy] /\ Updated(r.target)
  <2>1. Files' /\ Grown(journals, journals', papers, papers')
    BY <1>1, <1>3, WrittenFiles
  <2>2. World'
    BY <1>1 DEF Inv, World
  <2>3. journals' \in Seq(Journal)
    BY <2>1 DEF Grown
  <2>4. CASE Throws(c)
    <3>1. Counters' /\ request' = [request EXCEPT ![c] = Idle]
      BY <1>1, <2>4 DEF Inv, Counters, Throws, Fails, Goes
    <3>2. Held(Idle, journals', papers')
      BY <2>3, IdleHeld
    <3> QED
      BY <2>1, <2>2, <3>1, <3>2, StepInv
  <2>5. CASE /\ Goes(c, IF r.next = "idle" THEN Idle ELSE [r EXCEPT !.at = r.next, !.target = 0])
             /\ UNCHANGED failures
    <3>1. Counters'
      BY <1>1, <2>5 DEF Inv, Counters
    <3>2. CASE r.next = "idle"
      <4>1. request' = [request EXCEPT ![c] = Idle]
        BY <2>5, <3>2 DEF Goes
      <4>2. Held(Idle, journals', papers')
        BY <2>3, IdleHeld
      <4> QED
        BY <2>1, <2>2, <3>1, <4>1, <4>2, StepInv
    <3>3. CASE r.next # "idle"
      <4>1. PICK y : y = [r EXCEPT !.at = r.next, !.target = 0]
        OBVIOUS
      <4>2. request' = [request EXCEPT ![c] = y]
        BY <2>5, <3>3, <4>1 DEF Goes
      <4>3. Held(r, journals', papers')
        BY <1>1, <2>1, HeldOn
      <4>4. r.next \in Points /\ r.next \in {"opening", "discarding", "drafting", "ended"}
        BY <1>1, <3>3 DEF Shaped, Points, Drafting
      <4>5. /\ Shaped(y, journals') /\ y.at = r.next /\ y.on = r.on /\ y.todo = r.todo /\ y.chosen = r.chosen
            /\ y.journal = r.journal /\ y.order = r.order /\ y.copy = r.copy
        <5>1. 0 \in 0..Len(journals')
          BY <2>3
        <5> QED
          BY <4>1, <4>3, <4>4, <5>1 DEF Held, Shaped
      <4>6. Held(y, journals', papers')
        <5>1. Placed(y, journals')
          BY <1>1, <4>3, <4>4, <4>5 DEF Held, Placed, Appending, Comes, Drafting
        <5>2. Chose(y, journals')
          BY <1>1, <4>3, <4>5 DEF Held, Chose, Moved
        <5>3. Reasoned(y, journals') /\ Printed(y, papers')
          BY <4>4, <4>5 DEF Reasoned, Printed
        <5> QED
          BY <4>5, <5>1, <5>2, <5>3 DEF Held
      <4> QED
        BY <2>1, <2>2, <3>1, <4>2, <4>6, StepInv
    <3> QED
      BY <3>2, <3>3
  <2> QED
    BY <1>0, <1>3, <2>4, <2>5 DEF Writes
<1> QED
  BY <1>0, <1>2, <1>3 DEF Writes

LEMMA StepsInv ==
  ASSUME Inv, NEW c \in Composers, Steps(c)
  PROVE  Inv'
BY ChoosesInv, OpensInv, DiscardsNextInv, ResumesInv, BeginsInv, LoadsInv, DraftsInv, IsWrittenInv,
   IsRefusedInv, IsUnavailableInv, RunEndsInv, FinishesInv, CreatesInv, FoldsInv, WritesInv, Zenon
DEF Steps

-----------------------------------------------------------------------------
(* What changes around a request, and the start. *)

LEMMA ChangesInv ==
  ASSUME Inv, Changes
  PROVE  Inv'
<1>1. World'
  <2>1. CASE \E w \in Composition : w # world /\ world' = w /\ UNCHANGED prompt
    BY <2>1 DEF Inv, World
  <2>2. CASE \E t \in Tasks, v \in Version :
               v # prompt[t] /\ prompt' = [prompt EXCEPT ![t] = v] /\ UNCHANGED world
    BY <2>2 DEF Inv, World
  <2> QED
    BY <2>1, <2>2 DEF Changes
<1>2. Counters' /\ UNCHANGED <<files, request, written>>
  BY DEF Changes, Inv, Counters
<1>3. Files' /\ Requests'
  BY <1>2 DEF Inv, Files, Requests, files
<1> QED
  BY <1>1, <1>2, <1>3 DEF Inv

LEMMA CrashesInv ==
  ASSUME Inv, Crashes
  PROVE  Inv'
<1>1. Counters' /\ UNCHANGED <<world, prompt, files, written>> /\ request' = [c \in Composers |-> Idle]
  BY DEF Crashes, Inv, Counters
<1>2. World' /\ Files'
  BY <1>1 DEF Inv, World, Files, files
<1>3. journals' \in Seq(Journal)
  BY <1>2 DEF Files, Journals
<1>4. Requests'
  BY <1>1, <1>3, IdleHeld DEF Requests
<1> QED
  BY <1>1, <1>2, <1>4 DEF Inv

LEMMA InitInv == Init => Inv
<1> SUFFICES ASSUME Init PROVE Inv
  OBVIOUS
<1>1. /\ journals = <<>> /\ recent = <<>> /\ papers = <<>> /\ written = <<>>
      /\ request = [c \in Composers |-> Idle]
  BY DEF Init
<1>2. World
  <2>1. (CHOOSE m \in Material : TRUE) \in Material /\ (CHOOSE g \in Settings : TRUE) \in Settings
        /\ (CHOOSE v \in Version : TRUE) \in Version
    BY Assumption
  <2>2. world \in Composition
    BY <2>1 DEF Init, Composition
  <2>3. prompt \in [Tasks -> Version]
    BY <2>1 DEF Init
  <2> QED
    BY <2>2, <2>3 DEF World
<1>3. Counters
  BY DEF Init, Counters
<1>4. journals \in Seq(Journal) /\ Len(journals) = 0
  BY <1>1
<1>5. Files
  <2>1. Journals(journals, papers)
    BY <1>4 DEF Journals
  <2>2. ToSet(recent) = 1..0
    BY <1>1 DEF ToSet
  <2>3. Ordered(journals, recent, written)
    BY <1>1, <1>4, <2>2 DEF Ordered
  <2> QED
    BY <1>1, <2>1, <2>3 DEF Files
<1>6. Requests
  BY <1>1, <1>4, IdleHeld DEF Requests
<1> QED
  BY <1>2, <1>3, <1>5, <1>6 DEF Inv

LEMMA NextInv == Inv /\ [Next]_vars => Inv'
<1> SUFFICES ASSUME Inv, [Next]_vars PROVE Inv'
  OBVIOUS
<1>1. ASSUME NEW c \in Composers, Asks(c) \/ Steps(c) PROVE Inv'
  BY <1>1, AsksInv, StepsInv
<1>2. CASE Changes
  BY <1>2, ChangesInv
<1>3. CASE Crashes
  BY <1>3, CrashesInv
<1>4. CASE UNCHANGED vars
  BY <1>4 DEF vars, files, Inv, World, Counters, Files, Requests
<1> QED
  BY <1>1, <1>2, <1>3, <1>4 DEF Next

\* The invariant of any number of composers: what a request holds at each of its points
\* (appendJournalEvent, runPaperJournal and finalizePaperFromJournal, paper-journal.ts), beside
\* journals and papers that only grow.
THEOREM Invariance == Spec => []Inv
BY InitInv, NextInv, PTL DEF Spec

\* Types; a discarded journal, and no other, says why; files and histories agree in length.
THEOREM TypeCorrect == Spec => []TypeOK
<1>1. Inv => TypeOK
  <2> SUFFICES ASSUME Inv PROVE TypeOK
    OBVIOUS
  <2>1. journals \in Seq(Journal) /\ DOMAIN journals = 1..Len(journals)
    BY Known DEF Inv, Files, Journals
  <2>2. \A j \in DOMAIN journals : journals[j].why # "none" <=> journals[j].status = "discarded"
    BY <2>1 DEF Inv, Files, Journals, SaysWhy
  <2>3. \A c \in Composers : request[c].journal \in 0..Len(journals)
    BY DEF Inv, Requests, Held, Shaped
  <2>4. papers \in Seq([journal : DOMAIN journals, asked : Composition, outcomes : [Slot -> Outcome]])
    BY <2>1 DEF Inv, Files, Paper
  <2> QED
    BY <2>1, <2>2, <2>3, <2>4 DEF TypeOK, Inv, World, Counters, Files, Ordered
<1> QED
  BY <1>1, Invariance, PTL

-----------------------------------------------------------------------------
(* Her reading discards nothing. *)

\* The journals a step leaves as they were: all but the one it writes or opens.
LEMMA OnlyWrites ==
  ASSUME Inv, [Next]_vars, NEW j \in OpenJournals, journals'[j] # journals[j]
  PROVE  \E c \in Composers :
           /\ request[c].at = "writing" /\ request[c].target = j /\ journals'[j] = request[c].copy
           /\ Writes(c)
<1>1. journals \in Seq(Journal) /\ j \in 1..Len(journals) /\ Len(journals) \in Nat
  BY Known DEF OpenJournals, Inv, Files, Journals
<1>2. journals' # journals
  OBVIOUS
<1>3. PICK c \in Composers : Steps(c)
  BY <1>2 DEF Next, Asks, Changes, Crashes, vars, files
<1>4. ~Begins(c)
  <2> SUFFICES ASSUME Begins(c) PROVE FALSE
    OBVIOUS
  <2>1. request[c].on \in Composition /\ request[c].at = "discarding"
    BY Known DEF Held, Placed, Begins
  <2>2. journals' = Append(journals, Opened(request[c].on))
    BY <1>2 DEF Begins
  <2>3. journals'[j] = journals[j]
    BY <1>1, <2>1, <2>2, OpenedIs
  <2> QED
    BY <2>3
<1>5. Writes(c)
  BY <1>2, <1>3, <1>4
  DEF Steps, Chooses, Opens, DiscardsNext, Resumes, Loads, Drafts, IsWritten, IsRefused, IsUnavailable,
      RunEnds, Finishes, Creates, Folds, files
<1>6. journals' = [journals EXCEPT ![request[c].target] = request[c].copy] /\ request[c].at = "writing"
  BY <1>2, <1>5 DEF Writes
<1>7. request[c].target = j /\ journals'[j] = request[c].copy
  BY <1>1, <1>6
<1> QED
  BY <1>5, <1>6, <1>7

\* A journal is set aside for another composition when the request that does it runs on material or
\* settings the journal was not made of, or chose another journal: compositionForRequest compares the
\* composition planned again on the journal's own shape (journal-composition.ts:82-85), and
\* openPaperJournal's discards come after it has settled which one the request runs.
THEOREM ReadingKept == Spec => ReadingDiscardsNothing
<1> DEFINE A == \A j \in OpenJournals :
                  journals'[j].why = "reuse-incompatible" =>
                    \E c \in Composers :
                      /\ request[c].at = "writing" /\ request[c].target = j
                      /\ \/ request[c].chosen # j
                         \/ [request[c].on EXCEPT !.shape = journals[j].on.shape] # journals[j].on
<1>1. Inv /\ [Next]_vars => A
  <2> SUFFICES ASSUME Inv, [Next]_vars, NEW j \in OpenJournals,
                      journals'[j].why = "reuse-incompatible"
               PROVE  \E c \in Composers :
                        /\ request[c].at = "writing" /\ request[c].target = j
                        /\ \/ request[c].chosen # j
                           \/ [request[c].on EXCEPT !.shape = journals[j].on.shape] # journals[j].on
    OBVIOUS
  <2>1. journals[j].why = "none"
    BY DEF Inv, Files, Journals, SaysWhy, OpenJournals, IsOpen
  <2>2. PICK c \in Composers : /\ request[c].at = "writing" /\ request[c].target = j
                               /\ journals'[j] = request[c].copy
    BY <2>1, OnlyWrites
  <2>3. Moved(request[c], journals, j)
    BY <2>2, Known DEF Held, Reasoned
  <2> QED
    BY <2>2, <2>3 DEF Moved
<1>2. Inv /\ [Next]_vars => [A]_vars
  BY <1>1
<1> QED
  BY <1>2, Invariance, PTL DEF Spec, ReadingDiscardsNothing

-----------------------------------------------------------------------------
(* One composer: what the journals show. *)

LEMMA LandedFinite ==
  ASSUME NEW x \in Journal
  PROVE  /\ IsFiniteSet(Slots(x)) /\ IsFiniteSet(LandedSlots(x))
         /\ Slots(x) \subseteq Slot /\ Shown(x) \in Nat
<1>1. PICK p : p = Plan[x.on.shape] /\ p \in Seq(Slot)
  <2>1. x.on.shape \in Shape
    BY DEF Journal, Composition
  <2> QED
    BY <2>1, Assumption
<1>2. Slots(x) = {p[i] : i \in 1..Len(p)} /\ DOMAIN p = 1..Len(p) /\ Len(p) \in Nat
  BY <1>1 DEF Slots, ToSet
<1>3. p \in Surjection(1..Len(p), Slots(x))
  BY <1>1, <1>2 DEF Surjection
<1>4. IsFiniteSet(1..Len(p))
  BY <1>2, FS_Interval
<1>5. IsFiniteSet(Slots(x))
  BY <1>3, <1>4, FS_Surjection
<1>6. IsFiniteSet(LandedSlots(x)) /\ Cardinality(LandedSlots(x)) \in Nat
  <2>1. LandedSlots(x) \in SUBSET Slots(x)
    BY DEF LandedSlots
  <2> QED
    BY <1>5, <2>1, FS_Subset, FS_CardinalityType
<1>7. Slots(x) \subseteq Slot
  BY <1>1, <1>2
<1>8. Shown(x) \in Nat
  BY <1>6 DEF Shown
<1> QED
  BY <1>5, <1>6, <1>7, <1>8

\* What a fold of an event that the journal takes makes of an open journal.
LEMMA SlotShows ==
  ASSUME NEW x \in Journal, SaysWhy(x), x.status = "open", NEW s \in Slot, NEW o \in Outcome, NEW e, NEW z,
         e = Ends(s, o), z = Folded(x, e), Fits(x, e), Sound(x)
  PROVE  /\ Sound(z) /\ z.status = "open" /\ z \in Journal
         /\ Shown(z) = Shown(x) + (IF Adds(e) THEN 1 ELSE 0)
<1>1. /\ e.kind = "slot" /\ e.slot = s /\ e.outcome = o
  BY DEF Ends
<1>2. s \in Slots(x) /\ ~IsFinal(x.outcomes[s]) /\ (o.status = "landed" => Agrees(x, s, o))
  BY <1>1 DEF Fits
<1>3. z = [x EXCEPT !.outcomes = [x.outcomes EXCEPT ![s] = o]]
  BY <1>2, FoldsSlot
<1>4. /\ z \in Journal /\ z.on = x.on /\ z.status = "open" /\ z.why = x.why
      /\ z.outcomes[s] = o /\ \A n \in Slot : n # s => z.outcomes[n] = x.outcomes[n]
  BY <1>3 DEF Journal
<1>5. Slots(z) = Slots(x) /\ Slots(x) \subseteq Slot /\ \A n : NeedsIn(z, n) = NeedsIn(x, n)
  BY <1>4, LandedFinite DEF Slots, NeedsIn
<1>6. s \notin LandedSlots(x)
  BY <1>2 DEF LandedSlots, IsFinal
<1>7. Adds(e) <=> o.status = "landed"
  BY <1>1 DEF Adds, Ends, Discarded
<1>8. LandedSlots(z) = IF o.status = "landed" THEN LandedSlots(x) \cup {s} ELSE LandedSlots(x)
  BY <1>2, <1>4, <1>5, <1>6 DEF LandedSlots
<1>9. Shown(z) = Shown(x) + (IF Adds(e) THEN 1 ELSE 0)
  <2>1. IsFiniteSet(LandedSlots(x)) /\ Cardinality(LandedSlots(x)) \in Nat
    BY LandedFinite, FS_CardinalityType
  <2>2. Cardinality(LandedSlots(x) \cup {s}) = Cardinality(LandedSlots(x)) + 1
    BY <1>6, <2>1, FS_AddElement
  <2> QED
    BY <1>4, <1>7, <1>8, <2>1, <2>2 DEF Shown
<1>10. Sound(z)
  <2> SUFFICES ASSUME NEW m \in LandedSlots(z) PROVE Agrees(z, m, z.outcomes[m])
    BY DEF Sound
  <2>1. LandedSlots(x) \subseteq LandedSlots(z)
    BY <1>8
  <2>2. CASE m = s
    <3>1. o.status = "landed" /\ Agrees(x, s, o)
      BY <1>2, <1>6, <1>8, <2>2
    <3>2. ASSUME NEW n \in LandedSlots(z), Task[n] = Task[s] PROVE z.outcomes[n].version = o.version
      <4>1. CASE n = s
        BY <1>4, <4>1
      <4>2. CASE n # s
        <5>1. n \in LandedSlots(x) /\ n \in Slot
          BY <1>5, <1>8, <4>2 DEF LandedSlots
        <5> QED
          BY <1>4, <3>1, <3>2, <4>2, <5>1 DEF Agrees
      <4> QED
        BY <4>1, <4>2
    <3> QED
      BY <1>4, <1>5, <2>1, <2>2, <3>1, <3>2 DEF Agrees
  <2>3. CASE m # s
    <3>1. m \in LandedSlots(x) /\ m \in Slot
      BY <1>5, <1>8, <2>3 DEF LandedSlots
    <3>2. z.outcomes[m] = x.outcomes[m] /\ Agrees(x, m, x.outcomes[m])
      BY <1>4, <2>3, <3>1 DEF Sound
    <3>3. ASSUME NEW n \in LandedSlots(z), Task[n] = Task[m]
          PROVE  z.outcomes[n].version = x.outcomes[m].version
      <4>1. CASE n = s
        <5>1. o.status = "landed" /\ Agrees(x, s, o)
          BY <1>2, <1>6, <1>8, <3>3, <4>1
        <5> QED
          BY <1>4, <3>1, <3>3, <4>1, <5>1 DEF Agrees
      <4>2. CASE n # s
        <5>1. n \in LandedSlots(x) /\ n \in Slot
          BY <1>5, <1>8, <4>2 DEF LandedSlots
        <5> QED
          BY <1>4, <3>2, <3>3, <4>2, <5>1 DEF Agrees
      <4> QED
        BY <4>1, <4>2
    <3> QED
      BY <1>4, <1>5, <2>1, <3>2, <3>3 DEF Agrees
  <2> QED
    BY <2>2, <2>3
<1> QED
  BY <1>4, <1>9, <1>10

LEMMA CloseShows ==
  ASSUME NEW x \in Journal, SaysWhy(x), x.status = "open", NEW e, NEW z, Sound(x), z = Folded(x, e),
         e = Completed \/ \E w \in Whys \ {"none"} : e = Discarded(w)
  PROVE  /\ Sound(z) /\ z.status # "open" /\ z \in Journal
         /\ Shown(z) = Shown(x) + (IF Adds(e) THEN 1 ELSE 0)
<1>1. x.why = "none"
  BY DEF SaysWhy
<1>2. /\ z \in Journal /\ z.on = x.on /\ z.outcomes = x.outcomes /\ z.status # "open"
      /\ z.why = "authoring-spec-changed" <=> e = Discarded("authoring-spec-changed")
  <2>1. CASE e = Completed
    <3>1. z = [x EXCEPT !.status = "completed"]
      BY <2>1, FoldsCompleted
    <3>2. e # Discarded("authoring-spec-changed")
      BY <2>1 DEF Completed, Discarded
    <3> QED
      BY <1>1, <3>1, <3>2 DEF Journal
  <2>2. ASSUME NEW w \in Whys \ {"none"}, e = Discarded(w)
        PROVE  /\ z \in Journal /\ z.on = x.on /\ z.outcomes = x.outcomes /\ z.status # "open"
               /\ z.why = "authoring-spec-changed" <=> e = Discarded("authoring-spec-changed")
    <3>1. z = [x EXCEPT !.status = "discarded", !.why = w]
      BY <2>2, FoldsDiscard
    <3>2. e = Discarded("authoring-spec-changed") <=> w = "authoring-spec-changed"
      BY <2>2 DEF Discarded
    <3> QED
      BY <3>1, <3>2 DEF Journal, Whys
  <2> QED
    BY <2>1, <2>2
<1>3. Slots(z) = Slots(x) /\ LandedSlots(z) = LandedSlots(x) /\ \A n : NeedsIn(z, n) = NeedsIn(x, n)
  BY <1>2 DEF Slots, LandedSlots, NeedsIn
<1>4. Sound(z)
  BY <1>2, <1>3 DEF Sound, Agrees
<1>5. Adds(e) <=> e = Discarded("authoring-spec-changed")
  BY DEF Adds, Completed, Discarded
<1>6. Shown(z) = Shown(x) + (IF Adds(e) THEN 1 ELSE 0)
  <2>1. Cardinality(LandedSlots(x)) \in Nat
    BY LandedFinite, FS_CardinalityType
  <2> QED
    BY <1>1, <1>2, <1>3, <1>5, <2>1 DEF Shown
<1> QED
  BY <1>2, <1>4, <1>6

LEMMA FoldShows ==
  ASSUME NEW x \in Journal, SaysWhy(x), x.status = "open", NEW e \in Events, NEW z, z = Folded(x, e),
         Fits(x, e), Sound(x)
  PROVE  /\ Sound(z) /\ z \in Journal /\ (z.status = "open" <=> e.kind = "slot")
         /\ Shown(z) = Shown(x) + (IF Adds(e) THEN 1 ELSE 0)
<1>1. CASE e = Completed \/ \E w \in Whys \ {"none"} : e = Discarded(w)
  <2>1. e.kind # "slot"
    BY <1>1 DEF Completed, Discarded
  <2> QED
    BY <1>1, <2>1, CloseShows
<1>2. ASSUME NEW s \in Slot, NEW o \in Outcome, e = Ends(s, o)
      PROVE  /\ Sound(z) /\ z \in Journal /\ (z.status = "open" <=> e.kind = "slot")
             /\ Shown(z) = Shown(x) + (IF Adds(e) THEN 1 ELSE 0)
  <2>1. e.kind = "slot"
    BY <1>2 DEF Ends
  <2> QED
    BY <1>2, <2>1, SlotShows
<1> QED
  BY <1>1, <1>2, KindsAre

-----------------------------------------------------------------------------
(* One composer: requests beside a step. *)

LEMMA KnownAlone ==
  ASSUME Inv, AInv, NEW c \in Composers, NEW r, r = request[c]
  PROVE  /\ Works(r, journals) /\ Appends(r, journals) /\ Aside(r, journals)
         /\ Fresh(r, papers, skipped) /\ Paid(r, journals, written, crashes + failures)
         /\ \A j \in 1..Len(journals) : /\ Sound(journals[j]) /\ SaysWhy(journals[j])
                                        /\ journals[j] \in Journal /\ Shown(journals[j]) \in Nat
BY Known, LandedFinite DEF AInv, Alone, Inv, Files, Journals

\* What a journal will show is what it shows, or one item more, of the request's own journal.
LEMMA WillShowIs ==
  ASSUME Inv, AInv, NEW c \in Composers, NEW r, r = request[c], NEW j \in 1..Len(journals)
  PROVE  \/ WillShow(r, journals, j) = Shown(journals[j])
         \/ /\ WillShow(r, journals, j) = Shown(journals[j]) + 1
            /\ Appending(r) /\ r.journal = j
<1>1. CASE r.at = "writing" /\ r.target = j
  <2>1. /\ journals[j].status = "open" /\ journals[j] \in Journal /\ SaysWhy(journals[j])
        /\ Sound(journals[j])
    BY <1>1, KnownAlone DEF Appends
  <2>2. PICK e \in Events : /\ Fits(journals[j], e) /\ r.copy = Folded(journals[j], e)
                            /\ Adds(e) => r.target = r.journal
    BY <1>1, KnownAlone DEF Appends
  <2>3. Shown(r.copy) = Shown(journals[j]) + (IF Adds(e) THEN 1 ELSE 0) /\ Shown(journals[j]) \in Nat
    BY <2>1, <2>2, FoldShows, KnownAlone
  <2> QED
    BY <1>1, <2>2, <2>3 DEF WillShow, Appending
<1>2. CASE r.at = "folding" /\ r.target = j /\ Adds(r.event)
  BY <1>2, KnownAlone DEF WillShow, Appends, Appending
<1>3. CASE ~(r.at = "writing" /\ r.target = j) /\ ~(r.at = "folding" /\ r.target = j /\ Adds(r.event))
  BY <1>3 DEF WillShow
<1> QED
  BY <1>1, <1>2, <1>3

LEMMA StepAlone ==
  ASSUME OneComposer, Inv, NEW c \in Composers, NEW y, request' = [request EXCEPT ![c] = y],
         \A j \in 1..Len(journals') : Sound(journals'[j]),
         Papers(journals', papers', skipped'),
         Works(y, journals'), Appends(y, journals'), Aside(y, journals'), Fresh(y, papers', skipped'),
         Paid(y, journals', written', crashes' + failures')
  PROVE  AInv'
<1>1. \A d \in Composers : request'[d] = y
  BY DEF Inv, Requests, OneComposer
<1>2. \A d \in Composers : Alone(request[d])'
  BY <1>1 DEF Alone
<1> QED
  BY <1>2 DEF AInv

LEMMA PapersOn ==
  ASSUME NEW js, NEW ps, NEW n \in Nat, NEW m \in Nat, n <= m, Papers(js, ps, n),
         \A j \in 1..Len(js) : Cardinality(Copies(ps, j)) \in Nat
  PROVE  Papers(js, ps, m)
BY DEF Papers

LEMMA CopiesFinite ==
  ASSUME Inv, NEW j
  PROVE  IsFiniteSet(Copies(papers, j)) /\ Cardinality(Copies(papers, j)) \in Nat
<1>1. Len(papers) \in Nat /\ DOMAIN papers = 1..Len(papers)
  BY DEF Inv, Files
<1>2. IsFiniteSet(1..Len(papers)) /\ Copies(papers, j) \in SUBSET (1..Len(papers))
  BY <1>1, FS_Interval DEF Copies
<1> QED
  BY <1>2, FS_Subset, FS_CardinalityType

\* A step that leaves the files alone.
LEMMA QuietAlone ==
  ASSUME OneComposer, Inv, Inv', AInv, NEW c \in Composers, NEW y, request' = [request EXCEPT ![c] = y],
         UNCHANGED <<files, written>>, skipped <= skipped',
         Works(y, journals), Appends(y, journals), Aside(y, journals), Fresh(y, papers, skipped'),
         Paid(y, journals, written, crashes' + failures')
  PROVE  AInv'
<1>1. journals' = journals /\ papers' = papers /\ written' = written
  BY DEF files
<1>2. skipped \in Nat /\ skipped' \in Nat
  BY DEF Inv, Counters
<1>3. Papers(journals, papers, skipped')
  BY <1>2, PapersOn, CopiesFinite DEF AInv
<1> QED
  BY <1>1, <1>3, StepAlone DEF AInv

LEMMA WrittenIs ==
  ASSUME Inv, NEW j \in 1..Len(journals)
  PROVE  written[j] \in Nat
BY DEF Inv, Files, Ordered

LEMMA Plus == \A a, b \in Nat : a + b \in Nat
OBVIOUS

LEMMA PlusMonotone == \A a, b, d \in Nat : b <= d => a + b <= a + d
OBVIOUS

LEMMA Numbers ==
  ASSUME Inv, Inv'
  PROVE  /\ skipped \in Nat /\ crashes \in Nat /\ failures \in Nat /\ crashes + failures \in Nat
         /\ skipped' \in Nat /\ crashes' \in Nat /\ failures' \in Nat /\ crashes' + failures' \in Nat
<1>1. Counters /\ Counters'
  BY DEF Inv
<1>2. /\ skipped \in Nat /\ crashes \in Nat /\ failures \in Nat
      /\ skipped' \in Nat /\ crashes' \in Nat /\ failures' \in Nat
  BY <1>1 DEF Counters
<1> QED
  BY <1>2, Plus, Zenon

\* A request that only goes on pays no more.
LEMMA PaidOn ==
  ASSUME Inv, Inv', AInv, NEW c \in Composers, NEW y,
         crashes + failures <= crashes' + failures',
         ~Appending(request[c]), y.at # "writing"
  PROVE  Paid(y, journals, written, crashes' + failures')
<1> SUFFICES ASSUME NEW j \in 1..Len(journals)
             PROVE  written[j] <= WillShow(y, journals, j) + (crashes' + failures')
  BY DEF Paid
<1>1. written[j] \in Nat
  BY DEF Inv, Files, Ordered
<1>2. PICK r : r = request[c]
  OBVIOUS
<1>3. written[j] <= WillShow(r, journals, j) + (crashes + failures) /\ Shown(journals[j]) \in Nat
  BY <1>2, KnownAlone DEF Paid
<1>4. WillShow(r, journals, j) = Shown(journals[j])
  BY <1>2 DEF WillShow, Appending
<1>5. WillShow(y, journals, j) \in {Shown(journals[j]), Shown(journals[j]) + 1}
  BY DEF WillShow
<1>6. crashes + failures \in Nat /\ crashes' + failures' \in Nat
  BY Numbers
<1> QED
  BY <1>1, <1>3, <1>4, <1>5, <1>6

\* A request that ends has nothing in hand, or one item that a failure or a crash accounts for.
LEMMA IdleAlone ==
  ASSUME OneComposer, Inv, Inv', AInv, NEW c \in Composers, request' = [request EXCEPT ![c] = Idle],
         UNCHANGED <<files, written>>, skipped <= skipped', crashes + failures <= crashes' + failures',
         Appending(request[c]) => crashes + failures < crashes' + failures'
  PROVE  AInv'
<1>1. Works(Idle, journals) /\ Appends(Idle, journals) /\ Aside(Idle, journals) /\ Fresh(Idle, papers, skipped')
  BY DEF Works, Appends, Aside, Fresh, Idle, Comes, Appending, Drafting
<1>2. ASSUME NEW j \in 1..Len(journals)
      PROVE  written[j] <= WillShow(Idle, journals, j) + (crashes' + failures')
  <2>1. PICK r : r = request[c]
    OBVIOUS
  <2>2. written[j] <= WillShow(r, journals, j) + (crashes + failures) /\ Shown(journals[j]) \in Nat
    BY <2>1, KnownAlone DEF Paid
  <2>6. written[j] \in Nat
    BY WrittenIs
  <2>3. WillShow(Idle, journals, j) = Shown(journals[j])
    BY DEF WillShow, Idle
  <2>4. crashes + failures \in Nat /\ crashes' + failures' \in Nat
    BY Numbers
  <2>5. \/ WillShow(r, journals, j) = Shown(journals[j])
        \/ WillShow(r, journals, j) = Shown(journals[j]) + 1 /\ Appending(r)
    BY <2>1, WillShowIs
  <2> QED
    BY <2>1, <2>2, <2>3, <2>4, <2>5, <2>6
<1>3. Paid(Idle, journals, written, crashes' + failures')
  BY <1>2 DEF Paid
<1> QED
  BY <1>1, <1>3, QuietAlone

LEMMA ThrowsAlone ==
  ASSUME OneComposer, Inv, Inv', AInv, NEW c \in Composers, Throws(c),
         UNCHANGED <<files, written, skipped, crashes>>
  PROVE  AInv'
<1>1. skipped \in Nat /\ crashes \in Nat /\ failures \in Nat
  BY DEF Inv, Counters
<1>2. request' = [request EXCEPT ![c] = Idle] /\ failures' = failures + 1
  BY DEF Throws, Fails, Goes
<1>3. skipped <= skipped' /\ crashes + failures < crashes' + failures'
  BY <1>1, <1>2
<1>4. crashes + failures <= crashes' + failures'
  BY <1>1, <1>2
<1> QED
  BY <1>2, <1>3, <1>4, IdleAlone

LEMMA StopsAlone ==
  ASSUME OneComposer, Inv, Inv', AInv, NEW c \in Composers, Goes(c, Idle),
         UNCHANGED <<files, written, crashes>>, skipped <= skipped', failures <= failures',
         ~Appending(request[c])
  PROVE  AInv'
<1>1. crashes \in Nat /\ failures \in Nat /\ failures' \in Nat /\ crashes' = crashes
  BY Numbers
<1>2. crashes + failures <= crashes' + failures'
  BY <1>1, PlusMonotone, Zenon
<1> QED
  BY <1>2, IdleAlone DEF Goes

\* A step that leaves the files and the histories alone, of a request that appends nothing.
LEMMA GoesAlone ==
  ASSUME OneComposer, Inv, Inv', AInv, NEW c \in Composers, NEW y, request' = [request EXCEPT ![c] = y],
         UNCHANGED <<files, written, crashes>>, skipped <= skipped', failures <= failures',
         ~Appending(request[c]), y.at # "writing",
         Works(y, journals), Appends(y, journals), Aside(y, journals), Fresh(y, papers, skipped')
  PROVE  AInv'
<1>1. crashes \in Nat /\ failures \in Nat /\ failures' \in Nat /\ crashes' = crashes
  BY Numbers
<1>2. crashes + failures <= crashes' + failures'
  BY <1>1, PlusMonotone, Zenon
<1> QED
  BY <1>2, PaidOn, QuietAlone

LEMMA AsksAlone ==
  ASSUME OneComposer, Inv, Inv', AInv, NEW c \in Composers, Asks(c)
  PROVE  AInv'
<1>1. PICK y : y = [Idle EXCEPT !.at = "choosing", !.on = world]
  OBVIOUS
<1>2. request' = [request EXCEPT ![c] = y] /\ ~Appending(request[c])
  BY <1>1 DEF Asks, Goes, Appending
<1>3. y.at = "choosing"
  BY <1>1 DEF Idle
<1>4. Works(y, journals) /\ Appends(y, journals) /\ Aside(y, journals) /\ Fresh(y, papers, skipped')
  BY <1>3 DEF Works, Appends, Aside, Fresh, Comes, Appending, Drafting
<1>5. /\ UNCHANGED <<files, written, crashes, skipped, failures>>
      /\ skipped <= skipped' /\ failures <= failures'
  BY Numbers DEF Asks
<1> QED
  BY <1>2, <1>3, <1>4, <1>5, GoesAlone

LEMMA ChoosesAlone ==
  ASSUME OneComposer, Inv, Inv', AInv, NEW c \in Composers, Chooses(c)
  PROVE  AInv'
<1>0. PICK r : r = request[c]
  OBVIOUS
<1>1. /\ Shaped(r, journals) /\ r.at = "choosing" /\ ~Appending(r)
      /\ UNCHANGED <<files, written, skipped, crashes>>
  BY <1>0, Known DEF Chooses, Held, Appending
<1>a. skipped <= skipped'
  BY <1>1, Numbers
<1>2. CASE Throws(c)
  BY <1>1, <1>2, ThrowsAlone
<1>3. CASE ~Throws(c)
  <2>1. PICK seen \in SUBSET OpenJournals :
          LET j == Latest(recent, seen)
              x == [r EXCEPT !.at = "opening", !.chosen = IF seen = {} THEN 0 ELSE j]
              again == PlannedAgain(r.on, j)
          IN  /\ Listing(OpenJournals, seen)
              /\ Goes(c, CASE seen = {} -> x
                            [] seen # {} /\ again = journals[j].on -> [x EXCEPT !.on = again]
                            [] seen # {} /\ again # journals[j].on /\ again = r.on /\ r.on.shape \in Flat -> x
                            [] OTHER -> WillAppend(x, j, Discarded("reuse-incompatible"), "opening"))
    BY <1>0, <1>3 DEF Chooses
  <2>2. PICK j, x, again :
          /\ x = [r EXCEPT !.at = "opening", !.chosen = IF seen = {} THEN 0 ELSE j]
          /\ Listing(OpenJournals, seen)
          /\ Goes(c, CASE seen = {} -> x
                       [] seen # {} /\ again = journals[j].on -> [x EXCEPT !.on = again]
                       [] seen # {} /\ again # journals[j].on /\ again = r.on /\ r.on.shape \in Flat -> x
                       [] OTHER -> WillAppend(x, j, Discarded("reuse-incompatible"), "opening"))
    BY <2>1, Zenon
  <2>3. PICK e, y, z : /\ e = Discarded("reuse-incompatible")
                       /\ y = [x EXCEPT !.on = again] /\ z = WillAppend(x, j, e, "opening")
    OBVIOUS
  <2>4. request' = [request EXCEPT ![c] = x] \/ request' = [request EXCEPT ![c] = y]
        \/ request' = [request EXCEPT ![c] = z]
    BY <2>2, <2>3, Zenon DEF Goes
  <2>5. x.at = "opening" /\ DOMAIN x = DOMAIN r
    BY <1>1, <2>2 DEF Shaped
  <2>6. y.at = "opening"
    BY <2>3, <2>5
  <2>7. z.at = "folding" /\ z.event = e /\ z.next = "opening"
    BY <1>1, <2>2, <2>3 DEF Shaped, WillAppend
  <2>8. e.kind = "discarded" /\ ~Adds(e)
    BY <2>3 DEF Discarded, Adds
  <2>9. ASSUME NEW v \in {x, y, z}
        PROVE  /\ Works(v, journals) /\ Appends(v, journals) /\ Aside(v, journals)
               /\ Fresh(v, papers, skipped') /\ v.at # "writing"
    BY <2>5, <2>6, <2>7, <2>8 DEF Works, Appends, Aside, Fresh, Comes, Appending, Drafting, Fits
  <2>10. failures <= failures'
    BY <2>2, Known, ListingCounts, Numbers
  <2> QED
    BY <1>0, <1>1, <1>a, <2>4, <2>9, <2>10, GoesAlone
<1> QED
  BY <1>2, <1>3

LEMMA OpensAlone ==
  ASSUME OneComposer, Inv, Inv', AInv, NEW c \in Composers, Opens(c)
  PROVE  AInv'
<1>0. PICK r : r = request[c]
  OBVIOUS
<1>1. /\ Shaped(r, journals) /\ r.at = "opening" /\ ~Appending(r)
      /\ UNCHANGED <<files, written, skipped, crashes>>
  BY <1>0, Known DEF Opens, Held, Appending
<1>a. skipped <= skipped'
  BY <1>1, Numbers
<1>2. CASE Throws(c)
  BY <1>1, <1>2, ThrowsAlone
<1>3. CASE ~Throws(c)
  <2>1. PICK seen \in SUBSET OpenJournals :
          LET kept == IF Reusable(seen, r.on) = {} THEN 0 ELSE Latest(recent, Reusable(seen, r.on))
          IN  /\ Listing(OpenJournals, seen)
              /\ Goes(c, [r EXCEPT !.at = "discarding", !.todo = Others(seen, kept),
                                   !.order = recent, !.missed = OpenJournals \ seen,
                                   !.journal = kept])
    BY <1>0, <1>3 DEF Opens
  <2>2. PICK kept : kept = IF Reusable(seen, r.on) = {} THEN 0 ELSE Latest(recent, Reusable(seen, r.on))
    OBVIOUS
  <2>3. PICK y : y = [r EXCEPT !.at = "discarding", !.todo = Others(seen, kept),
                               !.order = recent, !.missed = OpenJournals \ seen, !.journal = kept]
    OBVIOUS
  <2>4. Listing(OpenJournals, seen) /\ request' = [request EXCEPT ![c] = y]
    BY <2>1, <2>2, <2>3, Zenon DEF Goes
  <2>5. /\ y.at = "discarding" /\ y.todo = seen \ {kept} /\ y.missed = OpenJournals \ seen
        /\ y.journal = kept /\ y.on = r.on
    BY <1>1, <2>3 DEF Shaped, Others
  <2>6. kept # 0 => r.on = journals[kept].on
    <3>1. Reusable(seen, r.on) \subseteq seen /\ seen \subseteq 1..Len(journals)
      BY Known DEF Reusable
    <3>2. CASE Reusable(seen, r.on) # {}
      <4>1. kept \in Reusable(seen, r.on)
        BY <2>2, <3>1, <3>2, Known, LatestIs
      <4> QED
        BY <4>1 DEF Reusable
    <3> QED
      BY <2>2, <3>2
  <2>7. Works(y, journals)
    BY <2>5, <2>6 DEF Works, Comes, Appending, Drafting
  <2>8. OpenIn(journals) = OpenJournals
    BY Known DEF OpenIn, OpenJournals, IsOpen
  <2>9. Aside(y, journals)
    BY <2>5, <2>8 DEF Aside, Comes, Appending, Drafting
  <2>10. Appends(y, journals) /\ Fresh(y, papers, skipped') /\ y.at # "writing"
    BY <2>5 DEF Appends, Fresh
  <2>11. failures <= failures'
    BY <2>4, Known, ListingCounts, Numbers
  <2> QED
    BY <1>0, <1>1, <1>a, <2>4, <2>7, <2>9, <2>10, <2>11, GoesAlone
<1> QED
  BY <1>2, <1>3

LEMMA DiscardsNextAlone ==
  ASSUME OneComposer, Inv, Inv', AInv, NEW c \in Composers, DiscardsNext(c)
  PROVE  AInv'
<1>0. PICK r, j, e, x, y :
        /\ r = request[c] /\ j = Latest(r.order, r.todo)
        /\ e = Discarded(IF journals[j].on = r.on THEN "abandoned" ELSE "reuse-incompatible")
        /\ x = [r EXCEPT !.todo = @ \ {j}] /\ y = WillAppend(x, j, e, "discarding")
  OBVIOUS
<1>1. /\ r.at = "discarding" /\ ~Appending(r) /\ request' = [request EXCEPT ![c] = y]
      /\ UNCHANGED <<files, written, skipped, crashes, failures>>
  BY <1>0, Zenon DEF DiscardsNext, Goes, Appending
<1>2. Shaped(r, journals)
  BY <1>0, Known DEF Held
<1>3. /\ y.at = "folding" /\ y.next = "discarding" /\ y.target = j /\ y.event = e /\ y.on = r.on
      /\ y.todo = r.todo \ {j} /\ y.missed = r.missed /\ y.journal = r.journal
  BY <1>0, <1>2 DEF Shaped, WillAppend
<1>4. e.kind = "discarded" /\ ~Adds(e)
  BY <1>0 DEF Discarded, Adds
<1>5. Works(r, journals) /\ Aside(r, journals)
  BY <1>0, KnownAlone
<1>6. Works(y, journals)
  BY <1>1, <1>3, <1>5 DEF Works, Comes, Appending, Drafting
<1>7. Aside(y, journals)
  BY <1>1, <1>3, <1>5 DEF Aside, Comes, Appending, Drafting
<1>8. Appends(y, journals) /\ Fresh(y, papers, skipped')
  BY <1>3, <1>4 DEF Appends, Fresh, Fits
<1>9. skipped <= skipped' /\ failures <= failures'
  BY <1>1, Numbers
<1> QED
  BY <1>0, <1>1, <1>3, <1>6, <1>7, <1>8, <1>9, GoesAlone

LEMMA ResumesAlone ==
  ASSUME OneComposer, Inv, Inv', AInv, NEW c \in Composers, Resumes(c)
  PROVE  AInv'
<1>0. PICK r, y : r = request[c] /\ y = [r EXCEPT !.at = "loading", !.order = <<>>]
  OBVIOUS
<1>1. /\ r.at = "discarding" /\ r.todo = {} /\ r.journal # 0 /\ ~Appending(r)
      /\ request' = [request EXCEPT ![c] = y] /\ UNCHANGED <<files, written, skipped, crashes, failures>>
  BY <1>0 DEF Resumes, Goes, Appending
<1>2. Shaped(r, journals)
  BY <1>0, Known DEF Held
<1>3. y.at = "loading" /\ y.on = r.on /\ y.missed = r.missed /\ y.journal = r.journal
  BY <1>0, <1>2 DEF Shaped
<1>4. Works(r, journals) /\ Aside(r, journals)
  BY <1>0, KnownAlone
<1>5. Works(y, journals)
  BY <1>1, <1>3, <1>4 DEF Works, Comes, Appending, Drafting
<1>6. Aside(y, journals)
  BY <1>1, <1>3, <1>4 DEF Aside, Comes, Appending, Drafting
<1>7. Appends(y, journals) /\ Fresh(y, papers, skipped')
  BY <1>3 DEF Appends, Fresh
<1>8. skipped <= skipped' /\ failures <= failures'
  BY <1>1, Numbers
<1> QED
  BY <1>0, <1>1, <1>3, <1>5, <1>6, <1>7, <1>8, GoesAlone

LEMMA PaperIs ==
  ASSUME Inv, NEW p \in DOMAIN papers
  PROVE  papers[p].journal \in 1..Len(journals)
<1>1. papers \in Seq(Paper(Len(journals)))
  BY DEF Inv, Files
<1>2. papers[p] \in Paper(Len(journals))
  BY <1>1
<1> QED
  BY <1>2 DEF Paper

\* Papers are of the journals of the file, whatever is added to those.
LEMMA PapersKept ==
  ASSUME Inv, NEW js, Len(journals) <= Len(js), NEW n \in Nat, NEW m \in Nat, n <= m,
         Len(js) \in Nat, \A j \in 1..Len(journals) : js[j].on = journals[j].on,
         Papers(journals, papers, n)
  PROVE  Papers(js, papers, m)
<1>1. \A p \in DOMAIN papers : papers[p].journal \in 1..Len(journals)
  BY PaperIs
<1>2. ASSUME NEW p \in DOMAIN papers
      PROVE  Whole(papers[p], js[papers[p].journal])
  <2>1. js[papers[p].journal].on = journals[papers[p].journal].on
    BY <1>1
  <2>2. Whole(papers[p], journals[papers[p].journal])
    BY DEF Papers
  <2> QED
    BY <2>1, <2>2 DEF Whole, Slots, NeedsIn
<1>3. ASSUME NEW j \in 1..Len(js)
      PROVE  Cardinality(Copies(papers, j)) <= 1 + m
  <2>1. CASE j \in 1..Len(journals)
    <3>1. Cardinality(Copies(papers, j)) <= 1 + n /\ Cardinality(Copies(papers, j)) \in Nat
      BY <2>1, CopiesFinite DEF Papers
    <3> QED
      BY <3>1
  <2>2. CASE j \notin 1..Len(journals)
    <3>1. Copies(papers, j) = {}
      BY <1>1, <2>2 DEF Copies
    <3>2. Cardinality(Copies(papers, j)) = 0
      BY <3>1, FS_EmptySet
    <3> QED
      BY <3>2
  <2> QED
    BY <2>1, <2>2
<1> QED
  BY <1>2, <1>3 DEF Papers

LEMMA BeginsAlone ==
  ASSUME OneComposer, Inv, Inv', AInv, NEW c \in Composers, Begins(c)
  PROVE  AInv'
<1>0. PICK r : r = request[c]
  OBVIOUS
<1>1. /\ Held(r, journals, papers) /\ r.at = "discarding" /\ r.todo = {} /\ r.journal = 0 /\ ~Appending(r)
      /\ r.on \in Composition /\ UNCHANGED <<papers, skipped, crashes>>
  BY <1>0, Known DEF Begins, Appending, Held, Placed
<1>2. CASE Throws(c) /\ UNCHANGED <<journals, recent, written>>
  BY <1>1, <1>2, ThrowsAlone DEF files
<1>3. CASE /\ journals' = Append(journals, Opened(r.on)) /\ Updated(Len(journals'))
           /\ written' = Append(written, 0)
  <2>1. PICK n, x, js, ws : n = Len(journals) /\ x = Opened(r.on) /\ js = journals' /\ ws = written'
    OBVIOUS
  <2>2. /\ Len(js) = n + 1 /\ js[n + 1] = x /\ \A j \in 1..n : js[j] = journals[j]
    <3>1. /\ Len(journals') = Len(journals) + 1 /\ journals'[Len(journals')] = Opened(r.on)
          /\ \A j \in 1..Len(journals) : journals'[j] = journals[j]
      BY <1>1, <1>3, OpenedFiles
    <3> QED
      BY <2>1, <3>1
  <2>3. /\ x.on = r.on /\ x.status = "open" /\ x \in Journal /\ n \in Nat
        /\ \A s \in Slot : x.outcomes[s] = Unattempted
    BY <1>1, <2>1, OpenedIs, Known DEF Opened
  <2>4. \A j \in 1..(n + 1) : j = n + 1 \/ j \in 1..n
    BY <2>3
  <2>5. LandedSlots(x) = {}
    <3>1. Slots(x) \subseteq Slot
      BY <2>3, LandedFinite
    <3> QED
      BY <2>3, <3>1 DEF LandedSlots, Unattempted
  <2>6. \A j \in 1..Len(js) : Sound(js[j])
    <3>1. Sound(x)
      BY <2>5 DEF Sound
    <3>2. \A j \in 1..n : Sound(journals[j])
      BY <2>1, KnownAlone
    <3> QED
      BY <2>2, <2>4, <3>1, <3>2
  <2>7. Papers(js, papers, skipped')
    <3>1. skipped \in Nat /\ skipped' = skipped /\ Papers(journals, papers, skipped)
      BY <1>1, Numbers DEF AInv
    <3>2. Len(journals) <= Len(js) /\ Len(js) \in Nat
      BY <2>1, <2>2, <2>3
    <3>3. \A j \in 1..Len(journals) : js[j].on = journals[j].on
      BY <2>1, <2>2
    <3>4. skipped <= skipped'
      BY <3>1
    <3> QED
      BY <3>1, <3>2, <3>3, <3>4, PapersKept
  <2>8. ASSUME NEW y, ~Appending(y), crashes + failures <= crashes' + failures'
        PROVE  Paid(y, js, ws, crashes' + failures')
    <3> SUFFICES ASSUME NEW j \in 1..Len(js) PROVE ws[j] <= WillShow(y, js, j) + (crashes' + failures')
      BY DEF Paid
    <3>1. PICK a, b \in Nat : a = crashes + failures /\ b = crashes' + failures'
      BY Numbers
    <3>2. WillShow(y, js, j) = Shown(js[j])
      BY <2>8 DEF WillShow, Appending
    <3>a. written \in Seq(Nat) /\ Len(written) = n
      BY <2>1 DEF Inv, Files, Ordered
    <3>b. ws = Append(written, 0)
      BY <1>3, <2>1
    <3>3. /\ Len(written) = n /\ ws[n + 1] = 0
          /\ \A k \in 1..n : ws[k] = written[k] /\ written[k] \in Nat
      BY <2>3, <3>a, <3>b
    <3>4. CASE j = n + 1
      <4>1. Shown(x) \in Nat
        BY <2>3, LandedFinite
      <4> QED
        BY <2>2, <3>1, <3>2, <3>3, <3>4, <4>1
    <3>5. CASE j \in 1..n
      <4>1. written[j] <= WillShow(r, journals, j) + a /\ Shown(journals[j]) \in Nat
        BY <1>0, <2>1, <3>1, <3>5, KnownAlone DEF Paid
      <4>2. WillShow(r, journals, j) = Shown(journals[j])
        BY <1>1 DEF WillShow, Appending
      <4>3. a <= b
        BY <2>8, <3>1
      <4> QED
        BY <2>2, <3>1, <3>2, <3>3, <3>5, <4>1, <4>2, <4>3
    <3> QED
      BY <2>2, <2>4, <3>4, <3>5
  <2>9. CASE Throws(c)
    <3>1. request' = [request EXCEPT ![c] = Idle] /\ failures' = failures + 1
      BY <2>9 DEF Throws, Fails, Goes
    <3>2. crashes + failures <= crashes' + failures'
      BY <1>1, <3>1, Numbers
    <3>3. ~Appending(Idle)
      BY DEF Appending, Idle
    <3>4. Works(Idle, js) /\ Appends(Idle, js) /\ Aside(Idle, js) /\ Fresh(Idle, papers', skipped')
      BY DEF Works, Appends, Aside, Fresh, Idle, Comes, Appending, Drafting
    <3>5. Paid(Idle, js, ws, crashes' + failures')
      BY <2>8, <3>2, <3>3
    <3> QED
      BY <1>1, <2>1, <2>6, <2>7, <3>1, <3>4, <3>5, StepAlone
  <2>10. CASE Goes(c, [r EXCEPT !.at = "loading", !.order = <<>>, !.journal = Len(journals')]) /\ UNCHANGED failures
    <3>1. PICK y : y = [r EXCEPT !.at = "loading", !.order = <<>>, !.journal = n + 1]
      OBVIOUS
    <3>2. request' = [request EXCEPT ![c] = y]
      BY <2>1, <2>2, <2>10, <3>1 DEF Goes
    <3>3. y.at = "loading" /\ y.on = r.on /\ y.missed = r.missed /\ y.journal = n + 1 /\ ~Appending(y)
      BY <1>1, <3>1 DEF Held, Shaped, Appending
    <3>4. Works(y, js)
      BY <2>2, <2>3, <3>3 DEF Works, Comes, Drafting
    <3>5. Aside(y, js)
      <4>1. Aside(r, journals)
        BY <1>0, KnownAlone
      <4>2. OpenIn(journals) \subseteq r.missed \cup {0}
        BY <1>1, <4>1 DEF Aside, Comes, Appending
      <4>3. OpenIn(js) \subseteq OpenIn(journals) \cup {n + 1} /\ 0 \notin OpenIn(journals)
        BY <2>1, <2>2, <2>4 DEF OpenIn
      <4>4. OpenIn(js) \subseteq r.missed \cup {n + 1}
        BY <4>2, <4>3
      <4> QED
        BY <3>3, <4>4 DEF Aside, Comes
    <3>6. Appends(y, js) /\ Fresh(y, papers', skipped')
      BY <3>3 DEF Appends, Fresh
    <3>7. crashes + failures <= crashes' + failures'
      BY <1>1, <2>10, Numbers
    <3>8. Paid(y, js, ws, crashes' + failures')
      BY <2>8, <3>3, <3>7
    <3> QED
      BY <1>1, <2>1, <2>6, <2>7, <3>2, <3>4, <3>5, <3>6, <3>8, StepAlone
  <2> QED
    BY <1>0, <1>3, <2>9, <2>10 DEF Begins
<1> QED
  BY <1>0, <1>2, <1>3 DEF Begins

LEMMA LoadsAlone ==
  ASSUME OneComposer, Inv, Inv', AInv, NEW c \in Composers, Loads(c)
  PROVE  AInv'
<1>0. PICK r, y : r = request[c] /\ y = [r EXCEPT !.at = "drafting", !.copy = journals[r.journal]]
  OBVIOUS
<1>1. /\ r.at = "loading" /\ ~Appending(r) /\ UNCHANGED <<files, written, skipped, crashes>>
  BY <1>0 DEF Loads, Appending
<1>2. Shaped(r, journals) /\ Works(r, journals) /\ Aside(r, journals)
  BY <1>0, Known, KnownAlone DEF Held
<1>3. CASE Throws(c)
  BY <1>1, <1>3, ThrowsAlone
<1>4. CASE ~Throws(c)
  <2>1. failures' = failures
    BY <1>4 DEF Loads
  <2>2. skipped <= skipped' /\ failures <= failures'
    BY <1>1, <2>1, Numbers
  <2>3. CASE ~IsOpen(r.journal)
    <3>1. Goes(c, Idle)
      BY <1>0, <1>4, <2>3 DEF Loads
    <3> QED
      BY <1>0, <1>1, <2>2, <3>1, StopsAlone
  <2>4. CASE IsOpen(r.journal)
    <3>1. request' = [request EXCEPT ![c] = y]
      BY <1>0, <1>4, <2>4 DEF Loads, Goes
    <3>2. /\ y.at = "drafting" /\ y.on = r.on /\ y.missed = r.missed /\ y.journal = r.journal
          /\ y.copy = journals[r.journal]
      BY <1>0, <1>2 DEF Shaped
    <3>3. Works(y, journals)
      BY <1>1, <1>2, <2>4, <3>2 DEF Works, Comes, Appending, Drafting, IsOpen
    <3>4. Aside(y, journals)
      BY <1>1, <1>2, <3>2 DEF Aside, Comes, Appending, Drafting
    <3>5. Appends(y, journals) /\ Fresh(y, papers, skipped')
      BY <3>2 DEF Appends, Fresh
    <3> QED
      BY <1>0, <1>1, <2>2, <3>1, <3>2, <3>3, <3>4, <3>5, GoesAlone
  <2> QED
    BY <2>3, <2>4
<1> QED
  BY <1>3, <1>4

\* A request that drafts runs on its journal as the file has it.
OnJournal(x, js) ==
  /\ x.on = js[x.journal].on /\ x.copy = js[x.journal]
  /\ OpenIn(js) \subseteq x.missed \cup {x.journal}

LEMMA AppendsAlone ==
  ASSUME Inv, NEW x, NEW e, NEW nx, NEW y, Ready(x, journals), Own(e, nx), ToAppend(y, x, e, nx),
         OnJournal(x, journals), Fits(x.copy, e), nx \in {"drafting", "ended"} => e.kind = "slot"
  PROVE  /\ Works(y, journals) /\ Appends(y, journals) /\ Aside(y, journals)
         /\ Fresh(y, papers, skipped') /\ y.at = "folding"
<1>1. /\ y.at = "folding" /\ y.next = nx /\ y.event = e /\ y.target = x.journal
      /\ y.journal = x.journal /\ y.on = x.on /\ y.copy = x.copy /\ y.missed = x.missed
  BY AppendsHeld
<1>2. nx \in {"idle", "drafting", "ended"}
  BY DEF Own
<1>3. Works(y, journals)
  BY <1>1, <1>2 DEF Works, Comes, Appending, Drafting, OnJournal, Fits
<1>4. Appends(y, journals)
  BY <1>1, <1>2 DEF Appends, OnJournal
<1>5. Aside(y, journals)
  BY <1>1, <1>2 DEF Aside, Comes, Appending, Drafting, OnJournal
<1> QED
  BY <1>1, <1>3, <1>4, <1>5 DEF Fresh

\* What a part of a structured paper is built on is of the paper.
LEMMA NeedsAreSlots ==
  ASSUME NEW x \in Journal, NEW i \in DOMAIN Plan[x.on.shape]
  PROVE  NeedsIn(x, Plan[x.on.shape][i]) \subseteq Slots(x)
<1>1. PICK h \in Shape : h = x.on.shape
  BY DEF Journal, Composition
<1>2. Plan[h] \in Seq(Slot)
  BY Assumption
<1>3. CASE h \in Flat
  BY <1>1, <1>3 DEF NeedsIn
<1>4. CASE h \notin Flat
  <2>1. Needs[Plan[h][i]] \subseteq {Plan[h][k] : k \in 1..(i - 1)}
    BY <1>1, <1>4, Assumption
  <2>2. i \in 1..Len(Plan[h]) /\ Len(Plan[h]) \in Nat /\ DOMAIN Plan[h] = 1..Len(Plan[h])
    BY <1>1, <1>2
  <2>3. \A k \in 1..(i - 1) : k \in DOMAIN Plan[h]
    BY <2>2
  <2>4. {Plan[h][k] : k \in 1..(i - 1)} \subseteq {Plan[h][k] : k \in DOMAIN Plan[h]}
    BY <2>3
  <2> QED
    BY <1>1, <1>4, <2>1, <2>4 DEF NeedsIn, Slots, ToSet
<1> QED
  BY <1>3, <1>4

LEMMA DraftsAlone ==
  ASSUME OneComposer, Inv, Inv', AInv, NEW c \in Composers, Drafts(c)
  PROVE  AInv'
<1>0. PICK r : r = request[c]
  OBVIOUS
<1>1. /\ Held(r, journals, papers) /\ Shaped(r, journals) /\ r.at = "drafting" /\ r.on \in Composition
      /\ r.journal \in 1..Len(journals) /\ r.copy \in Journal /\ r.todo \subseteq ToSet(r.order)
      /\ r.copy.on.shape \in Shape
  BY <1>0, Drafted DEF Drafts, Drafting
<1>2. UNCHANGED <<files, written, skipped, crashes, failures>> /\ ~Appending(r)
  BY <1>1 DEF Drafts, Appending
<1>3. skipped <= skipped' /\ failures <= failures'
  BY <1>2, Numbers
<1>4. Works(r, journals) /\ Aside(r, journals)
  BY <1>0, KnownAlone
<1>5. OnJournal(r, journals) /\ r.copy.status = "open"
  BY <1>1, <1>4 DEF Works, Aside, OnJournal, Comes, Appending, Drafting
<1>6. ASSUME NEW y, y = [r EXCEPT !.at = "ended"], Goes(c, y) PROVE AInv'
  <2>1. y.at = "ended" /\ y.on = r.on /\ y.journal = r.journal /\ y.copy = r.copy /\ y.missed = r.missed
    BY <1>1, <1>6 DEF Shaped
  <2>2. Works(y, journals) /\ Aside(y, journals) /\ Appends(y, journals) /\ Fresh(y, papers, skipped')
    BY <1>5, <2>1 DEF Works, Aside, Appends, Fresh, OnJournal, Comes, Appending, Drafting
  <2> QED
    BY <1>0, <1>2, <1>3, <1>6, <2>1, <2>2, GoesAlone DEF Goes
<1>7. ASSUME NEW i \in Unsettled(r),
             Goes(c, CASE EmptyNeeds(r, At(r, i)) # {} ->
                            WillAppend([r EXCEPT !.pos = i + 1], r.journal, Ends(At(r, i), Depends), "drafting")
                       [] EmptyNeeds(r, At(r, i)) = {} /\ OwedNeeds(r, At(r, i)) # {} ->
                            [r EXCEPT !.at = "ended"]
                       [] OTHER -> [r EXCEPT !.at = "asking", !.pos = i, !.tries = 0])
      PROVE  AInv'
  <2>1. /\ i \in Nat \ {0} /\ i + 1 \in Nat \ {0} /\ i \in DOMAIN Plan[r.copy.on.shape]
        /\ At(r, i) \in Slot /\ At(r, i) \in Slots(r.copy) /\ ~IsFinal(r.copy.outcomes[At(r, i)])
    <3>1. Plan[r.copy.on.shape] \in Seq(Slot)
      BY <1>1, Assumption
    <3>2. /\ r.pos \in Nat \ {0} /\ i \in r.pos..Len(Plan[r.copy.on.shape])
          /\ ~IsFinal(r.copy.outcomes[At(r, i)])
      BY <1>1 DEF Shaped, Unsettled, At
    <3>3. i \in Nat \ {0} /\ i + 1 \in Nat \ {0} /\ i \in DOMAIN Plan[r.copy.on.shape] /\ At(r, i) \in Slot
      BY <3>1, <3>2 DEF At
    <3>4. At(r, i) \in Slots(r.copy)
      BY <3>3 DEF At, Slots, ToSet
    <3> QED
      BY <3>2, <3>3, <3>4
  <2>2. CASE EmptyNeeds(r, At(r, i)) # {}
    <3>1. PICK x, e : x = [r EXCEPT !.pos = i + 1] /\ e = Ends(At(r, i), Depends)
      OBVIOUS
    <3>2. request' = [request EXCEPT ![c] = WillAppend(x, r.journal, e, "drafting")]
      BY <1>7, <2>2, <3>1 DEF Goes
    <3>3. e \in Events
      BY <2>1, <3>1, EventsAre, OutcomesAre
    <3>4. Own(e, "drafting") /\ e.kind = "slot" /\ Fits(r.copy, e)
      BY <1>5, <2>1, <3>1, <3>3
      DEF Own, Ends, Completed, Discarded, Fits, Depends, Unattempted
    <3>5. /\ Shaped(x, journals) /\ x.at = "drafting" /\ x.on = r.on /\ x.todo = r.todo
          /\ x.order = r.order /\ x.chosen = r.chosen /\ x.journal = r.journal
          /\ x.copy = r.copy /\ x.missed = r.missed
      BY <1>1, <2>1, <3>1 DEF Shaped
    <3>6. Chose(x, journals)
      BY <1>1, <3>5 DEF Held, Chose, Moved
    <3>7. Ready(x, journals)
      BY <1>1, <3>5, <3>6, Known DEF Ready
    <3>8. OnJournal(x, journals)
      BY <1>5, <3>5 DEF OnJournal
    <3>9. PICK y : ToAppend(y, x, e, "drafting")
      BY DEF ToAppend
    <3>10. request' = [request EXCEPT ![c] = y]
      BY <3>2, <3>5, <3>9 DEF ToAppend
    <3>11. /\ Works(y, journals) /\ Appends(y, journals) /\ Aside(y, journals)
           /\ Fresh(y, papers, skipped') /\ y.at = "folding"
      BY <3>4, <3>5, <3>7, <3>8, <3>9, AppendsAlone
    <3> QED
      BY <1>0, <1>2, <1>3, <3>10, <3>11, GoesAlone
  <2>3. CASE EmptyNeeds(r, At(r, i)) = {} /\ OwedNeeds(r, At(r, i)) # {}
    BY <1>6, <1>7, <2>3
  <2>4. CASE EmptyNeeds(r, At(r, i)) = {} /\ OwedNeeds(r, At(r, i)) = {}
    <3>1. PICK y : y = [r EXCEPT !.at = "asking", !.pos = i, !.tries = 0]
      OBVIOUS
    <3>2. request' = [request EXCEPT ![c] = y]
      BY <1>7, <2>4, <3>1 DEF Goes
    <3>3. /\ y.at = "asking" /\ y.on = r.on /\ y.journal = r.journal /\ y.copy = r.copy /\ y.pos = i
          /\ y.missed = r.missed
      BY <1>1, <3>1 DEF Shaped
    <3>4. At(y, y.pos) = At(r, i)
      BY <3>3 DEF At
    <3>5. NeedsIn(r.copy, At(r, i)) \subseteq LandedSlots(r.copy)
      <4>1. NeedsIn(r.copy, At(r, i)) \subseteq Slots(r.copy)
        BY <1>1, <2>1, NeedsAreSlots DEF At
      <4>2. \A n \in NeedsIn(r.copy, At(r, i)) : r.copy.outcomes[n].status = "landed"
        BY <2>4 DEF EmptyNeeds, OwedNeeds, IsEmpty, IsFinal
      <4> QED
        BY <4>1, <4>2 DEF LandedSlots
    <3>6. Works(y, journals)
      BY <1>5, <2>1, <3>3, <3>4, <3>5 DEF Works, OnJournal, Comes, Appending, Drafting
    <3>7. Aside(y, journals) /\ Appends(y, journals) /\ Fresh(y, papers, skipped')
      BY <1>5, <3>3 DEF Aside, Appends, Fresh, OnJournal, Comes, Appending, Drafting
    <3> QED
      BY <1>0, <1>2, <1>3, <3>2, <3>3, <3>6, <3>7, GoesAlone
  <2> QED
    BY <2>2, <2>3, <2>4
<1>8. CASE Goes(c, [r EXCEPT !.at = "ended"])
  BY <1>6, <1>8
<1> QED
  BY <1>0, <1>7, <1>8 DEF Drafts

LEMMA AskedIs ==
  ASSUME Inv, AInv, NEW c \in Composers, NEW r, r = request[c], r.at = "asking", NEW s, s = At(r, r.pos)
  PROVE  /\ Held(r, journals, papers) /\ Shaped(r, journals) /\ r.on \in Composition
         /\ r.journal \in 1..Len(journals) /\ r.journal # 0 /\ r.todo \subseteq ToSet(r.order)
         /\ s \in Slot /\ r.copy \in Journal /\ journals \in Seq(Journal)
         /\ r.pos \in Nat \ {0} /\ r.pos + 1 \in Nat \ {0} /\ r.tries \in Nat /\ r.tries + 1 \in Nat
         /\ OnJournal(r, journals) /\ r.copy.status = "open" /\ ~Appending(r)
         /\ s \in Slots(r.copy) /\ ~IsFinal(r.copy.outcomes[s])
         /\ NeedsIn(r.copy, s) \subseteq LandedSlots(r.copy)
<1>1. r.at \in Drafting
  BY DEF Drafting
<1>2. /\ Held(r, journals, papers) /\ Shaped(r, journals) /\ r.on \in Composition
      /\ r.journal \in 1..Len(journals) /\ r.todo \subseteq ToSet(r.order) /\ s \in Slot
      /\ r.copy \in Journal /\ r.pos \in DOMAIN Plan[r.copy.on.shape]
  BY <1>1, Drafted
<1>3. r.pos \in Nat \ {0} /\ r.tries \in Nat
  BY <1>2 DEF Shaped
<1>4. r.journal # 0 /\ r.pos + 1 \in Nat \ {0} /\ r.tries + 1 \in Nat
  BY <1>2, <1>3
<1>5. Works(r, journals) /\ Aside(r, journals)
  BY KnownAlone
<1>6. OnJournal(r, journals) /\ r.copy.status = "open" /\ ~Appending(r)
  BY <1>5 DEF Works, Aside, OnJournal, Comes, Appending, Drafting
<1>7. s \in Slots(r.copy)
  BY <1>2 DEF At, Slots, ToSet
<1>8. ~IsFinal(r.copy.outcomes[s]) /\ NeedsIn(r.copy, s) \subseteq LandedSlots(r.copy)
  BY <1>5 DEF Works
<1> QED
  BY <1>2, <1>3, <1>4, <1>6, <1>7, <1>8, Known

LEMMA IsWrittenAlone ==
  ASSUME OneComposer, Inv, Inv', AInv, NEW c \in Composers, IsWritten(c)
  PROVE  AInv'
<1>0. PICK r, s : r = request[c] /\ s = At(r, r.pos)
  OBVIOUS
<1>1. /\ Held(r, journals, papers) /\ Shaped(r, journals) /\ r.at = "asking" /\ r.on \in Composition
      /\ r.journal \in 1..Len(journals) /\ r.journal # 0 /\ r.todo \subseteq ToSet(r.order)
      /\ s \in Slot /\ r.copy \in Journal /\ journals \in Seq(Journal)
      /\ r.pos \in Nat \ {0} /\ r.pos + 1 \in Nat \ {0}
      /\ OnJournal(r, journals) /\ r.copy.status = "open" /\ ~Appending(r)
      /\ s \in Slots(r.copy) /\ ~IsFinal(r.copy.outcomes[s])
      /\ NeedsIn(r.copy, s) \subseteq LandedSlots(r.copy)
  <2>1. r.at = "asking"
    BY <1>0 DEF IsWritten
  <2> QED
    BY <1>0, <2>1, AskedIs
<1>2. PICK x, e, nx :
        /\ x = (IF Mixes(r, s) THEN r ELSE [r EXCEPT !.pos = @ + 1])
        /\ e = (IF Mixes(r, s) THEN Discarded("authoring-spec-changed")
                ELSE Ends(s, Landed(prompt[Task[s]], r.on)))
        /\ nx = (IF Mixes(r, s) THEN "idle" ELSE "drafting")
  OBVIOUS
<1>3. request' = [request EXCEPT ![c] = WillAppend(x, r.journal, e, nx)]
  <2>1. CASE Mixes(r, s)
    BY <1>0, <1>2, <2>1 DEF IsWritten, Goes
  <2>2. CASE ~Mixes(r, s)
    BY <1>0, <1>2, <2>2 DEF IsWritten, Goes
  <2> QED
    BY <2>1, <2>2
<1>4. Own(e, nx) /\ Adds(e) /\ Fits(r.copy, e) /\ (nx \in {"drafting", "ended"} => e.kind = "slot")
  <2>1. CASE Mixes(r, s)
    <3>1. e = Discarded("authoring-spec-changed") /\ nx = "idle" /\ e \in Events
      BY <1>2, <2>1, EventsAre DEF Whys
    <3> QED
      BY <1>1, <3>1 DEF Own, Adds, Fits, Discarded, Completed
  <2>2. CASE ~Mixes(r, s)
    <3>1. PICK v \in Version : v = prompt[Task[s]]
      BY <1>1 DEF Inv, World, Tasks
    <3>2. PICK o \in Outcome : o = Landed(v, r.on)
      BY <1>1, OutcomesAre
    <3>3. e = Ends(s, o) /\ nx = "drafting" /\ e \in Events
      BY <1>1, <1>2, <2>2, <3>1, <3>2, EventsAre
    <3>4. e.kind = "slot" /\ e.slot = s /\ e.outcome = o
      BY <3>3 DEF Ends
    <3>5. o.status = "landed" /\ o.version = v /\ o.on = r.on
      BY <3>2 DEF Landed
    <3>6. Agrees(r.copy, s, o)
      <4>1. o.on = r.copy.on
        BY <1>1, <3>5 DEF OnJournal
      <4>2. \A n \in LandedSlots(r.copy) : Task[n] = Task[s] => r.copy.outcomes[n].version = o.version
        BY <2>2, <3>1, <3>5 DEF Mixes, LandedSlots
      <4> QED
        BY <1>1, <4>1, <4>2 DEF Agrees
    <3> QED
      BY <1>1, <3>3, <3>4, <3>5, <3>6 DEF Own, Adds, Fits, Discarded, Completed
  <2> QED
    BY <2>1, <2>2
<1>5. /\ Shaped(x, journals) /\ x.at = "asking" /\ x.on = r.on /\ x.todo = r.todo
      /\ x.order = r.order /\ x.chosen = r.chosen /\ x.journal = r.journal
      /\ x.copy = r.copy /\ x.missed = r.missed
  <2>1. CASE Mixes(r, s)
    BY <1>1, <1>2, <2>1
  <2>2. CASE ~Mixes(r, s)
    <3>1. PICK p \in Nat \ {0} : p = r.pos + 1
      BY <1>1
    <3>2. x = [r EXCEPT !.pos = p]
      BY <1>2, <2>2, <3>1
    <3> QED
      BY <1>1, <3>2 DEF Shaped
  <2> QED
    BY <2>1, <2>2
<1>6. Chose(x, journals)
  BY <1>1, <1>5 DEF Held, Chose, Moved
<1>7. PICK y : ToAppend(y, x, e, nx)
  BY DEF ToAppend
<1>8. Ready(x, journals) /\ OnJournal(x, journals)
  BY <1>1, <1>5, <1>6 DEF Ready, OnJournal
<1>9. /\ Works(y, journals) /\ Appends(y, journals) /\ Aside(y, journals)
      /\ Fresh(y, papers, skipped') /\ y.at = "folding"
  BY <1>4, <1>5, <1>7, <1>8, AppendsAlone
<1>10. y.target = r.journal /\ y.event = e
  BY <1>4, <1>5, <1>7, <1>8, AppendsHeld
<1>11. request' = [request EXCEPT ![c] = y]
  BY <1>3, <1>5, <1>7 DEF ToAppend
<1>12. /\ journals' = journals /\ papers' = papers
       /\ written' = [written EXCEPT ![r.journal] = written[r.journal] + 1]
       /\ UNCHANGED <<skipped, crashes, failures>>
  BY <1>0 DEF IsWritten, files
<1>13. Paid(y, journals, written', crashes' + failures')
  <2> SUFFICES ASSUME NEW j \in 1..Len(journals)
               PROVE  written'[j] <= WillShow(y, journals, j) + (crashes' + failures')
    BY DEF Paid
  <2>1. PICK a \in Nat : a = crashes + failures
    BY Numbers
  <2>2. crashes' + failures' = a
    BY <1>12, <2>1
  <2>3. written \in Seq(Nat) /\ Len(written) = Len(journals)
    BY DEF Inv, Files, Ordered
  <2>4. written'[j] = IF j = r.journal THEN written[j] + 1 ELSE written[j]
    BY <1>1, <1>12, <2>3
  <2>5. written[j] <= WillShow(r, journals, j) + a /\ Shown(journals[j]) \in Nat /\ written[j] \in Nat
    BY <1>0, <2>1, KnownAlone, WrittenIs DEF Paid
  <2>6. WillShow(r, journals, j) = Shown(journals[j])
    BY <1>1 DEF WillShow, Appending
  <2>7. WillShow(y, journals, j) = IF j = r.journal THEN Shown(journals[j]) + 1 ELSE Shown(journals[j])
    BY <1>4, <1>9, <1>10 DEF WillShow
  <2> QED
    BY <2>2, <2>4, <2>5, <2>6, <2>7
<1> QED
  BY <1>9, <1>11, <1>12, <1>13, StepAlone DEF AInv

LEMMA IsRefusedAlone ==
  ASSUME OneComposer, Inv, Inv', AInv, NEW c \in Composers, IsRefused(c)
  PROVE  AInv'
<1>0. PICK r, s, x, e :
        r = request[c] /\ s = At(r, r.pos) /\ x = [r EXCEPT !.pos = r.pos + 1] /\ e = Ends(s, Refused)
  OBVIOUS
<1>1. /\ Held(r, journals, papers) /\ Shaped(r, journals) /\ r.at = "asking" /\ r.on \in Composition
      /\ r.journal \in 1..Len(journals) /\ r.journal # 0 /\ r.todo \subseteq ToSet(r.order)
      /\ s \in Slot /\ r.pos \in Nat \ {0} /\ r.pos + 1 \in Nat \ {0}
      /\ OnJournal(r, journals) /\ r.copy.status = "open" /\ ~Appending(r)
      /\ s \in Slots(r.copy) /\ ~IsFinal(r.copy.outcomes[s])
  <2>1. r.at = "asking"
    BY <1>0 DEF IsRefused
  <2> QED
    BY <1>0, <2>1, AskedIs
<1>2. request' = [request EXCEPT ![c] = WillAppend(x, r.journal, e, "drafting")]
  BY <1>0 DEF IsRefused, Goes
<1>3. e \in Events
  BY <1>0, <1>1, EventsAre, OutcomesAre
<1>4. Own(e, "drafting") /\ e.kind = "slot" /\ Fits(r.copy, e)
  BY <1>0, <1>1, <1>3 DEF Own, Ends, Completed, Discarded, Fits, Refused, Unattempted
<1>5. /\ Shaped(x, journals) /\ x.at = "asking" /\ x.on = r.on /\ x.todo = r.todo
      /\ x.order = r.order /\ x.chosen = r.chosen /\ x.journal = r.journal
      /\ x.copy = r.copy /\ x.missed = r.missed
  <2>1. PICK p \in Nat \ {0} : p = r.pos + 1
    BY <1>1
  <2>2. x = [r EXCEPT !.pos = p]
    BY <1>0, <2>1
  <2> QED
    BY <1>1, <2>2 DEF Shaped
<1>6. Chose(x, journals)
  BY <1>1, <1>5 DEF Held, Chose, Moved
<1>7. PICK y : ToAppend(y, x, e, "drafting")
  BY DEF ToAppend
<1>8. Ready(x, journals) /\ OnJournal(x, journals)
  BY <1>1, <1>5, <1>6 DEF Ready, OnJournal
<1>9. /\ Works(y, journals) /\ Appends(y, journals) /\ Aside(y, journals)
      /\ Fresh(y, papers, skipped') /\ y.at = "folding"
  BY <1>4, <1>5, <1>7, <1>8, AppendsAlone
<1>10. request' = [request EXCEPT ![c] = y]
  BY <1>2, <1>5, <1>7 DEF ToAppend
<1>11. UNCHANGED <<files, written, skipped, crashes, failures>>
  BY DEF IsRefused
<1>12. skipped <= skipped' /\ failures <= failures'
  BY <1>11, Numbers
<1> QED
  BY <1>0, <1>1, <1>9, <1>10, <1>11, <1>12, GoesAlone

LEMMA IsUnavailableAlone ==
  ASSUME OneComposer, Inv, Inv', AInv, NEW c \in Composers, IsUnavailable(c)
  PROVE  AInv'
<1>0. PICK r, s : r = request[c] /\ s = At(r, r.pos)
  OBVIOUS
<1>1. /\ Held(r, journals, papers) /\ Shaped(r, journals) /\ r.at = "asking" /\ r.on \in Composition
      /\ r.journal \in 1..Len(journals) /\ r.journal # 0 /\ r.todo \subseteq ToSet(r.order)
      /\ s \in Slot /\ r.tries \in Nat /\ r.tries + 1 \in Nat
      /\ OnJournal(r, journals) /\ r.copy.status = "open" /\ ~Appending(r)
      /\ s \in Slots(r.copy) /\ ~IsFinal(r.copy.outcomes[s])
  <2>1. r.at = "asking"
    BY <1>0 DEF IsUnavailable
  <2> QED
    BY <1>0, <2>1, AskedIs
<1>2. UNCHANGED <<files, written, skipped, crashes, failures>>
  BY DEF IsUnavailable
<1>3. skipped <= skipped' /\ failures <= failures'
  BY <1>2, Numbers
<1>4. CASE Tried(r.tries) <= Retries
  <2>1. PICK y : y = [r EXCEPT !.tries = r.tries + 1]
    OBVIOUS
  <2>2. request' = [request EXCEPT ![c] = y]
    BY <1>0, <1>4, <2>1 DEF IsUnavailable, Goes, Tried
  <2>3. /\ y.at = "asking" /\ y.on = r.on /\ y.journal = r.journal /\ y.copy = r.copy /\ y.pos = r.pos
        /\ y.missed = r.missed
    BY <1>1, <2>1 DEF Shaped
  <2>4. At(y, y.pos) = At(r, r.pos)
    BY <2>3 DEF At
  <2>5. Works(r, journals)
    BY <1>0, KnownAlone
  <2>6. Works(y, journals)
    BY <1>1, <2>3, <2>4, <2>5 DEF Works, Comes, Appending, Drafting
  <2>7. Aside(y, journals) /\ Appends(y, journals) /\ Fresh(y, papers, skipped')
    BY <1>1, <2>3 DEF Aside, Appends, Fresh, OnJournal, Comes, Appending, Drafting
  <2> QED
    BY <1>0, <1>1, <1>2, <1>3, <2>2, <2>3, <2>6, <2>7, GoesAlone
<1>5. CASE ~(Tried(r.tries) <= Retries)
  <2>1. PICK x, e : x = [r EXCEPT !.tries = 0] /\ e = Ends(s, Owed)
    OBVIOUS
  <2>2. request' = [request EXCEPT ![c] = WillAppend(x, r.journal, e, "ended")]
    BY <1>0, <1>5, <2>1 DEF IsUnavailable, Goes
  <2>3. e \in Events
    BY <1>1, <2>1, EventsAre, OutcomesAre
  <2>4. Own(e, "ended") /\ e.kind = "slot" /\ Fits(r.copy, e)
    BY <1>1, <2>1, <2>3 DEF Own, Ends, Completed, Discarded, Fits, Owed, Unattempted
  <2>5. /\ Shaped(x, journals) /\ x.at = "asking" /\ x.on = r.on /\ x.todo = r.todo
        /\ x.order = r.order /\ x.chosen = r.chosen /\ x.journal = r.journal
        /\ x.copy = r.copy /\ x.missed = r.missed
    BY <1>1, <2>1 DEF Shaped
  <2>6. Chose(x, journals)
    BY <1>1, <2>5 DEF Held, Chose, Moved
  <2>7. PICK y : ToAppend(y, x, e, "ended")
    BY DEF ToAppend
  <2>8. Ready(x, journals) /\ OnJournal(x, journals)
    BY <1>1, <2>5, <2>6, Known DEF Ready, OnJournal
  <2>9. /\ Works(y, journals) /\ Appends(y, journals) /\ Aside(y, journals)
        /\ Fresh(y, papers, skipped') /\ y.at = "folding"
    BY <2>4, <2>5, <2>7, <2>8, AppendsAlone
  <2>10. request' = [request EXCEPT ![c] = y]
    BY <2>2, <2>5, <2>7 DEF ToAppend
  <2> QED
    BY <1>0, <1>1, <1>2, <1>3, <2>9, <2>10, GoesAlone
<1> QED
  BY <1>4, <1>5

LEMMA RunEndsAlone ==
  ASSUME OneComposer, Inv, Inv', AInv, NEW c \in Composers, RunEnds(c)
  PROVE  AInv'
<1>0. PICK r, y : r = request[c] /\ y = [r EXCEPT !.at = "finishing"]
  OBVIOUS
<1>1. /\ r.at = "ended" /\ ~Appending(r) /\ UNCHANGED <<files, written, skipped, crashes, failures>>
  BY <1>0 DEF RunEnds, Appending
<1>2. skipped <= skipped' /\ failures <= failures'
  BY <1>1, Numbers
<1>3. CASE OwedSlots(r.copy) # {}
  <2>1. Goes(c, Idle)
    BY <1>0, <1>3 DEF RunEnds
  <2> QED
    BY <1>0, <1>1, <1>2, <2>1, StopsAlone
<1>4. CASE OwedSlots(r.copy) = {}
  <2>1. request' = [request EXCEPT ![c] = y]
    BY <1>0, <1>4 DEF RunEnds, Goes
  <2>2. y.at = "finishing" /\ y.on = r.on /\ y.journal = r.journal /\ y.missed = r.missed
    BY <1>0, Known DEF Held, Shaped
  <2>3. Works(r, journals) /\ Aside(r, journals)
    BY <1>0, KnownAlone
  <2>4. Works(y, journals) /\ Aside(y, journals)
    BY <1>1, <2>2, <2>3 DEF Works, Aside, Comes, Appending, Drafting
  <2>5. Appends(y, journals) /\ Fresh(y, papers, skipped')
    BY <2>2 DEF Appends, Fresh
  <2> QED
    BY <1>0, <1>1, <1>2, <2>1, <2>2, <2>4, <2>5, GoesAlone
<1> QED
  BY <1>3, <1>4

LEMMA CompletesAlone ==
  ASSUME NEW r, NEW js, NEW js2, Shaped(r, js), NEW y, NEW e, e = Completed,
         y = WillAppend(r, r.journal, e, "idle"), NEW ps, NEW n
  PROVE  /\ Works(y, js2) /\ Appends(y, js2) /\ Aside(y, js2) /\ Fresh(y, ps, n) /\ y.at = "folding"
         /\ \A j : WillShow(y, js2, j) = Shown(js2[j])
<1>1. y.at = "folding" /\ y.next = "idle" /\ y.event = e
  BY DEF Shaped, WillAppend
<1>2. e.kind = "completed" /\ ~Adds(e)
  BY DEF Completed, Adds, Discarded
<1> QED
  BY <1>1, <1>2 DEF Works, Appends, Aside, Fresh, Comes, Appending, Drafting, Fits, WillShow

LEMMA FinishesAlone ==
  ASSUME OneComposer, Inv, Inv', AInv, NEW c \in Composers, Finishes(c)
  PROVE  AInv'
<1>0. PICK r, j, all : r = request[c] /\ j = journals[r.journal] /\ all = PapersOf(r.journal)
  OBVIOUS
<1>1. /\ Shaped(r, journals) /\ r.at = "finishing" /\ ~Appending(r)
      /\ UNCHANGED <<files, written, crashes>>
  BY <1>0, Known DEF Finishes, Held, Appending
<1>2. CASE Throws(c) /\ UNCHANGED skipped
  BY <1>1, <1>2, ThrowsAlone
<1>3. CASE ~(Throws(c) /\ UNCHANGED skipped)
  <2>1. PICK seen \in SUBSET all :
              /\ Listing(all, seen)
              /\ skipped' = skipped + Cardinality(all \ seen)
              /\ Goes(c, CASE j.status = "discarded" -> Idle
                            [] j.status = "open" /\ IsFinished(seen) ->
                                 WillAppend(r, r.journal, Completed, "idle")
                            [] j.status = "completed" /\ IsFinished(seen) -> Idle
                            [] j.status # "discarded" /\ ~IsFinished(seen) ->
                                 IF OwedSlots(j) # {} THEN Idle
                                 ELSE [r EXCEPT !.at = "creating", !.copy = j])
    BY <1>0, <1>3 DEF Finishes
  <2>2. Len(papers) \in Nat /\ all \in SUBSET (1..Len(papers)) /\ all = Copies(papers, r.journal)
    BY <1>0 DEF Inv, Files, PapersOf, Copies
  <2>3. failures <= failures'
    BY <2>1, <2>2, ListingCounts, Numbers
  <2>4. Cardinality(all \ seen) \in Nat /\ Cardinality(all) \in Nat
    <3>1. all \ seen \in SUBSET (1..Len(papers)) /\ IsFiniteSet(1..Len(papers))
      BY <2>2, FS_Interval
    <3> QED
      BY <2>2, <3>1, FS_Subset, FS_CardinalityType
  <2>5. skipped <= skipped' /\ Cardinality(all \ seen) <= skipped'
    BY <2>1, <2>4, Numbers
  <2>6. CASE Goes(c, Idle)
    BY <1>0, <1>1, <2>3, <2>5, <2>6, StopsAlone
  <2>7. CASE j.status = "open" /\ IsFinished(seen)
    <3>1. PICK e, y : e = Completed /\ y = WillAppend(r, r.journal, e, "idle")
      OBVIOUS
    <3>2. request' = [request EXCEPT ![c] = y]
      BY <2>1, <2>7, <3>1 DEF Goes
    <3>3. /\ Works(y, journals) /\ Appends(y, journals) /\ Aside(y, journals)
          /\ Fresh(y, papers, skipped') /\ y.at = "folding"
      BY <1>1, <3>1, CompletesAlone
    <3> QED
      BY <1>0, <1>1, <2>3, <2>5, <3>2, <3>3, GoesAlone
  <2>8. CASE j.status # "discarded" /\ ~IsFinished(seen) /\ OwedSlots(j) = {}
    <3>1. PICK y : y = [r EXCEPT !.at = "creating", !.copy = j]
      OBVIOUS
    <3>2. request' = [request EXCEPT ![c] = y]
      BY <2>1, <2>8, <3>1 DEF Goes
    <3>3. /\ y.at = "creating" /\ y.on = r.on /\ y.journal = r.journal /\ y.missed = r.missed /\ y.copy = j
      BY <1>1, <3>1 DEF Shaped
    <3>4. Works(r, journals) /\ Aside(r, journals)
      BY <1>0, KnownAlone
    <3>5. Works(y, journals) /\ Aside(y, journals)
      BY <1>0, <1>1, <2>8, <3>3, <3>4 DEF Works, Aside, Comes, Appending, Drafting
    <3>6. Fresh(y, papers, skipped')
      <4>1. seen = {} /\ all \ seen = all
        BY <2>8 DEF IsFinished
      <4> QED
        BY <2>2, <2>5, <3>3, <4>1 DEF Fresh
    <3>7. Appends(y, journals)
      BY <3>3 DEF Appends
    <3> QED
      BY <1>0, <1>1, <2>3, <2>5, <3>2, <3>3, <3>5, <3>6, <3>7, GoesAlone
  <2>9. j.status \in {"open", "completed", "discarded"}
    <3>1. r.journal \in 1..Len(journals)
      BY <1>0, <1>1, Drafted DEF Drafting
    <3>2. j \in Journal
      BY <1>0, <3>1, Known
    <3> QED
      BY <3>2 DEF Journal
  <2> QED
    BY <2>1, <2>6, <2>7, <2>8, <2>9, Zenon
<1> QED
  BY <1>2, <1>3

\* A paper is made of a journal whose parts have all ended.
LEMMA PaperIsMade ==
  ASSUME NEW x \in Journal, Sound(x), OwedSlots(x) = {}, NEW paper,
         paper.asked = x.on, paper.outcomes = x.outcomes
  PROVE  Whole(paper, x)
<1>1. \A s \in Slots(x) : paper.outcomes[s].status \in {"landed", "refused", "depends"}
  BY DEF OwedSlots, IsFinal
<1>2. {s \in Slots(x) : paper.outcomes[s].status = "landed"} = LandedSlots(x)
  BY DEF LandedSlots
<1>3. \A s \in LandedSlots(x) :
        /\ NeedsIn(x, s) \subseteq LandedSlots(x)
        /\ paper.outcomes[s].on = paper.asked
        /\ \A n \in LandedSlots(x) :
             Task[s] = Task[n] => paper.outcomes[s].version = paper.outcomes[n].version
  BY DEF Sound, Agrees
<1> QED
  BY <1>1, <1>2, <1>3 DEF Whole

LEMMA CreatesAlone ==
  ASSUME OneComposer, Inv, Inv', AInv, NEW c \in Composers, Creates(c)
  PROVE  AInv'
<1>0. PICK r, paper : /\ r = request[c]
                      /\ paper = [journal |-> r.journal, asked |-> r.on, outcomes |-> r.copy.outcomes]
  OBVIOUS
<1>1. /\ Shaped(r, journals) /\ r.at = "creating" /\ r.on \in Composition
      /\ r.journal \in 1..Len(journals) /\ r.copy \in Journal /\ ~Appending(r)
      /\ UNCHANGED <<journals, recent, written, skipped, crashes>>
  <2>1. /\ r.at = "creating" /\ r.at \in Drafting /\ UNCHANGED <<journals, recent, written, skipped, crashes>>
    BY <1>0 DEF Creates, Drafting
  <2>2. /\ Shaped(r, journals) /\ r.on \in Composition /\ r.journal \in 1..Len(journals) /\ r.copy \in Journal
    BY <1>0, <2>1, Drafted
  <2> QED
    BY <2>1, <2>2 DEF Appending
<1>2. CASE Throws(c) /\ UNCHANGED papers
  BY <1>1, <1>2, ThrowsAlone DEF files
<1>3. CASE papers' = Append(papers, paper)
  <2>1. /\ r.on = journals[r.journal].on /\ r.copy = journals[r.journal] /\ OwedSlots(r.copy) = {}
        /\ Cardinality(Copies(papers, r.journal)) <= skipped /\ Sound(r.copy)
    BY <1>0, <1>1, KnownAlone DEF Works, Fresh, Comes, Appending, Drafting
  <2>2. papers \in Seq(Paper(Len(journals))) /\ Len(papers) \in Nat
    BY DEF Inv, Files
  <2>3. PICK n, ps : n = Len(papers) /\ ps = papers'
    OBVIOUS
  <2>4. /\ DOMAIN ps = 1..(n + 1) /\ DOMAIN papers = 1..n /\ n \in Nat
        /\ ps[n + 1] = paper /\ \A p \in 1..n : ps[p] = papers[p]
    BY <1>3, <2>2, <2>3
  <2>5. \A p \in 1..(n + 1) : p = n + 1 \/ p \in 1..n
    BY <2>4
  <2>6. Whole(paper, journals[r.journal])
    BY <1>0, <1>1, <2>1, PaperIsMade
  <2>7. \A p \in DOMAIN ps : Whole(ps[p], journals[ps[p].journal])
    <3>1. \A p \in DOMAIN papers : Whole(papers[p], journals[papers[p].journal])
      BY DEF AInv, Papers
    <3>2. paper.journal = r.journal
      BY <1>0
    <3> QED
      BY <2>4, <2>5, <2>6, <3>1, <3>2
  <2>8. ASSUME NEW j \in 1..Len(journals)
        PROVE  Cardinality(Copies(ps, j)) <= 1 + skipped
    <3>1. /\ IsFiniteSet(Copies(papers, j)) /\ Cardinality(Copies(papers, j)) \in Nat
          /\ Cardinality(Copies(papers, j)) <= 1 + skipped
      BY CopiesFinite DEF AInv, Papers
    <3>2. CASE j = r.journal
      <4>1. Copies(ps, j) = Copies(papers, j) \cup {n + 1} /\ n + 1 \notin Copies(papers, j)
        BY <1>0, <2>4, <2>5, <3>2 DEF Copies
      <4>2. Cardinality(Copies(ps, j)) = Cardinality(Copies(papers, j)) + 1
        BY <3>1, <4>1, FS_AddElement
      <4> QED
        BY <2>1, <3>1, <3>2, <4>2, Numbers
    <3>3. CASE j # r.journal
      <4>1. Copies(ps, j) = Copies(papers, j)
        BY <1>0, <2>4, <2>5, <3>3 DEF Copies
      <4> QED
        BY <3>1, <4>1
    <3> QED
      BY <3>2, <3>3
  <2>9. Papers(journals, ps, skipped)
    BY <2>7, <2>8 DEF Papers
  <2>10. ASSUME NEW y, \A j : WillShow(y, journals, j) = Shown(journals[j]),
                crashes + failures <= crashes' + failures'
         PROVE  Paid(y, journals, written, crashes' + failures')
    <3> SUFFICES ASSUME NEW j \in 1..Len(journals)
                 PROVE  written[j] <= WillShow(y, journals, j) + (crashes' + failures')
      BY DEF Paid
    <3>1. PICK a, b \in Nat : a = crashes + failures /\ b = crashes' + failures'
      BY Numbers
    <3>2. written[j] <= WillShow(r, journals, j) + a /\ Shown(journals[j]) \in Nat /\ written[j] \in Nat
      BY <1>0, <3>1, KnownAlone, WrittenIs DEF Paid
    <3>3. WillShow(r, journals, j) = Shown(journals[j]) /\ WillShow(y, journals, j) = Shown(journals[j])
      BY <1>1, <2>10 DEF WillShow, Appending
    <3>4. a <= b
      BY <2>10, <3>1
    <3> QED
      BY <3>1, <3>2, <3>3, <3>4
  <2>11. CASE Throws(c)
    <3>1. request' = [request EXCEPT ![c] = Idle] /\ failures' = failures + 1
      BY <2>11 DEF Throws, Fails, Goes
    <3>2. crashes + failures <= crashes' + failures'
      BY <1>1, <3>1, Numbers
    <3>3. /\ Works(Idle, journals) /\ Appends(Idle, journals) /\ Aside(Idle, journals)
          /\ Fresh(Idle, ps, skipped) /\ \A j : WillShow(Idle, journals, j) = Shown(journals[j])
      BY DEF Works, Appends, Aside, Fresh, Idle, Comes, Appending, Drafting, WillShow
    <3>4. Paid(Idle, journals, written, crashes' + failures')
      BY <2>10, <3>2, <3>3
    <3> QED
      BY <1>1, <2>3, <2>9, <3>1, <3>3, <3>4, StepAlone DEF AInv
  <2>12. CASE Goes(c, WillAppend(r, r.journal, Completed, "idle")) /\ UNCHANGED failures
    <3>1. PICK e, y : e = Completed /\ y = WillAppend(r, r.journal, e, "idle")
      OBVIOUS
    <3>2. request' = [request EXCEPT ![c] = y]
      BY <2>12, <3>1 DEF Goes
    <3>3. crashes + failures <= crashes' + failures'
      BY <1>1, <2>12, Numbers
    <3>4. /\ Works(y, journals) /\ Appends(y, journals) /\ Aside(y, journals)
          /\ Fresh(y, ps, skipped) /\ \A j : WillShow(y, journals, j) = Shown(journals[j])
      BY <1>1, <3>1, CompletesAlone
    <3>5. Paid(y, journals, written, crashes' + failures')
      BY <2>10, <3>3, <3>4
    <3> QED
      BY <1>1, <2>3, <2>9, <3>2, <3>4, <3>5, StepAlone DEF AInv
  <2> QED
    BY <1>0, <1>3, <2>11, <2>12 DEF Creates
<1> QED
  BY <1>0, <1>2, <1>3 DEF Creates

LEMMA FoldsAlone ==
  ASSUME OneComposer, Inv, Inv', AInv, NEW c \in Composers, Folds(c)
  PROVE  AInv'
<1>0. PICK r, x, e, z, a, y :
        /\ r = request[c] /\ x = journals[r.target] /\ e = r.event /\ z = Folded(x, e)
        /\ a = (IF z = x THEN r.next ELSE "writing")
        /\ y = [r EXCEPT !.copy = z, !.event = NoEvent, !.at = a]
  OBVIOUS
<1>1. /\ Shaped(r, journals) /\ r.at = "folding" /\ Appending(r) /\ e \in Events
      /\ r.next \in {"drafting", "ended"} => r.target = r.journal
      /\ UNCHANGED <<files, written, skipped, crashes>>
  <2>1. r.at = "folding" /\ UNCHANGED <<files, written, skipped, crashes>>
    BY <1>0 DEF Folds
  <2>2. Held(r, journals, papers)
    BY <1>0, Known
  <2> QED
    BY <1>0, <2>1, <2>2 DEF Held, Placed, Appending
<1>2. r.target \in 1..Len(journals) /\ r.next \in {"idle", "opening", "discarding", "drafting", "ended"}
  <2>1. r.target \in 0..Len(journals) /\ r.target # 0 /\ Len(journals) \in Nat
    BY <1>0, <1>1, Known DEF Held, Shaped, Placed
  <2> QED
    BY <1>1, <2>1 DEF Shaped
<1>3. CASE Throws(c)
  BY <1>1, <1>3, ThrowsAlone
<1>4. CASE ~Throws(c)
  <2>1. request' = [request EXCEPT ![c] = y] /\ failures' = failures
    BY <1>0, <1>4, Zenon DEF Folds, Goes
  <2>2. Works(r, journals) /\ Appends(r, journals) /\ Aside(r, journals)
    BY <1>0, KnownAlone
  <2>3. x \in Journal /\ SaysWhy(x) /\ Sound(x) /\ Shown(x) \in Nat
    BY <1>0, <1>2, KnownAlone
  <2>4. /\ Fits(x, e) /\ (r.next \in {"drafting", "ended"} => e.kind = "slot")
        /\ (r.next = "discarding" => e.kind = "discarded") /\ (Adds(e) => r.target = r.journal)
    BY <1>0, <1>1, <2>2 DEF Appends
  <2>5. x.status # "open" => z = x /\ ~Adds(e) /\ e.kind # "slot"
    BY <1>0, <1>1, <2>3, <2>4, FoldedIs DEF Fits
  <2>6. x.status = "open" => /\ z.status = "open" <=> e.kind = "slot"
                             /\ Shown(z) = Shown(x) + (IF Adds(e) THEN 1 ELSE 0)
    BY <1>0, <1>1, <2>3, <2>4, FoldShows
  <2>7. /\ y.at = a /\ y.on = r.on /\ y.journal = r.journal /\ y.missed = r.missed /\ y.todo = r.todo
        /\ y.copy = z /\ y.target = r.target /\ y.next = r.next
    BY <1>0, <1>1 DEF Shaped
  <2>8. Comes(r) = r.next /\ Comes(y) = r.next
    BY <1>0, <1>1, <1>2, <2>7 DEF Comes, Appending
  <2>9. Works(y, journals)
    <3>1. CASE z = x
      <4>1. r.next \in {"drafting", "ended"} => x.status = "open" /\ r.target = r.journal
        BY <1>1, <2>4, <2>5
      <4> QED
        BY <1>0, <1>2, <2>2, <2>7, <2>8, <3>1, <4>1 DEF Works, Drafting
    <3>2. CASE z # x
      BY <1>0, <1>2, <2>2, <2>7, <2>8, <3>2 DEF Works, Drafting
    <3> QED
      BY <3>1, <3>2
  <2>10. Appends(y, journals)
    <3>1. CASE z = x
      BY <1>0, <1>2, <2>7, <3>1 DEF Appends
    <3>2. CASE z # x
      <4>1. x.status = "open"
        BY <2>5, <3>2
      <4>2. r.next \in {"drafting", "ended"} => z.status = "open"
        BY <2>4, <2>6, <4>1
      <4>3. r.next = "discarding" => z.status # "open"
        BY <2>4, <2>6, <4>1
      <4>4. \E d \in Events : /\ Fits(journals[y.target], d) /\ y.copy = Folded(journals[y.target], d)
                              /\ Adds(d) => y.target = y.journal
        BY <1>0, <1>1, <2>4, <2>7
      <4>5. y.at = "writing" /\ journals[y.target].status = "open"
        BY <1>0, <2>7, <3>2, <4>1
      <4> QED
        BY <2>7, <4>2, <4>3, <4>4, <4>5 DEF Appends
    <3> QED
      BY <3>1, <3>2
  <2>11. Aside(y, journals)
    <3>1. CASE r.next = "discarding"
      <4>1. OpenIn(journals) \subseteq r.todo \cup r.missed \cup {r.journal} \cup {r.target}
        BY <1>1, <2>2, <2>8, <3>1 DEF Aside
      <4>2. CASE z = x
        <5>1. x.status # "open"
          BY <2>4, <2>6, <3>1, <4>2
        <5>2. OpenIn(journals) \subseteq r.todo \cup r.missed \cup {r.journal}
          BY <1>0, <4>1, <5>1 DEF OpenIn
        <5> QED
          BY <1>0, <2>7, <2>8, <3>1, <4>2, <5>2 DEF Aside, Appending, Drafting
      <4>3. CASE z # x
        <5>1. Appending(y)
          BY <1>0, <2>7, <4>3 DEF Appending
        <5> QED
          BY <2>7, <2>8, <3>1, <4>1, <5>1 DEF Aside, Drafting
      <4> QED
        BY <4>2, <4>3
    <3>2. CASE r.next # "discarding"
      BY <2>2, <2>7, <2>8, <3>2 DEF Aside
    <3> QED
      BY <3>1, <3>2
  <2>12. Fresh(y, papers, skipped')
    BY <1>0, <1>2, <2>7 DEF Fresh
  <2>13. \A j \in 1..Len(journals) : WillShow(y, journals, j) = WillShow(r, journals, j)
    <3> SUFFICES ASSUME NEW j \in 1..Len(journals) PROVE WillShow(y, journals, j) = WillShow(r, journals, j)
      OBVIOUS
    <3>1. CASE j # r.target
      BY <2>7, <3>1 DEF WillShow
    <3>2. CASE j = r.target
      <4>1. WillShow(r, journals, j) = IF Adds(e) THEN Shown(x) + 1 ELSE Shown(x)
        BY <1>0, <1>1, <3>2 DEF WillShow
      <4>2. CASE z = x
        <5>1. ~Adds(e)
          BY <2>3, <2>5, <2>6, <4>2
        <5>2. WillShow(y, journals, j) = Shown(x)
          BY <1>0, <1>2, <2>7, <3>2, <4>2 DEF WillShow
        <5> QED
          BY <4>1, <5>1, <5>2
      <4>3. CASE z # x
        <5>1. WillShow(y, journals, j) = Shown(z)
          BY <1>0, <2>7, <3>2, <4>3 DEF WillShow
        <5> QED
          BY <2>3, <2>5, <2>6, <4>1, <4>3, <5>1
      <4> QED
        BY <4>2, <4>3
    <3> QED
      BY <3>1, <3>2
  <2>14. Paid(y, journals, written, crashes' + failures')
    <3>1. Paid(r, journals, written, crashes + failures) /\ crashes' = crashes
      BY <1>0, <1>1, KnownAlone
    <3> QED
      BY <2>1, <2>13, <3>1 DEF Paid
  <2>15. skipped <= skipped'
    BY <1>1, Numbers
  <2> QED
    BY <1>1, <2>1, <2>9, <2>10, <2>11, <2>12, <2>14, <2>15, QuietAlone
<1> QED
  BY <1>3, <1>4

LEMMA WritesAlone ==
  ASSUME OneComposer, Inv, Inv', AInv, NEW c \in Composers, Writes(c)
  PROVE  AInv'
<1>0. PICK r, t, x : r = request[c] /\ t = r.target /\ x = r.copy
  OBVIOUS
<1>1. /\ Shaped(r, journals) /\ r.at = "writing" /\ Appending(r) /\ t # 0
      /\ x \in Journal /\ SaysWhy(x) /\ x.on = journals[t].on
      /\ r.next \in {"drafting", "ended"} => t = r.journal
      /\ x.status = "completed" => HasPaper(papers, t)
      /\ UNCHANGED <<papers, written, skipped, crashes>>
  <2>1. r.at = "writing" /\ UNCHANGED <<papers, written, skipped, crashes>>
    BY <1>0 DEF Writes
  <2>2. Held(r, journals, papers)
    BY <1>0, Known
  <2> QED
    BY <1>0, <2>1, <2>2 DEF Held, Placed, Printed, Appending
<1>2. t \in 1..Len(journals) /\ r.next \in {"idle", "opening", "discarding", "drafting", "ended"}
  <2>1. t \in 0..Len(journals) /\ t # 0 /\ Len(journals) \in Nat
    BY <1>0, <1>1, Known DEF Shaped
  <2> QED
    BY <1>1, <2>1 DEF Shaped
<1>3. CASE Throws(c) /\ UNCHANGED <<journals, recent>>
  BY <1>1, <1>3, ThrowsAlone DEF files
<1>4. CASE journals' = [journals EXCEPT ![t] = x] /\ Updated(t)
  <2>1. PICK js, n : js = journals' /\ n = Len(journals)
    OBVIOUS
  <2>2. Len(js) = n /\ js[t] = x /\ n \in Nat /\ \A k \in 1..n : k # t => js[k] = journals[k]
    BY <1>1, <1>2, <1>4, <2>1, WrittenFiles, Known
  <2>3. Works(r, journals) /\ Appends(r, journals) /\ Aside(r, journals)
    BY <1>0, KnownAlone
  <2>4. PICK e \in Events : Fits(journals[t], e) /\ x = Folded(journals[t], e)
    BY <1>0, <1>1, <2>3 DEF Appends
  <2>5. /\ journals[t].status = "open" /\ (r.next \in {"drafting", "ended"} => x.status = "open")
        /\ (r.next = "discarding" => x.status # "open")
    BY <1>0, <1>1, <2>3 DEF Appends
  <2>6. Sound(x)
    BY <1>2, <2>4, <2>5, FoldShows, KnownAlone
  <2>7. \A j \in 1..Len(js) : Sound(js[j])
    BY <2>1, <2>2, <2>6, KnownAlone
  <2>8. \A j \in 1..n : js[j].on = journals[j].on
    BY <1>1, <2>2
  <2>9. Papers(js, papers, skipped')
    <3>1. skipped \in Nat /\ skipped' = skipped /\ Papers(journals, papers, skipped)
      BY <1>1, Numbers DEF AInv
    <3>2. Len(journals) <= Len(js) /\ Len(js) \in Nat
      BY <2>1, <2>2
    <3>3. skipped <= skipped'
      BY <3>1
    <3> QED
      BY <2>1, <2>8, <3>1, <3>2, <3>3, PapersKept
  <2>10. ASSUME NEW y, ~Appending(y), crashes + failures <= crashes' + failures'
         PROVE  Paid(y, js, written, crashes' + failures')
    <3> SUFFICES ASSUME NEW j \in 1..Len(js) PROVE written[j] <= WillShow(y, js, j) + (crashes' + failures')
      BY DEF Paid
    <3>1. PICK a, b \in Nat : a = crashes + failures /\ b = crashes' + failures'
      BY Numbers
    <3>2. j \in 1..Len(journals)
      BY <2>1, <2>2
    <3>3. written[j] <= WillShow(r, journals, j) + a /\ written[j] \in Nat
      BY <1>0, <3>1, <3>2, KnownAlone, WrittenIs DEF Paid
    <3>4. Shown(js[j]) \in Nat
      BY <1>1, <2>1, <2>2, <3>2, KnownAlone, LandedFinite
    <3>5. WillShow(r, journals, j) = Shown(js[j])
      BY <1>0, <1>1, <2>1, <2>2, <3>2 DEF WillShow
    <3>6. WillShow(y, js, j) = Shown(js[j])
      BY <2>10 DEF WillShow, Appending
    <3>7. a <= b
      BY <2>10, <3>1
    <3> QED
      BY <3>1, <3>3, <3>4, <3>5, <3>6, <3>7
  <2>11. OpenIn(js) \subseteq OpenIn(journals) /\ (x.status # "open" => t \notin OpenIn(js))
    BY <2>1, <2>2, <2>5 DEF OpenIn
  <2>12. ASSUME NEW y, y.at = "idle", request' = [request EXCEPT ![c] = y],
                crashes + failures <= crashes' + failures'
         PROVE  AInv'
    <3>1. /\ Works(y, js) /\ Appends(y, js) /\ Aside(y, js) /\ Fresh(y, papers, skipped') /\ ~Appending(y)
      BY <2>12 DEF Works, Appends, Aside, Fresh, Comes, Appending, Drafting
    <3>2. Paid(y, js, written, crashes' + failures')
      BY <2>10, <2>12, <3>1
    <3> QED
      BY <1>1, <2>1, <2>7, <2>9, <2>12, <3>1, <3>2, StepAlone
  <2>13. CASE Throws(c)
    <3>1. request' = [request EXCEPT ![c] = Idle] /\ failures' = failures + 1
      BY <2>13 DEF Throws, Fails, Goes
    <3>2. crashes + failures <= crashes' + failures'
      BY <1>1, <3>1, Numbers
    <3>3. Idle.at = "idle"
      BY DEF Idle
    <3> QED
      BY <2>12, <3>1, <3>2, <3>3
  <2>14. CASE /\ Goes(c, IF r.next = "idle" THEN Idle ELSE [r EXCEPT !.at = r.next, !.target = 0])
              /\ UNCHANGED failures
    <3>1. crashes + failures <= crashes' + failures'
      BY <1>1, <2>14, Numbers
    <3>2. CASE r.next = "idle"
      <4>1. request' = [request EXCEPT ![c] = Idle] /\ Idle.at = "idle"
        BY <2>14, <3>2 DEF Goes, Idle
      <4> QED
        BY <2>12, <3>1, <4>1
    <3>3. CASE r.next # "idle"
      <4>1. PICK y : y = [r EXCEPT !.at = r.next, !.target = 0]
        OBVIOUS
      <4>2. request' = [request EXCEPT ![c] = y]
        BY <2>14, <3>3, <4>1 DEF Goes
      <4>3. /\ y.at = r.next /\ y.on = r.on /\ y.journal = r.journal /\ y.missed = r.missed
            /\ y.todo = r.todo /\ y.copy = x
        BY <1>0, <1>1, <4>1 DEF Shaped
      <4>4. ~Appending(y) /\ Comes(y) = r.next /\ Comes(r) = r.next
        BY <1>1, <1>2, <4>3 DEF Appending, Comes
      <4>5. Works(y, js)
        <5>1. Comes(y) \in Drafting \/ (Comes(y) = "discarding" /\ y.journal # 0) => y.on = js[y.journal].on
          <6>1. r.journal \in 0..n
            BY <1>1, <2>1 DEF Shaped
          <6>2. Comes(y) \in Drafting => r.journal # 0
            BY <1>1, <1>2, <4>4 DEF Drafting
          <6>3. Comes(y) \in Drafting \/ (Comes(y) = "discarding" /\ r.journal # 0) =>
                  r.on = journals[r.journal].on
            BY <2>3, <4>4 DEF Works
          <6>4. r.journal # 0 => r.journal \in 1..n
            BY <2>2, <6>1
          <6> QED
            BY <2>8, <4>3, <6>2, <6>3, <6>4
        <5>2. r.next \in {"drafting", "ended"} => y.copy = js[y.journal] /\ js[y.journal].status = "open"
          BY <1>1, <2>2, <2>5, <4>3
        <5> QED
          BY <1>2, <4>3, <4>4, <5>1, <5>2 DEF Works
      <4>6. Aside(y, js)
        <5>1. CASE r.next = "discarding"
          <6>1. OpenIn(journals) \subseteq r.todo \cup r.missed \cup {r.journal} \cup {t}
            BY <1>0, <1>1, <2>3, <4>4, <5>1 DEF Aside
          <6>2. OpenIn(js) \subseteq r.todo \cup r.missed \cup {r.journal}
            BY <2>5, <2>11, <5>1, <6>1
          <6> QED
            BY <4>3, <4>4, <5>1, <6>2 DEF Aside, Drafting
        <5>2. CASE r.next # "discarding"
          <6>1. r.next \in Drafting => OpenIn(journals) \subseteq r.missed \cup {r.journal}
            BY <2>3, <4>4 DEF Aside
          <6> QED
            BY <2>11, <4>3, <4>4, <5>2, <6>1 DEF Aside
        <5> QED
          BY <5>1, <5>2
      <4>7. Appends(y, js) /\ Fresh(y, papers, skipped')
        BY <1>2, <4>3 DEF Appends, Fresh
      <4>8. Paid(y, js, written, crashes' + failures')
        BY <2>10, <3>1, <4>4
      <4> QED
        BY <1>1, <2>1, <2>7, <2>9, <4>2, <4>5, <4>6, <4>7, <4>8, StepAlone
    <3> QED
      BY <3>2, <3>3
  <2> QED
    BY <1>0, <1>4, <2>13, <2>14 DEF Writes
<1> QED
  BY <1>0, <1>3, <1>4 DEF Writes

LEMMA StepsAlone ==
  ASSUME OneComposer, Inv, Inv', AInv, NEW c \in Composers, Steps(c)
  PROVE  AInv'
BY ChoosesAlone, OpensAlone, DiscardsNextAlone, ResumesAlone, BeginsAlone, LoadsAlone, DraftsAlone,
   IsWrittenAlone, IsRefusedAlone, IsUnavailableAlone, RunEndsAlone, FinishesAlone, CreatesAlone,
   FoldsAlone, WritesAlone, Zenon
DEF Steps

LEMMA CrashesAlone ==
  ASSUME OneComposer, Inv, Inv', AInv, Crashes
  PROVE  AInv'
<1>1. PICK c : Composers = {c}
  BY DEF OneComposer
<1>2. request' = [request EXCEPT ![c] = Idle]
  BY <1>1 DEF Crashes, Inv, Requests
<1>3. /\ UNCHANGED <<files, written, skipped, failures>> /\ crashes' = crashes + 1
  BY DEF Crashes
<1>4. skipped <= skipped' /\ crashes + failures < crashes' + failures'
  BY <1>3, Numbers
<1>5. crashes + failures <= crashes' + failures'
  BY <1>3, Numbers
<1> QED
  BY <1>1, <1>2, <1>3, <1>4, <1>5, IdleAlone

LEMMA InitAlone == Init => AInv
<1> SUFFICES ASSUME Init PROVE AInv
  OBVIOUS
<1>1. journals = <<>> /\ papers = <<>> /\ request = [c \in Composers |-> Idle]
  BY DEF Init
<1>2. Len(journals) = 0
  BY <1>1
<1>3. Papers(journals, papers, skipped)
  BY <1>1, <1>2 DEF Papers
<1>4. ASSUME NEW c \in Composers PROVE Alone(request[c])
  <2>1. request[c].at = "idle"
    BY <1>1 DEF Idle
  <2> QED
    BY <1>2, <2>1 DEF Alone, Works, Appends, Aside, Fresh, Paid, Comes, Appending, Drafting
<1> QED
  BY <1>2, <1>3, <1>4 DEF AInv

LEMMA NextAlone ==
  ASSUME OneComposer
  PROVE  Inv /\ Inv' /\ AInv /\ [Next]_vars => AInv'
<1> SUFFICES ASSUME Inv, Inv', AInv, [Next]_vars PROVE AInv'
  OBVIOUS
<1>1. ASSUME NEW c \in Composers, Asks(c) \/ Steps(c) PROVE AInv'
  BY <1>1, AsksAlone, StepsAlone
<1>2. CASE Changes
  BY <1>2 DEF Changes, files, AInv, Alone
<1>3. CASE Crashes
  BY <1>3, CrashesAlone
<1>4. CASE UNCHANGED vars
  BY <1>4 DEF vars, files, AInv, Alone
<1> QED
  BY <1>1, <1>2, <1>3, <1>4 DEF Next

\* With one composer of a course (provider.ts runs one request of a course at a time), a request
\* drafts on its journal as the file has it, and each event it appends is one the journal takes.
THEOREM AloneInvariance ==
  ASSUME OneComposer
  PROVE  Spec => []AInv
<1>1. Inv /\ Inv' /\ AInv /\ [Next]_vars => AInv'
  BY NextAlone
<1> QED
  BY <1>1, InitAlone, Invariance, PTL DEF Spec

\* A journal is finished into one paper but for those that could not be read then, a completed one
\* has its paper, and while a request drafts the journals open are its own and those its listing
\* could not read (finalizePaperFromJournal, paper-journal.ts:866; openPaperJournal, :526).
THEOREM OnePaper ==
  ASSUME OneComposer
  PROVE  Spec => []OnePaperPerJournal
<1>1. Inv /\ AInv => OnePaperPerJournal
  <2> SUFFICES ASSUME Inv, AInv PROVE OnePaperPerJournal
    OBVIOUS
  <2>1. DOMAIN journals = 1..Len(journals) /\ \A j : PapersOf(j) = Copies(papers, j)
    BY DEF Inv, Files, Journals, PapersOf, Copies
  <2>2. \A j \in DOMAIN journals : Cardinality(PapersOf(j)) <= 1 + skipped
    BY <2>1 DEF AInv, Papers
  <2>3. \A j \in DOMAIN journals : journals[j].status = "completed" => PapersOf(j) # {}
    BY <2>1 DEF Inv, Files, Journals, HasPaper, PapersOf
  <2>4. ASSUME NEW c \in Composers, request[c].at \in Drafting, NEW j \in OpenJournals
        PROVE  j = request[c].journal \/ j \in request[c].missed
    <3>1. OpenIn(journals) = OpenJournals
      BY <2>1 DEF OpenIn, OpenJournals, IsOpen
    <3>2. Comes(request[c]) = request[c].at
      BY <2>4 DEF Comes, Appending, Drafting
    <3>3. OpenIn(journals) \subseteq request[c].missed \cup {request[c].journal}
      BY <2>4, <3>2, KnownAlone DEF Aside
    <3> QED
      BY <3>1, <3>3
  <2> QED
    BY <2>2, <2>3, <2>4 DEF OnePaperPerJournal
<1> QED
  BY <1>1, Invariance, AloneInvariance, PTL

\* A paper has no holes, none of its parts is without those it is built on, all of it is composed
\* from what she had at the request that finished it, and no task of it mixes prompt versions
\* (paper-journal.ts:29, 48, 727-729).
THEOREM PaperHolds ==
  ASSUME OneComposer
  PROVE  Spec => []PaperIsWhole
<1>1. AInv => PaperIsWhole
  BY DEF AInv, Papers, Whole, PaperIsWhole
<1> QED
  BY <1>1, AloneInvariance, PTL

\* What the service wrote for a journal is in it, but for one item of each crash or failure, the one
\* in hand and the one that closed it: a resume never asks again for what is recorded
\* (paper-journal.ts:722-726).
THEOREM NoneWrittenTwice ==
  ASSUME OneComposer
  PROVE  Spec => []WrittenOnce
<1>1. Inv /\ AInv => WrittenOnce
  <2> SUFFICES ASSUME Inv, AInv, NEW j \in 1..Len(journals)
               PROVE  written[j] <= LandedIn(journals[j]) + crashes + failures + Cardinality(InHand(j))
                                    + (IF journals[j].why = "authoring-spec-changed" THEN 1 ELSE 0)
    BY DEF Inv, Files, Journals, WrittenOnce
  <2>1. PICK c : Composers = {c}
    BY DEF OneComposer
  <2>2. PICK r : r = request[c]
    OBVIOUS
  <2>3. PICK w : w = (IF journals[j].why = "authoring-spec-changed" THEN 1 ELSE 0) /\ w \in Nat
    OBVIOUS
  <2>4. PICK l \in Nat : l = LandedIn(journals[j]) /\ Shown(journals[j]) = l + w
    <3>1. journals[j] \in Journal
      BY <2>1, Known
    <3>2. LandedIn(journals[j]) = Cardinality(LandedSlots(journals[j]))
      BY DEF LandedIn, LandedSlots
    <3>3. Cardinality(LandedSlots(journals[j])) \in Nat
      BY <3>1, LandedFinite, FS_CardinalityType
    <3> QED
      BY <2>3, <3>2, <3>3 DEF Shown
  <2>5. written[j] <= WillShow(r, journals, j) + (crashes + failures) /\ written[j] \in Nat
    BY <2>1, <2>2, KnownAlone, WrittenIs DEF Paid
  <2>6. /\ crashes \in Nat /\ failures \in Nat
    BY DEF Inv, Counters
  <2>7. \/ WillShow(r, journals, j) = l + w
        \/ WillShow(r, journals, j) = l + w + 1 /\ Appending(r) /\ r.journal = j
    BY <2>1, <2>2, <2>4, WillShowIs
  <2>8. PICK h \in Nat : h = Cardinality(InHand(j)) /\ (Appending(r) /\ r.journal = j => h = 1)
    <3>1. CASE Appending(r) /\ r.journal = j
      <4>1. InHand(j) = {c}
        BY <2>1, <2>2, <3>1 DEF InHand, Appending
      <4> QED
        BY <4>1, FS_Singleton
    <3>2. CASE ~(Appending(r) /\ r.journal = j)
      <4>1. InHand(j) = {}
        BY <2>1, <2>2, <3>2 DEF InHand, Appending
      <4> QED
        BY <3>2, <4>1, FS_EmptySet
    <3> QED
      BY <3>1, <3>2
  <2>9. written[j] <= l + crashes + failures + h + w
    BY <2>3, <2>5, <2>6, <2>7, <2>8
  <2> QED
    BY <2>3, <2>4, <2>8, <2>9
<1> QED
  BY <1>1, Invariance, AloneInvariance, PTL

=============================================================================
