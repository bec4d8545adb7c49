------------------------ MODULE CompositionWrites_proofs ------------------------
(***************************************************************************)
(* Proofs about CompositionWrites, for every set of calls and objects and  *)
(* every bound: its types, and that the journal can be trusted; and, while *)
(* "keep going" overlaps no other call, that no record lands twice, and    *)
(* that those of a session land in the order they were built.              *)
(*                                                                         *)
(* The invariant of the first two: the records there are have each an id   *)
(* of its own, and what a session, a call or reconciliation takes to be in *)
(* the journal or in the log is there.                                     *)
(*                                                                         *)
(* The others rest on `line`: the records of each session object as the    *)
(* call at work on it will leave them.  Each session is the line of one    *)
(* object at most, and none that reconciliation writes; the records of a   *)
(* line are later than those in the log; the log, the journal and what     *)
(* reconciliation has yet to write agree in order.                         *)
(***************************************************************************)
EXTENDS CompositionWrites, SequenceTheorems, WellFoundedInduction, TLAPS

-----------------------------------------------------------------------------
(* The inductive invariant: types, and the journal. *)

JournalStates == {"none", "retrying", "exhausted"}
Working == {"checking", "appending", "marking", "journaling"}

\* Only records of R are taken for journaled.
JournaledOf(R) ==
  {j \in [Ids -> JournalStates] : \A id \in Ids : j[id] # "none" => \E r \in R : r.id = id}

UnwrittenOf(R) ==
  [records : Seq(R), failed : 0..MaxAttempts, journaled : JournaledOf(R)]

SessionOf(R) == [record : R \cup {NoRecord}, unwritten : UnwrittenOf(R)]

CallOf(R) ==
  [at : Working \cup {"idle", "extending"},
   before : Object \cup {NoObject}, base : Object \cup {NoObject},
   written : R \cup {NoRecord}, unwritten : UnwrittenOf(R), next : Nat \ {0}]

\* The records built: no two bear one id.
Built(R, m) ==
  /\ R \subseteq Record
  /\ \A r \in R : r.session <= r.id /\ r.id <= m
  /\ \A r, q \in R : r.id = q.id => r = q

\* A record of u that is taken for journaled is in the journal or in the log.
Trusted(u, lg, op) ==
  \A i \in DOMAIN u.records :
    u.journaled[u.records[i].id] # "none" => Contains(op, u.records[i]) \/ Contains(lg, u.records[i])

CallFits(w, lg, op) ==
  /\ w.at = "idle" => w = Idle
  /\ w.at = "extending" => w.before \in Object /\ w.base = NoObject
  /\ w.at \in Working => w.base \in Object /\ w.unwritten.records # <<>>
  /\ w.at \in Working \ {"journaling"} => w.unwritten.failed < MaxAttempts
  /\ w.at = "marking" => Contains(lg, w.unwritten.records[1])
  /\ Trusted(w.unwritten, lg, op)

\* Types and trust, of the sitting and the calls.
Parts(R, cl, heap, s, marks, lg, op) ==
  /\ s \in Object \cup {NoObject}
  /\ heap \in [Object -> SessionOf(R)]
  /\ cl \in [Calls -> CallOf(R)]
  /\ marks \subseteq Ids
  /\ \A k \in Calls : CallFits(cl[k], lg, op)
  /\ \A o \in Object : Trusted(heap[o].unwritten, lg, op)

\* Types, of the log and the journal; what is marked resolved is in the log.
Files(R, lg, op, marked) ==
  /\ lg \in Seq(R) /\ op \in Seq(R)
  /\ marked \subseteq Ids
  /\ \A id \in marked : \E i \in DOMAIN lg : lg[i].id = id

\* Types, of reconciliation, which marks what is in the log.
Passes(R, p, lg) ==
  /\ p \in [at : {"checking", "appending", "marking"}, todo : Seq(R), held : SUBSET Ids]
  /\ p.at = "marking" /\ p.todo # <<>> => Contains(lg, p.todo[1])

Counters ==
  /\ up \in BOOLEAN
  /\ minted \in 0..MaxRecords
  /\ failures \in Nat /\ refusals \in Nat /\ crashes \in Nat

Of(R) ==
  /\ Built(R, minted) /\ Counters
  /\ Files(R, log, open, resolved)
  /\ Passes(R, pass, log)
  /\ Parts(R, call, session, sitting, stamped, log, open)

JInv == \E R \in SUBSET Record : Of(R)

-----------------------------------------------------------------------------
(* The inductive invariant: what lands, and in which order. *)

Held(w) == [record |-> w.written, unwritten |-> w.unwritten]

\* The records of object o, as the call at work on it will leave them; those of the object a
\* call grows go with the grown one.
LineOf(cl, heap, o) ==
  IF \E k \in Calls : cl[k].at \in Working /\ cl[k].base = o
  THEN Held(cl[CHOOSE k \in Calls : cl[k].at \in Working /\ cl[k].base = o])
  ELSE IF \E k \in Calls : cl[k].at \in Working /\ cl[k].before = o
       THEN Unrecorded ELSE heap[o]

line == [o \in Object |-> LineOf(call, session, o)]

\* A call that grows a sitting is alone; no two work on one object; what is not referenced has
\* no records.
Shape(s, heap, cl) ==
  /\ \A k, j \in Calls : cl[k].before \notin {NoObject, cl[k].base} /\ j # k => cl[j] = Idle
  /\ \A k, j \in Calls :
       cl[k].at \in Working /\ cl[j].at \in Working /\ cl[k].base = cl[j].base => k = j
  /\ \A o \in Object : o \notin Referenced(s, cl) => heap[o] = Unrecorded

\* The session of a line; 0 if it has no record.
Number(x) == Latest(x).session

\* No session has two lines, or a line and a write reconciliation has yet to make.
Apart(L, todo) ==
  /\ \A o, p \in Object : o # p /\ Number(L[o]) # 0 => Number(L[o]) # Number(L[p])
  /\ \A o \in Object, n \in DOMAIN todo : todo[n].session # Number(L[o])

\* The records of x are of one session, in the order they were built.
Chain(x) ==
  LET rs == x.unwritten.records IN
  /\ \A i, k \in DOMAIN rs : i < k => rs[i].id < rs[k].id
  /\ \A i \in DOMAIN rs : rs[i].session = Number(x)
  /\ x.record # NoRecord =>
       x.record.session = Number(x) /\ \A i \in DOMAIN rs : x.record.id < rs[i].id
  /\ x.record = NoRecord /\ rs # <<>> => rs[1].id = rs[1].session

\* Of the records x has still to write only the first may be in the log; none is marked, and
\* those taken for journaled are those in the journal.
Unlanded(x, lg, op, marked) ==
  LET u == x.unwritten IN
  /\ x.record # NoRecord => Contains(lg, x.record)
  /\ \A i \in DOMAIN u.records :
       /\ i > 1 => ~Contains(lg, u.records[i])
       /\ u.records[i].id \notin marked
       /\ u.failed = 0 => u.journaled[u.records[i].id] = "none"
       /\ u.journaled[u.records[i].id] # "none" <=> Contains(op, u.records[i])

\* Before an attempt has failed not even the first is in the log.
Untried(x, lg) ==
  x.unwritten.failed = 0 =>
    \A i \in DOMAIN x.unwritten.records : ~Contains(lg, x.unwritten.records[i])

\* With every journal line taken: no record of the session in the log is later than those x has
\* still to write, and those in the journal and not in the log are among them.
InLine(x, lg, op) ==
  LET u == x.unwritten IN
  /\ \A i, k \in DOMAIN u.records :
       i < k /\ u.journaled[u.records[k].id] # "none" => u.journaled[u.records[i].id] # "none"
  /\ \A i \in DOMAIN u.records, n \in DOMAIN lg :
       lg[n].session = Number(x) => lg[n].id <= u.records[i].id
  /\ \A n \in DOMAIN op :
       op[n].session = Number(x) /\ ~Contains(lg, op[n]) => Contains(u.records, op[n])

Good(x, lg, op, marked, lost) ==
  Chain(x) /\ Unlanded(x, lg, op, marked) /\ (lost = 0 => InLine(x, lg, op))

\* A call about to append has seen its record is not there; one that journals has come so far.
Steady(w, lg, lost) ==
  /\ w.at = "appending" => ~Contains(lg, w.unwritten.records[1])
  /\ w.at \in Working \ {"journaling"} /\ w.unwritten.failed = 0 => w.at = "appending"
  /\ w.at = "journaling" => w.unwritten.failed > 0
  /\ w.at = "journaling" /\ lost = 0 =>
       \A i \in DOMAIN w.unwritten.records :
         i < w.next => w.unwritten.journaled[w.unwritten.records[i].id] # "none"

Once(lg) == \A i, k \in DOMAIN lg : lg[i] = lg[k] => i = k

LogInOrder(lg) ==
  \A k \in DOMAIN lg :
    /\ \A i \in DOMAIN lg : lg[i].session = lg[k].session /\ lg[i].id < lg[k].id => i < k
    /\ \E i \in DOMAIN lg : lg[i].id = lg[k].session

\* The journal is in order; what is in it and not in the log is later than what is in the log,
\* and not without the first record of its session.
JournalInOrder(lg, op) ==
  /\ \A i, k \in DOMAIN op : i < k /\ op[i].session = op[k].session => op[i].id < op[k].id
  /\ \A n \in DOMAIN op : ~Contains(lg, op[n]) =>
       /\ \A i \in DOMAIN lg : lg[i].session = op[n].session => lg[i].id < op[n].id
       /\ \/ \E i \in DOMAIN lg : lg[i].id = op[n].session
          \/ \E i \in DOMAIN op : op[i].id = op[n].session /\ op[i].session = op[n].session

\* What reconciliation has yet to write is in the journal, in order, and of a session it does
\* not hold back it has all.
TodoInOrder(p, lg, op) ==
  /\ \A n \in DOMAIN p.todo : Contains(op, p.todo[n])
  /\ \A i, k \in DOMAIN p.todo :
       i < k /\ p.todo[i].session = p.todo[k].session => p.todo[i].id < p.todo[k].id
  /\ \A n \in DOMAIN p.todo, k \in DOMAIN op :
       /\ op[k].session = p.todo[n].session /\ p.todo[n].session \notin p.held
       /\ ~Contains(lg, op[k])
       => Contains(p.todo, op[k])

\* It has seen that what it is about to append is not there.
PassSteady(p, lg) ==
  p.todo # <<>> /\ p.at # "checking" =>
    p.todo[1].session \notin p.held /\ (p.at = "appending" => ~Contains(lg, p.todo[1]))

Lines ==
  /\ Shape(sitting, session, call)
  /\ ~up => \A o \in Object : line[o] = Unrecorded
  /\ Apart(line, pass.todo)
  /\ \A o \in Object : Good(line[o], log, open, resolved, refusals) /\ Untried(line[o], log)
  /\ \A k \in Calls : Steady(call[k], log, refusals)

Orders ==
  /\ PassSteady(pass, log)
  /\ Once(log)
  /\ refusals = 0 =>
       LogInOrder(log) /\ JournalInOrder(log, open) /\ TodoInOrder(pass, log, open)

IInv == JInv /\ Lines /\ Orders

-----------------------------------------------------------------------------
(* Sequences. *)

LEMMA LessIsWellFounded ==
  \E R : /\ IsWellFoundedOn(R, Nat)
         /\ \A k \in Nat, n \in Nat : <<k, n>> \notin R => ~(k < n)
<1>1. IsWellFoundedOn(OpToRel(<, Nat), Nat)
  BY NatLessThanWellFounded
<1>2. \A k \in Nat, n \in Nat : <<k, n>> \notin OpToRel(<, Nat) => ~(k < n)
  BY DEF OpToRel
<1> QED
  BY <1>1, <1>2, Zenon

LEMMA LeastExists ==
  ASSUME NEW S \in SUBSET Nat, S # {}
  PROVE  \E n \in S : \A k \in S : n <= k
<1>1. PICK R : /\ IsWellFoundedOn(R, Nat)
               /\ \A k \in Nat, n \in Nat : <<k, n>> \notin R => ~(k < n)
  BY LessIsWellFounded
<1>2. \E n \in S : \A k \in S : ~(<<k, n>> \in R)
  BY <1>1, WFMin, Zenon
<1>3. PICK n \in S : \A k \in S : ~(<<k, n>> \in R)
  BY <1>2
<1>4. \A k \in S : n <= k
  <2> TAKE k \in S
  <2>1. k \in Nat /\ n \in Nat
    OBVIOUS
  <2>2. ~(k < n)
    BY <1>1, <1>3, <2>1
  <2> QED
    BY <2>1, <2>2
<1> QED
  BY <1>4

\* What is appended comes last, and the rest stays where it was.
LEMMA Appended ==
  ASSUME NEW R, NEW s \in Seq(R), NEW r \in R
  PROVE  /\ Append(s, r) \in Seq(R)
         /\ DOMAIN Append(s, r) = 1..(Len(s) + 1) /\ DOMAIN s = 1..Len(s) /\ Len(s) \in Nat
         /\ \A i \in DOMAIN s : Append(s, r)[i] = s[i]
         /\ Append(s, r)[Len(s) + 1] = r
         /\ \A q : Contains(Append(s, r), q) <=> Contains(s, q) \/ q = r
<1>1. /\ Append(s, r) \in Seq(R) /\ Len(Append(s, r)) = Len(s) + 1
      /\ DOMAIN Append(s, r) = 1..(Len(s) + 1) /\ DOMAIN s = 1..Len(s) /\ Len(s) \in Nat
      /\ \A i \in DOMAIN s : Append(s, r)[i] = s[i]
      /\ Append(s, r)[Len(s) + 1] = r
  OBVIOUS
<1>2. ASSUME NEW q
      PROVE  Contains(Append(s, r), q) <=> Contains(s, q) \/ q = r
  <2>1. ASSUME Contains(Append(s, r), q) PROVE Contains(s, q) \/ q = r
    <3>1. PICK i \in 1..(Len(s) + 1) : Append(s, r)[i] = q
      BY <1>1, <2>1 DEF Contains
    <3>2. i \in 1..Len(s) \/ i = Len(s) + 1
      BY <1>1, <3>1
    <3> QED
      BY <1>1, <3>1, <3>2 DEF Contains
  <2>2. ASSUME Contains(s, q) PROVE Contains(Append(s, r), q)
    <3>1. PICK i \in 1..Len(s) : s[i] = q
      BY <2>2 DEF Contains
    <3>2. i \in 1..(Len(s) + 1) /\ Append(s, r)[i] = q
      BY <1>1, <3>1
    <3> QED
      BY <1>1, <3>2 DEF Contains
  <2>3. ASSUME q = r PROVE Contains(Append(s, r), q)
    <3>1. Len(s) + 1 \in 1..(Len(s) + 1)
      BY <1>1
    <3> QED
      BY <1>1, <2>3, <3>1 DEF Contains
  <2> QED
    BY <2>1, <2>2, <2>3
<1> QED
  BY <1>1, <1>2

\* The tail of a sequence is what follows its head.
LEMMA Tailed ==
  ASSUME NEW R, NEW s \in Seq(R), s # <<>>
  PROVE  /\ Tail(s) \in Seq(R) /\ s[1] \in R /\ Head(s) = s[1] /\ 1 \in DOMAIN s
         /\ Len(s) \in Nat \ {0} /\ Len(Tail(s)) = Len(s) - 1
         /\ DOMAIN Tail(s) = 1..(Len(s) - 1) /\ DOMAIN s = 1..Len(s)
         /\ \A i \in DOMAIN Tail(s) : i + 1 \in DOMAIN s /\ Tail(s)[i] = s[i + 1]
         /\ \A q : Contains(s, q) <=> q = s[1] \/ Contains(Tail(s), q)
<1>1. /\ Tail(s) \in Seq(R) /\ s[1] \in R /\ Head(s) = s[1] /\ 1 \in DOMAIN s
      /\ Len(s) \in Nat \ {0} /\ Len(Tail(s)) = Len(s) - 1
      /\ DOMAIN Tail(s) = 1..(Len(s) - 1) /\ DOMAIN s = 1..Len(s)
      /\ \A i \in DOMAIN Tail(s) : i + 1 \in DOMAIN s /\ Tail(s)[i] = s[i + 1]
  BY HeadTailProperties
<1>2. ASSUME NEW q
      PROVE  Contains(s, q) <=> q = s[1] \/ Contains(Tail(s), q)
  <2>1. ASSUME Contains(s, q) PROVE q = s[1] \/ Contains(Tail(s), q)
    <3>1. PICK i \in 1..Len(s) : s[i] = q
      BY <2>1 DEF Contains
    <3>2. CASE i # 1
      <4>1. i - 1 \in DOMAIN Tail(s) /\ (i - 1) + 1 = i
        BY <1>1, <3>1, <3>2
      <4>2. Tail(s)[i - 1] = q
        BY <1>1, <3>1, <4>1
      <4> QED
        BY <1>1, <4>1, <4>2 DEF Contains
    <3> QED
      BY <3>1, <3>2
  <2>2. ASSUME q = s[1] PROVE Contains(s, q)
    BY <1>1, <2>2 DEF Contains
  <2>3. ASSUME Contains(Tail(s), q) PROVE Contains(s, q)
    <3>1. PICK i \in DOMAIN Tail(s) : Tail(s)[i] = q
      BY <1>1, <2>3 DEF Contains
    <3>2. i + 1 \in 1..Len(s) /\ s[i + 1] = q
      BY <1>1, <3>1
    <3> QED
      BY <3>2 DEF Contains
  <2> QED
    BY <2>1, <2>2, <2>3
<1> QED
  BY <1>1, <1>2

LEMMA WithoutAt ==
  ASSUME NEW R, NEW s \in Seq(R), NEW p \in 1..Len(s)
  PROVE  /\ RemoveAt(s, p) \in Seq(R) /\ Len(RemoveAt(s, p)) = Len(s) - 1
         /\ \A i \in 1..(p - 1) : RemoveAt(s, p)[i] = s[i]
         /\ \A i \in p..(Len(s) - 1) : RemoveAt(s, p)[i] = s[i + 1]
<1>1. Len(s) \in Nat /\ \A i \in 1..Len(s) : s[i] \in R
  OBVIOUS
<1>2. /\ SubSeq(s, 1, p - 1) \in Seq(R)
      /\ Len(SubSeq(s, 1, p - 1)) = p - 1
      /\ \A i \in 1..(p - 1) : SubSeq(s, 1, p - 1)[i] = s[i]
  BY <1>1
<1>3. /\ SubSeq(s, p + 1, Len(s)) \in Seq(R)
      /\ Len(SubSeq(s, p + 1, Len(s))) = Len(s) - p
      /\ \A i \in 1..(Len(s) - p) : SubSeq(s, p + 1, Len(s))[i] = s[p + i]
  BY <1>1
<1> DEFINE a == SubSeq(s, 1, p - 1)
           b == SubSeq(s, p + 1, Len(s))
<1>4. RemoveAt(s, p) = a \o b
  BY DEF RemoveAt
<1>5. a \in Seq(R) /\ Len(a) = p - 1 /\ \A i \in 1..(p - 1) : a[i] = s[i]
  BY <1>2
<1>6. b \in Seq(R) /\ Len(b) = Len(s) - p /\ \A i \in 1..(Len(s) - p) : b[i] = s[p + i]
  BY <1>3
<1> HIDE DEF a, b
<1>7. /\ a \o b \in Seq(R) /\ Len(a \o b) = Len(s) - 1
      /\ \A i \in 1..(p - 1) : (a \o b)[i] = s[i]
  BY <1>1, <1>5, <1>6
<1>8. ASSUME NEW i \in p..(Len(s) - 1)
      PROVE  (a \o b)[i] = s[i + 1]
  <2>1. i - (p - 1) \in 1..(Len(s) - p) /\ p + (i - (p - 1)) = i + 1
    BY <1>1
  <2>2. (a \o b)[i] = b[i - (p - 1)]
    BY <1>1, <1>5, <1>6, <2>1
  <2> QED
    BY <1>6, <2>1, <2>2
<1> QED
  BY <1>4, <1>7, <1>8

\* What is removed is one element, once; the others stay in their order.
LEMMA Removed ==
  ASSUME NEW R, NEW s \in Seq(R), NEW r
  PROVE  /\ RemoveFirst(s, r) \in Seq(R)
         /\ DOMAIN RemoveFirst(s, r) \subseteq Nat
         /\ \A i \in DOMAIN RemoveFirst(s, r) :
              \E m \in DOMAIN s : m >= i /\ m <= i + 1 /\ s[m] = RemoveFirst(s, r)[i]
         /\ \A i, k \in DOMAIN RemoveFirst(s, r) : i < k =>
              \E m, n \in DOMAIN s :
                m < n /\ s[m] = RemoveFirst(s, r)[i] /\ s[n] = RemoveFirst(s, r)[k]
         /\ \A q : q # r => (Contains(RemoveFirst(s, r), q) <=> Contains(s, q))
<1> DEFINE t == RemoveFirst(s, r)
           I == {i \in 1..Len(s) : s[i] = r}
<1>1. CASE I = {}
  <2>1. t = s
    BY <1>1 DEF RemoveFirst
  <2>2. DOMAIN s \subseteq Nat
    OBVIOUS
  <2> QED
    BY <2>1, <2>2
<1>2. CASE I # {}
  <2>0. I \in SUBSET Nat
    OBVIOUS
  <2>1. \E n \in I : \A k \in I : n <= k
    <3> HIDE DEF I
    <3> QED
      BY <1>2, <2>0, LeastExists, Zenon
  <2>2. PICK p \in I : p = Min(I)
    BY <2>1 DEF Min
  <2>3. t = RemoveAt(s, p)
    BY <1>2, <2>2 DEF RemoveFirst, SelectInSeq
  <2>4. p \in 1..Len(s) /\ s[p] = r /\ Len(s) \in Nat /\ DOMAIN s = 1..Len(s)
    BY <2>2
  <2>8. /\ t \in Seq(R) /\ Len(t) = Len(s) - 1 /\ DOMAIN t = 1..(Len(s) - 1)
        /\ \A i \in 1..(p - 1) : t[i] = s[i]
        /\ \A i \in p..(Len(s) - 1) : t[i] = s[i + 1]
    <3> HIDE DEF t
    <3>1. /\ t \in Seq(R) /\ Len(t) = Len(s) - 1
          /\ \A i \in 1..(p - 1) : t[i] = s[i]
          /\ \A i \in p..(Len(s) - 1) : t[i] = s[i + 1]
      BY <2>3, <2>4, WithoutAt
    <3> QED
      BY <2>4, <3>1
  <2> HIDE DEF t
  <2> DEFINE At(i) == IF i < p THEN i ELSE i + 1
  <2>9. \A i \in DOMAIN t : At(i) \in DOMAIN s /\ s[At(i)] = t[i] /\ At(i) >= i /\ At(i) <= i + 1
    BY <2>4, <2>8
  <2>10. \A i, k \in DOMAIN t : i < k => At(i) < At(k)
    BY <2>4, <2>8
  <2>11. ASSUME NEW q, q # r
         PROVE  Contains(t, q) <=> Contains(s, q)
    <3>1. ASSUME Contains(t, q) PROVE Contains(s, q)
      BY <2>4, <2>8, <2>9, <3>1 DEF Contains
    <3>2. ASSUME Contains(s, q) PROVE Contains(t, q)
      <4>1. PICK i \in 1..Len(s) : s[i] = q
        BY <3>2 DEF Contains
      <4>2. i # p
        BY <2>4, <2>11, <4>1
      <4>3. CASE i < p
        BY <2>4, <2>8, <4>1, <4>3 DEF Contains
      <4>4. CASE i > p
        <5>1. i - 1 \in p..(Len(s) - 1) /\ (i - 1) + 1 = i
          BY <2>4, <4>1, <4>4
        <5>2. t[i - 1] = q /\ i - 1 \in 1..Len(t)
          BY <2>4, <2>8, <4>1, <5>1
        <5> QED
          BY <5>2 DEF Contains
      <4> QED
        BY <2>4, <4>1, <4>2, <4>3, <4>4
    <3> QED
      BY <3>1, <3>2
  <2>12. DOMAIN t \subseteq Nat
    BY <2>8
  <2>13. \A i \in DOMAIN t : \E m \in DOMAIN s : m >= i /\ m <= i + 1 /\ s[m] = t[i]
    BY <2>9
  <2>14. \A i, k \in DOMAIN t : i < k => \E m, n \in DOMAIN s : m < n /\ s[m] = t[i] /\ s[n] = t[k]
    BY <2>9, <2>10
  <2> QED
    BY <2>8, <2>11, <2>12, <2>13, <2>14 DEF t
<1> QED
  BY <1>1, <1>2

-----------------------------------------------------------------------------
(* Types. *)

LEMMA SeqGrows ==
  ASSUME NEW R, NEW Q, R \subseteq Q
  PROVE  Seq(R) \subseteq Seq(Q)
<1>1. SUFFICES ASSUME NEW s \in Seq(R) PROVE s \in Seq(Q)
  OBVIOUS
<1>2. Len(s) \in Nat /\ \A i \in 1..Len(s) : s[i] \in Q
  OBVIOUS
<1> QED
  BY <1>2

LEMMA TypesGrow ==
  ASSUME NEW R, NEW Q, R \subseteq Q
  PROVE  /\ UnwrittenOf(R) \subseteq UnwrittenOf(Q)
         /\ SessionOf(R) \subseteq SessionOf(Q)
         /\ CallOf(R) \subseteq CallOf(Q)
<1>1. UnwrittenOf(R) \subseteq UnwrittenOf(Q)
  <2>1. JournaledOf(R) \subseteq JournaledOf(Q)
    BY DEF JournaledOf
  <2> QED
    BY <2>1, SeqGrows DEF UnwrittenOf
<1>2. SessionOf(R) \subseteq SessionOf(Q)
  BY <1>1 DEF SessionOf
<1>3. CallOf(R) \subseteq CallOf(Q)
  <2>1. R \cup {NoRecord} \subseteq Q \cup {NoRecord}
    OBVIOUS
  <2> QED
    BY <1>1, <2>1 DEF CallOf
<1> QED
  BY <1>1, <1>2, <1>3

LEMMA Constants ==
  /\ NoObject \notin Object /\ MaxAttempts \in Nat \ {0} /\ MaxRecords \in Nat
  /\ MaxFailures \in Nat /\ MaxRefusals \in Nat /\ MaxCrashes \in Nat
BY Assumption DEF Assumption

LEMMA Empties ==
  ASSUME NEW R
  PROVE  /\ Nothing \in UnwrittenOf(R) /\ Nothing.records = <<>> /\ Nothing.failed = 0
         /\ Nothing.journaled = Unjournaled
         /\ Unrecorded \in SessionOf(R)
         /\ Unrecorded.record = NoRecord /\ Unrecorded.unwritten = Nothing
         /\ Idle \in CallOf(R) /\ Idle.at = "idle" /\ Idle.before = NoObject
         /\ Idle.base = NoObject /\ Idle.unwritten = Nothing /\ Idle.written = NoRecord
<1>1. /\ Nothing \in UnwrittenOf(R) /\ Nothing.records = <<>> /\ Nothing.failed = 0
      /\ Nothing.journaled = Unjournaled
  <2>1. Unjournaled \in JournaledOf(R)
    BY DEF Unjournaled, JournalStates, JournaledOf
  <2>2. <<>> \in Seq(R) /\ 0 \in 0..MaxAttempts
    BY Constants
  <2> QED
    BY <2>1, <2>2 DEF Nothing, UnwrittenOf
<1>2. /\ Unrecorded \in SessionOf(R)
      /\ Unrecorded.record = NoRecord /\ Unrecorded.unwritten = Nothing
  BY <1>1 DEF Unrecorded, SessionOf
<1>3. /\ Idle \in CallOf(R) /\ Idle.at = "idle" /\ Idle.before = NoObject
      /\ Idle.base = NoObject /\ Idle.unwritten = Nothing /\ Idle.written = NoRecord
  BY <1>1 DEF Idle, CallOf, Working
<1> QED
  BY <1>1, <1>2, <1>3

\* The fields of unwritten records, of a session and of a call.
LEMMA Fields ==
  ASSUME NEW R
  PROVE  /\ \A u \in UnwrittenOf(R) :
              /\ u.records \in Seq(R) /\ u.failed \in 0..MaxAttempts
              /\ u.journaled \in JournaledOf(R) /\ u.journaled \in [Ids -> JournalStates]
         /\ \A s \in SessionOf(R) : s.record \in R \cup {NoRecord} /\ s.unwritten \in UnwrittenOf(R)
         /\ \A w \in CallOf(R) :
              /\ w.at \in Working \cup {"idle", "extending"}
              /\ w.before \in Object \cup {NoObject} /\ w.base \in Object \cup {NoObject}
              /\ w.written \in R \cup {NoRecord} /\ w.unwritten \in UnwrittenOf(R) /\ w.next \in Nat \ {0}
<1>1. \A j \in JournaledOf(R) : j \in [Ids -> JournalStates]
  BY DEF JournaledOf
<1> QED
  BY <1>1 DEF UnwrittenOf, SessionOf, CallOf

LEMMA RecordOfR ==
  ASSUME NEW R \in SUBSET Record
  PROVE  /\ NoRecord \notin R /\ NoRecord.id = 0 /\ NoRecord.session = 0
         /\ \A r \in R : r.id \in Ids /\ r.session \in Ids /\ r = [id |-> r.id, session |-> r.session]
<1>1. Ids \subseteq Nat \ {0}
  BY Constants DEF Ids
<1>2. NoRecord.id = 0 /\ NoRecord.session = 0
  BY DEF NoRecord
<1>3. \A r \in R : r.id \in Ids /\ r.session \in Ids /\ r = [id |-> r.id, session |-> r.session]
  BY DEF Record
<1> QED
  BY <1>1, <1>2, <1>3

LEMMA NaturalIds ==
  ASSUME NEW R \in SUBSET Record
  PROVE  \A r \in R : r.id \in Nat /\ r.session \in Nat /\ r.id # 0 /\ r.session # 0
<1>1. Ids \subseteq Nat \ {0}
  BY Constants DEF Ids
<1> QED
  BY <1>1, RecordOfR

LEMMA QueuedTypes ==
  ASSUME NEW R, NEW u \in UnwrittenOf(R), NEW r \in R
  PROVE  /\ Queue(u, r) \in UnwrittenOf(R) /\ Queue(u, r).records = Append(u.records, r)
         /\ Queue(u, r).failed = u.failed /\ Queue(u, r).journaled = u.journaled
         /\ Queue(u, r).records # <<>>
<1>1. Queue(u, r) = [records |-> Append(u.records, r), failed |-> u.failed, journaled |-> u.journaled]
  BY DEF Queue, UnwrittenOf
<1>2. Append(u.records, r) \in Seq(R) /\ Append(u.records, r) # <<>>
  BY DEF UnwrittenOf
<1> QED
  BY <1>1, <1>2 DEF UnwrittenOf

LEMMA LatestTypes ==
  ASSUME NEW R \in SUBSET Record, NEW s \in SessionOf(R)
  PROVE  /\ Latest(s) \in R \cup {NoRecord}
         /\ s.unwritten.records # <<>> =>
              /\ Latest(s) = s.unwritten.records[Len(s.unwritten.records)]
              /\ Latest(s) \in R
         /\ s.unwritten.records = <<>> => Latest(s) = s.record
         /\ IdentityOf(s) \subseteq Ids
<1>1. s.unwritten.records \in Seq(R) /\ s.record \in R \cup {NoRecord}
  BY Fields
<1>2. s.unwritten.records # <<>> =>
        /\ Latest(s) = s.unwritten.records[Len(s.unwritten.records)]
        /\ Latest(s) \in R
  BY <1>1 DEF Latest, Last
<1>3. s.unwritten.records = <<>> => Latest(s) = s.record
  BY DEF Latest
<1>4. Latest(s) \in R \cup {NoRecord}
  BY <1>1, <1>2, <1>3
<1>5. IdentityOf(s) \subseteq Ids
  BY <1>4, RecordOfR DEF IdentityOf
<1> QED
  BY <1>2, <1>3, <1>4, <1>5

-----------------------------------------------------------------------------
(* What the calls and the sitting trust is there. *)

\* Nothing leaves the log, and the journal only what is in the log.
Keeps(lg, op, lg2, op2) ==
  /\ \A r : Contains(lg, r) => Contains(lg2, r)
  /\ \A r : Contains(op, r) => Contains(op2, r) \/ Contains(lg2, r)

LEMMA TrustCarries ==
  ASSUME NEW lg, NEW op, NEW lg2, NEW op2, Keeps(lg, op, lg2, op2),
         NEW u, Trusted(u, lg, op)
  PROVE  Trusted(u, lg2, op2)
BY DEF Keeps, Trusted

LEMMA FitsCarries ==
  ASSUME NEW lg, NEW op, NEW lg2, NEW op2, Keeps(lg, op, lg2, op2),
         NEW w, CallFits(w, lg, op)
  PROVE  CallFits(w, lg2, op2)
<1>1. Trusted(w.unwritten, lg2, op2)
  BY TrustCarries DEF CallFits
<1>2. Contains(lg, w.unwritten.records[1]) => Contains(lg2, w.unwritten.records[1])
  BY DEF Keeps
<1> QED
  BY <1>1, <1>2 DEF CallFits

LEMMA PartsCarry ==
  ASSUME NEW R, NEW Q, R \subseteq Q, NEW cl, NEW heap, NEW s, NEW marks,
         NEW lg, NEW op, NEW lg2, NEW op2, Keeps(lg, op, lg2, op2),
         Parts(R, cl, heap, s, marks, lg, op)
  PROVE  Parts(Q, cl, heap, s, marks, lg2, op2)
<1>1. heap \in [Object -> SessionOf(Q)] /\ cl \in [Calls -> CallOf(Q)]
  BY TypesGrow DEF Parts
<1>2. \A k \in Calls : CallFits(cl[k], lg2, op2)
  BY FitsCarries DEF Parts
<1>3. \A o \in Object : Trusted(heap[o].unwritten, lg2, op2)
  BY TrustCarries DEF Parts
<1> QED
  BY <1>1, <1>2, <1>3 DEF Parts

LEMMA NothingTrusted ==
  ASSUME NEW lg, NEW op
  PROVE  /\ Trusted(Nothing, lg, op) /\ Trusted(Unrecorded.unwritten, lg, op)
         /\ CallFits(Idle, lg, op)
<1>1. Nothing.records = <<>> /\ Unrecorded.unwritten = Nothing /\ Idle.at = "idle" /\ Idle.unwritten = Nothing
  BY Empties
<1>2. Trusted(Nothing, lg, op)
  BY <1>1 DEF Trusted
<1> QED
  BY <1>1, <1>2 DEF CallFits, Working

LEMMA CollectedParts ==
  ASSUME NEW R, NEW lg, NEW op,
         NEW heap \in [Object -> SessionOf(R)], \A o \in Object : Trusted(heap[o].unwritten, lg, op)
  PROVE  /\ Collected(heap) \in [Object -> SessionOf(R)]
         /\ \A o \in Object : Trusted(Collected(heap)[o].unwritten, lg, op)
         /\ \A o \in Object :
              Collected(heap)[o] = IF o \in Referenced(sitting', call') THEN heap[o] ELSE Unrecorded
<1>1. \A o \in Object :
        Collected(heap)[o] = IF o \in Referenced(sitting', call') THEN heap[o] ELSE Unrecorded
  BY DEF Collected
<1>2. Collected(heap) \in [Object -> SessionOf(R)]
  BY Empties DEF Collected
<1>3. \A o \in Object : Trusted(Collected(heap)[o].unwritten, lg, op)
  BY <1>1, NothingTrusted
<1> QED
  BY <1>1, <1>2, <1>3

\* A call that is told its session.
LEMMA ReturnParts ==
  ASSUME NEW R \in SUBSET Record, NEW lg, NEW op,
         NEW c \in Calls, NEW o \in Object, NEW s \in SessionOf(R), Trusted(s.unwritten, lg, op),
         Parts(R, call, session, sitting, stamped, lg, op),
         Return(c, o, s)
  PROVE  Parts(R, call', session', sitting', stamped', lg, op)
<1>1. /\ call \in [Calls -> CallOf(R)] /\ session \in [Object -> SessionOf(R)]
      /\ \A k \in Calls : CallFits(call[k], lg, op)
      /\ \A p \in Object : Trusted(session[p].unwritten, lg, op)
      /\ sitting \in Object \cup {NoObject} /\ stamped \subseteq Ids
  BY DEF Parts
<1>2. /\ call' \in [Calls -> CallOf(R)]
      /\ \A k \in Calls : CallFits(call'[k], lg, op)
  <2>1. call' = [call EXCEPT ![c] = Idle]
    BY DEF Return
  <2> QED
    BY <1>1, <2>1, Empties, NothingTrusted
<1>3. sitting' \in Object \cup {NoObject} /\ stamped' \subseteq Ids
  BY <1>1, LatestTypes DEF Return
<1> DEFINE heap == [session EXCEPT ![o] = s]
<1>4. heap \in [Object -> SessionOf(R)] /\ \A p \in Object : Trusted(heap[p].unwritten, lg, op)
  BY <1>1
<1>5. session' = Collected(heap)
  BY DEF Return
<1>6. /\ session' \in [Object -> SessionOf(R)]
      /\ \A p \in Object : Trusted(session'[p].unwritten, lg, op)
  <2> HIDE DEF heap
  <2> QED
    BY <1>4, <1>5, CollectedParts
<1> QED
  BY <1>2, <1>3, <1>6 DEF Parts

\* A call that goes on to write u, on top of s.
Flushed(before, base, s, u) ==
  [Idle EXCEPT !.at = IF u.failed > 0 THEN "checking" ELSE "appending",
               !.before = before, !.base = base, !.written = s.record, !.unwritten = u]

LEMMA FlushedFields ==
  ASSUME NEW R \in SUBSET Record, NEW before \in Object \cup {NoObject}, NEW base \in Object,
         NEW s \in SessionOf(R), NEW u \in UnwrittenOf(R)
  PROVE  LET w == Flushed(before, base, s, u) IN
         /\ w \in CallOf(R)
         /\ w.at = (IF u.failed > 0 THEN "checking" ELSE "appending") /\ w.at \in Working
         /\ w.before = before /\ w.base = base /\ w.written = s.record /\ w.unwritten = u
         /\ w.next = 1
<1>1. u.failed \in 0..MaxAttempts /\ s.record \in R \cup {NoRecord} /\ 1 \in Nat \ {0}
  BY Fields
<1> QED
  BY <1>1 DEF Flushed, Idle, CallOf, Working

LEMMA FlushParts ==
  ASSUME NEW R \in SUBSET Record, NEW lg, NEW op,
         NEW c \in Calls, NEW before \in Object \cup {NoObject}, NEW base \in Object,
         NEW s \in SessionOf(R), NEW u \in UnwrittenOf(R), u.records # <<>>,
         Trusted(s.unwritten, lg, op), Trusted(u, lg, op),
         Parts(R, call, session, sitting, stamped, lg, op),
         Flush(c, before, base, s, u)
  PROVE  Parts(R, call', session', sitting', stamped', lg, op)
<1>1. /\ call \in [Calls -> CallOf(R)] /\ session \in [Object -> SessionOf(R)]
      /\ \A k \in Calls : CallFits(call[k], lg, op)
      /\ \A p \in Object : Trusted(session[p].unwritten, lg, op)
      /\ sitting \in Object \cup {NoObject} /\ stamped \subseteq Ids
  BY DEF Parts
<1>2. CASE u.failed >= MaxAttempts
  <2> DEFINE t == [s EXCEPT !.unwritten = u]
  <2>1. t \in SessionOf(R) /\ t.unwritten = u
    BY DEF SessionOf
  <2>2. Return(c, base, t)
    BY <1>2 DEF Flush
  <2> HIDE DEF t
  <2> QED
    BY <2>1, <2>2, ReturnParts
<1>3. CASE ~(u.failed >= MaxAttempts)
  <2> DEFINE w == Flushed(before, base, s, u)
             heap == [session EXCEPT ![base] = s]
  <2>1. call' = [call EXCEPT ![c] = w] /\ UNCHANGED <<sitting, stamped>> /\ session' = Collected(heap)
    BY <1>3 DEF Flush, Flushed
  <2>2. /\ w \in CallOf(R) /\ w.at \in Working /\ w.base = base /\ w.unwritten = u
        /\ w.at = IF u.failed > 0 THEN "checking" ELSE "appending"
    BY FlushedFields
  <2>3. u.failed < MaxAttempts
    BY <1>3, Fields, Constants
  <2> HIDE DEF w
  <2>4. CallFits(w, lg, op)
    BY <2>2, <2>3 DEF CallFits, Working
  <2>5. call' \in [Calls -> CallOf(R)] /\ \A k \in Calls : CallFits(call'[k], lg, op)
    BY <1>1, <2>1, <2>2, <2>4
  <2>6. heap \in [Object -> SessionOf(R)] /\ \A p \in Object : Trusted(heap[p].unwritten, lg, op)
    BY <1>1
  <2> HIDE DEF heap
  <2>7. /\ session' \in [Object -> SessionOf(R)]
        /\ \A p \in Object : Trusted(session'[p].unwritten, lg, op)
    BY <2>1, <2>6, CollectedParts
  <2> QED
    BY <1>1, <2>1, <2>5, <2>7 DEF Parts
<1> QED
  BY <1>2, <1>3

-----------------------------------------------------------------------------
(* The invariant holds at first, and each step keeps it. *)

LEMMA JInitially == Init => JInv
<1> SUFFICES ASSUME Init PROVE JInv
  OBVIOUS
<1> USE DEF Init
<1>1. Built({}, minted)
  BY DEF Built
<1>2. Counters
  BY Constants DEF Counters
<1>3. Files({}, log, open, resolved)
  BY DEF Files
<1>4. Passes({}, pass, log)
  BY DEF Passes, NoPass
<1>5. Parts({}, call, session, sitting, stamped, log, open)
  BY Empties, NothingTrusted DEF Parts
<1>6. Of({})
  BY <1>1, <1>2, <1>3, <1>4, <1>5 DEF Of
<1> QED
  BY <1>6 DEF JInv

\* A step that builds no record, and leaves the files and reconciliation alone.
LEMMA OnlyParts ==
  ASSUME NEW R \in SUBSET Record, Of(R),
         UNCHANGED <<log, open, resolved, pass, minted>>, Counters',
         Parts(R, call', session', sitting', stamped', log, open)
  PROVE  JInv'
<1>1. Of(R)'
  BY DEF Of
<1> QED
  BY <1>1 DEF JInv

\* The record a step builds has an id of its own.
LEMMA Builds ==
  ASSUME NEW R \in SUBSET Record, NEW m \in Nat, Built(R, m), m < MaxRecords,
         NEW n \in 1..(m + 1)
  PROVE  LET r == [id |-> m + 1, session |-> n] IN
         /\ r \in Record /\ Built(R \cup {r}, m + 1) /\ R \cup {r} \in SUBSET Record
         /\ r.id = m + 1 /\ r.session = n /\ r # NoRecord
<1> DEFINE r == [id |-> m + 1, session |-> n]
<1>1. m + 1 \in Ids /\ n \in Ids
  BY Constants DEF Ids
<1>2. r \in Record /\ r.id = m + 1 /\ r.session = n
  BY <1>1 DEF Record
<1>3. \A q \in R : q.id \in Nat /\ q.session <= q.id /\ q.id <= m
  BY RecordOfR, Constants DEF Built, Ids
<1> HIDE DEF r
<1>4. \A q \in R \cup {r} : q.session <= q.id /\ q.id <= m + 1
  <2> TAKE q \in R \cup {r}
  <2>1. CASE q \in R
    <3>1. q.id \in Nat /\ q.session <= q.id /\ q.id <= m
      BY <1>3, <2>1
    <3> QED
      BY <3>1
  <2>2. CASE q = r
    BY <1>2, <2>2
  <2> QED
    BY <2>1, <2>2
<1>5. \A p, q \in R \cup {r} : p.id = q.id => p = q
  <2> TAKE p, q \in R \cup {r}
  <2>1. CASE p \in R /\ q \in R
    BY <2>1 DEF Built
  <2>2. CASE p = r /\ q \in R
    BY <1>2, <1>3, <2>2
  <2>3. CASE p \in R /\ q = r
    BY <1>2, <1>3, <2>3
  <2> QED
    BY <2>1, <2>2, <2>3
<1>6. Built(R \cup {r}, m + 1)
  BY <1>2, <1>4, <1>5 DEF Built
<1>7. r # NoRecord
  BY <1>2, RecordOfR
<1> QED
  BY <1>2, <1>6, <1>7 DEF r

LEMMA FilesGrow ==
  ASSUME NEW R, NEW Q, R \subseteq Q
  PROVE  /\ \A lg, op, marked : Files(R, lg, op, marked) => Files(Q, lg, op, marked)
         /\ \A p, lg : Passes(R, p, lg) => Passes(Q, p, lg)
<1>1. Seq(R) \subseteq Seq(Q)
  BY SeqGrows
<1>2. \A lg, op, marked : Files(R, lg, op, marked) => Files(Q, lg, op, marked)
  BY <1>1 DEF Files
<1>3. \A p, lg : Passes(R, p, lg) => Passes(Q, p, lg)
  BY <1>1 DEF Passes
<1> QED
  BY <1>2, <1>3

\* A step that builds one, and leaves the files and reconciliation alone.
LEMMA OneMore ==
  ASSUME NEW R \in SUBSET Record, Of(R), NEW n \in 1..(minted + 1), minted < MaxRecords,
         UNCHANGED <<log, open, resolved, pass>>, minted' = minted + 1, Counters',
         NEW Q, Q = R \cup {[id |-> minted + 1, session |-> n]},
         Parts(Q, call', session', sitting', stamped', log, open)
  PROVE  JInv'
<1>1. Built(Q, minted') /\ Q \in SUBSET Record
  <2>1. Built(R, minted) /\ minted \in Nat
    BY Constants DEF Of, Counters
  <2> QED
    BY <2>1, Builds
<1>2. R \subseteq Q
  OBVIOUS
<1>3. Files(Q, log', open', resolved') /\ Passes(Q, pass', log')
  BY <1>2, FilesGrow DEF Of
<1>4. Of(Q)'
  BY <1>1, <1>3 DEF Of
<1> QED
  BY <1>1, <1>4 DEF JInv

LEMMA FreshIsFree ==
  ASSUME Free # {}
  PROVE  Fresh \in Object /\ Fresh \notin Referenced(sitting, call)
BY DEF Fresh, Free

LEMMA FirstKeepsJ ==
  ASSUME NEW R \in SUBSET Record, Of(R), NEW c \in Calls,
         NEW before \in Object \cup {NoObject}, NEW base \in Object, First(c, before, base),
         UNCHANGED <<log, open, resolved, pass, up, counted>>
  PROVE  JInv'
<1>0. PICK r : r = [id |-> minted + 1, session |-> minted + 1]
  OBVIOUS
<1>1. PICK Q : Q = R \cup {r}
  OBVIOUS
<1>2. minted \in Nat /\ minted < MaxRecords /\ minted' = minted + 1 /\ Built(R, minted)
  BY Constants DEF First, Of, Counters
<1>3. r \in Q /\ Q \in SUBSET Record /\ R \subseteq Q
  BY <1>0, <1>1, <1>2, Builds
<1> DEFINE u == Queue(Nothing, r)
<1>4. u \in UnwrittenOf(Q) /\ u.records # <<>>
  BY <1>3, Empties, QueuedTypes
<1>5. Trusted(u, log, open)
  <2>1. u.journaled = Unjournaled /\ u.records = Append(<<>>, r)
    <3>1. /\ Nothing \in UnwrittenOf(Q) /\ Nothing.records = <<>>
          /\ Nothing.journaled = Unjournaled
      BY Empties
    <3>2. u.records = Append(Nothing.records, r) /\ u.journaled = Nothing.journaled
      BY <1>3, <3>1, QueuedTypes
    <3> HIDE DEF u
    <3> QED
      BY <3>1, <3>2
  <2>2. Unjournaled[r.id] = "none"
    BY <1>3, RecordOfR DEF Unjournaled
  <2> HIDE DEF u
  <2> QED
    BY <2>1, <2>2 DEF Trusted
<1>6. Unrecorded \in SessionOf(Q) /\ Trusted(Unrecorded.unwritten, log, open)
  BY Empties, NothingTrusted
<1>7. Parts(Q, call, session, sitting, stamped, log, open)
  <2>1. Keeps(log, open, log, open)
    BY DEF Keeps
  <2> QED
    BY <1>3, <2>1, PartsCarry DEF Of
<1>8. Flush(c, before, base, Unrecorded, u)
  BY <1>0, <1>2 DEF First
<1> HIDE DEF u
<1>9. Parts(Q, call', session', sitting', stamped', log, open)
  BY <1>3, <1>4, <1>5, <1>6, <1>7, <1>8, FlushParts
<1>10. Counters'
  BY <1>2, Constants DEF Of, Counters, counted
<1>11. minted + 1 \in 1..(minted + 1) /\ Q = R \cup {[id |-> minted + 1, session |-> minted + 1]}
  BY <1>0, <1>1, <1>2
<1> QED
  BY <1>2, <1>9, <1>10, <1>11, OneMore

LEMMA StartKeepsJ ==
  ASSUME NEW R \in SUBSET Record, Of(R), NEW c \in Calls, NEW o \in Object, StartOn(c, o),
         UNCHANGED <<log, open, resolved, pass, up, counted>>
  PROVE  JInv'
<1>1. CASE Retry(c, o)
  <2>1. /\ session[o] \in SessionOf(R) /\ Trusted(session[o].unwritten, log, open)
        /\ Parts(R, call, session, sitting, stamped, log, open)
    BY DEF Of, Parts
  <2>2. session[o].unwritten \in UnwrittenOf(R) /\ session[o].unwritten.records # <<>>
    BY <1>1, <2>1, Fields DEF Retry
  <2>3. Flush(c, o, o, session[o], session[o].unwritten) /\ UNCHANGED minted
    BY <1>1 DEF Retry
  <2>4. Parts(R, call', session', sitting', stamped', log, open)
    BY <2>1, <2>2, <2>3, FlushParts
  <2>5. Counters'
    BY <2>3 DEF Of, Counters, counted
  <2> QED
    BY <2>3, <2>4, <2>5, OnlyParts
<1>2. CASE First(c, o, o)
  BY <1>2, FirstKeepsJ
<1> QED
  BY <1>1, <1>2 DEF StartOn

LEMMA OpensKeepsJ ==
  ASSUME JInv, NEW c \in Calls, Opens(c)
  PROVE  JInv'
<1>1. PICK R \in SUBSET Record : Of(R)
  BY DEF JInv
<1>2. UNCHANGED <<log, open, resolved, pass, up, counted>> /\ sitting \in Object \cup {NoObject}
  BY <1>1 DEF Opens, Of, Parts
<1>3. CASE sitting # NoObject /\ StartOn(c, sitting)
  BY <1>1, <1>2, <1>3, StartKeepsJ
<1>4. CASE sitting = NoObject /\ Free # {} /\ First(c, NoObject, Fresh)
  BY <1>1, <1>2, <1>4, FreshIsFree, FirstKeepsJ
<1> QED
  BY <1>3, <1>4 DEF Opens

LEMMA KeepsGoingKeepsJ ==
  ASSUME JInv, NEW c \in Calls, KeepsGoing(c)
  PROVE  JInv'
<1>1. PICK R \in SUBSET Record : Of(R)
  BY DEF JInv
<1> DEFINE w == [Idle EXCEPT !.at = "extending", !.before = sitting]
<1>2. call' = [call EXCEPT ![c] = w]
  BY DEF KeepsGoing
<1>3. Parts(R, call, session, sitting, stamped, log, open) /\ sitting \in Object
  BY <1>1 DEF Of, Parts, KeepsGoing
<1>4. /\ w \in CallOf(R) /\ w.at = "extending" /\ w.before = sitting /\ w.base = NoObject
      /\ w.unwritten = Nothing
  BY <1>3, Empties DEF CallOf, Idle
<1> HIDE DEF w
<1>5. CallFits(w, log, open)
  BY <1>3, <1>4, NothingTrusted DEF CallFits, Working
<1>6. Parts(R, call', session', sitting', stamped', log, open)
  BY <1>2, <1>3, <1>4, <1>5 DEF Parts, KeepsGoing, durable
<1>7. UNCHANGED <<log, open, resolved, pass, minted>> /\ Counters'
  BY <1>1 DEF Of, Counters, KeepsGoing, durable, counted
<1> QED
  BY <1>1, <1>6, <1>7, OnlyParts

\* A call that extends grows an object of the holder's.
LEMMA Extending ==
  ASSUME NEW R \in SUBSET Record, Of(R), NEW c \in Calls, call[c].at = "extending"
  PROVE  /\ call[c].before \in Object /\ session[call[c].before] \in SessionOf(R)
         /\ Trusted(session[call[c].before].unwritten, log, open)
BY DEF Of, Parts, CallFits

LEMMA ExtendsNothingKeepsJ ==
  ASSUME JInv, NEW c \in Calls, ExtendsNothing(c)
  PROVE  JInv'
<1>1. PICK R \in SUBSET Record : Of(R)
  BY DEF JInv
<1> DEFINE o == call[c].before
<1>2. /\ UNCHANGED <<log, open, resolved, pass, up, counted>>
      /\ o \in Object /\ session[o] \in SessionOf(R) /\ Trusted(session[o].unwritten, log, open)
  BY <1>1, Extending DEF ExtendsNothing
<1>3. CASE StartOn(c, o)
  BY <1>1, <1>2, <1>3, StartKeepsJ
<1>4. CASE Return(c, o, session[o]) /\ UNCHANGED minted
  <2>1. Parts(R, call', session', sitting', stamped', log, open)
    BY <1>1, <1>2, <1>4, ReturnParts DEF Of
  <2>2. Counters'
    BY <1>1, <1>2, <1>4 DEF Of, Counters, counted
  <2> QED
    BY <1>1, <1>2, <1>4, <2>1, <2>2, OnlyParts
<1> QED
  BY <1>3, <1>4 DEF ExtendsNothing

LEMMA ExtendsGrownKeepsJ ==
  ASSUME JInv, NEW c \in Calls, ExtendsGrown(c)
  PROVE  JInv'
<1>1. PICK R \in SUBSET Record : Of(R)
  BY DEF JInv
<1> DEFINE s == session[call[c].before]
<1>2. /\ UNCHANGED <<log, open, resolved, pass, up, counted>> /\ Free # {}
      /\ Latest(s) # NoRecord /\ minted < MaxRecords /\ minted' = minted + 1
      /\ Flush(c, call[c].before, Fresh, [s EXCEPT !.unwritten = Nothing],
               Queue(s.unwritten, [id |-> minted + 1, session |-> Latest(s).session]))
  BY DEF ExtendsGrown
<1>3. /\ call[c].before \in Object /\ s \in SessionOf(R) /\ Trusted(s.unwritten, log, open)
      /\ Fresh \in Object
  BY <1>1, <1>2, Extending, FreshIsFree DEF ExtendsGrown
<1> HIDE DEF s
<1>4. PICK n : n = Latest(s).session
  OBVIOUS
<1>5. PICK r : r = [id |-> minted + 1, session |-> n]
  OBVIOUS
<1>6. PICK Q : Q = R \cup {r}
  OBVIOUS
<1>7. minted \in Nat /\ Built(R, minted) /\ n \in 1..(minted + 1)
  <2>1. Latest(s) \in R
    BY <1>2, <1>3, LatestTypes
  <2>2. n \in Nat \ {0} /\ Latest(s).id \in Nat /\ n <= Latest(s).id /\ Latest(s).id <= minted
    BY <1>1, <1>4, <2>1, RecordOfR, Constants DEF Of, Built, Ids
  <2> QED
    BY <1>1, <2>2, Constants DEF Of, Counters
<1>8. r \in Q /\ Q \in SUBSET Record /\ R \subseteq Q /\ r.id = minted + 1
  BY <1>2, <1>5, <1>6, <1>7, Builds
<1>9. Parts(Q, call, session, sitting, stamped, log, open)
  <2>1. Keeps(log, open, log, open)
    BY DEF Keeps
  <2> QED
    BY <1>1, <1>8, <2>1, PartsCarry DEF Of
<1>10. s \in SessionOf(Q) /\ s.unwritten \in UnwrittenOf(Q)
  BY <1>3, <1>8, TypesGrow, Fields
<1> DEFINE t == [s EXCEPT !.unwritten = Nothing]
           u == Queue(s.unwritten, r)
<1>11. t \in SessionOf(Q) /\ Trusted(t.unwritten, log, open)
  <2>1. t \in SessionOf(Q) /\ t.unwritten = Nothing
    BY <1>10, Empties DEF SessionOf
  <2> QED
    BY <2>1, NothingTrusted
<1>12. u \in UnwrittenOf(Q) /\ u.records # <<>>
  BY <1>8, <1>10, QueuedTypes
<1>13. PICK x : x = Latest(s)
  OBVIOUS
<1>14. Flush(c, call[c].before, Fresh, t, u)
  BY <1>2, <1>4, <1>5
<1> HIDE DEF t, u
<1>15. Trusted(u, log, open) => JInv'
  <2> SUFFICES ASSUME Trusted(u, log, open) PROVE JInv'
    OBVIOUS
  <2>1. Parts(Q, call', session', sitting', stamped', log, open)
    BY <1>3, <1>8, <1>9, <1>11, <1>12, <1>14, FlushParts
  <2>2. Counters'
    BY <1>1, <1>2, <1>7, Constants DEF Of, Counters, counted
  <2> QED
    BY <1>1, <1>2, <1>5, <1>6, <1>7, <2>1, <2>2, OneMore
<1>16. Trusted(u, log, open)
  <2> USE DEF u
  <2>1. /\ s.unwritten.records \in Seq(Q) /\ u.records = Append(s.unwritten.records, r)
        /\ u.journaled = s.unwritten.journaled
    <3>1. s.unwritten.records \in Seq(Q)
      BY <1>10, Fields
    <3>2. PICK v : v = s.unwritten
      OBVIOUS
    <3>3. Queue(v, r).records = Append(v.records, r) /\ Queue(v, r).journaled = v.journaled
      BY <1>8, <1>10, <3>2, QueuedTypes
    <3> QED
      BY <3>1, <3>2, <3>3
  <2> HIDE DEF u
  <2>2. u.journaled[r.id] = "none"
    <3>1. s.unwritten.journaled \in JournaledOf(R)
      BY <1>3, Fields
    <3>2. \A q \in R : q.id # r.id
      BY <1>7, <1>8, RecordOfR, Constants DEF Built, Ids
    <3>3. r.id \in Ids
      BY <1>8, RecordOfR
    <3> QED
      BY <2>1, <3>1, <3>2, <3>3 DEF JournaledOf
  <2>3. \A i \in DOMAIN u.records : u.records[i] = r \/ i \in DOMAIN s.unwritten.records
    BY <1>8, <2>1, Appended
  <2>4. \A i \in DOMAIN s.unwritten.records : u.records[i] = s.unwritten.records[i]
    BY <1>8, <2>1, Appended
  <2> QED
    BY <1>3, <2>1, <2>2, <2>3, <2>4 DEF Trusted
<1> QED
  BY <1>15, <1>16

LEMMA ExtendsSameKeepsJ ==
  ASSUME JInv, NEW c \in Calls, ExtendsSame(c)
  PROVE  JInv'
<1>1. PICK R \in SUBSET Record : Of(R)
  BY DEF JInv
<1> DEFINE s == session[call[c].before]
<1>2. UNCHANGED <<log, open, resolved, pass, up, minted, counted>> /\ Free # {}
  BY DEF ExtendsSame
<1>3. /\ call[c].before \in Object /\ s \in SessionOf(R) /\ Trusted(s.unwritten, log, open)
      /\ Fresh \in Object
  BY <1>1, <1>2, Extending, FreshIsFree DEF ExtendsSame
<1>4. Parts(R, call, session, sitting, stamped, log, open)
  BY <1>1 DEF Of
<1> DEFINE t == [s EXCEPT !.unwritten = Nothing]
<1>5. t \in SessionOf(R) /\ Trusted(t.unwritten, log, open)
  <2> HIDE DEF s
  <2>1. t \in SessionOf(R) /\ t.unwritten = Nothing
    BY <1>3, Empties DEF SessionOf
  <2> QED
    BY <2>1, NothingTrusted
<1>6. s.unwritten \in UnwrittenOf(R)
  BY <1>3, Fields
<1>7. Counters'
  BY <1>1, <1>2 DEF Of, Counters, counted
<1>8. CASE s.unwritten.records = <<>>
  <2>1. Return(c, Fresh, s)
    BY <1>8 DEF ExtendsSame
  <2> HIDE DEF s
  <2>2. Parts(R, call', session', sitting', stamped', log, open)
    BY <1>3, <1>4, <2>1, ReturnParts
  <2> QED
    BY <1>1, <1>2, <1>7, <2>2, OnlyParts
<1>9. CASE s.unwritten.records # <<>>
  <2>1. Flush(c, call[c].before, Fresh, t, s.unwritten)
    BY <1>9 DEF ExtendsSame
  <2> HIDE DEF s, t
  <2>2. Parts(R, call', session', sitting', stamped', log, open)
    BY <1>3, <1>4, <1>5, <1>6, <1>9, <2>1, FlushParts
  <2> QED
    BY <1>1, <1>2, <1>7, <2>2, OnlyParts
<1> QED
  BY <1>8, <1>9

LEMMA ExtendsUnrecordedKeepsJ ==
  ASSUME JInv, NEW c \in Calls, ExtendsUnrecorded(c)
  PROVE  JInv'
<1>1. PICK R \in SUBSET Record : Of(R)
  BY DEF JInv
<1>2. UNCHANGED <<log, open, resolved, pass, up, minted, counted>> /\ Free # {}
  BY DEF ExtendsUnrecorded
<1>3. /\ session[call[c].before] \in SessionOf(R)
      /\ Trusted(session[call[c].before].unwritten, log, open)
      /\ Fresh \in Object
  BY <1>1, <1>2, Extending, FreshIsFree DEF ExtendsUnrecorded
<1>4. Parts(R, call', session', sitting', stamped', log, open)
  BY <1>1, <1>3, ReturnParts DEF ExtendsUnrecorded, Of
<1>5. Counters'
  BY <1>1, <1>2 DEF Of, Counters, counted
<1> QED
  BY <1>1, <1>2, <1>4, <1>5, OnlyParts

-----------------------------------------------------------------------------
(* Calls at work. *)

\* The call c with what it had under way changed to w.
LEMMA PartsAt ==
  ASSUME NEW R, NEW lg, NEW op, NEW c \in Calls, NEW w \in CallOf(R), CallFits(w, lg, op),
         Parts(R, call, session, sitting, stamped, lg, op),
         call' = [call EXCEPT ![c] = w], UNCHANGED <<session, sitting, stamped>>
  PROVE  Parts(R, call', session', sitting', stamped', lg, op)
BY DEF Parts

LEMMA AtWork ==
  ASSUME NEW R \in SUBSET Record, NEW lg, NEW op, NEW c \in Calls,
         Parts(R, call, session, sitting, stamped, lg, op), call[c].at \in Working
  PROVE  /\ call[c] \in CallOf(R) /\ call[c].base \in Object
         /\ call[c].unwritten \in UnwrittenOf(R)
         /\ call[c].unwritten.records \in Seq(R) /\ call[c].unwritten.records # <<>>
         /\ Current(c) = call[c].unwritten.records[1] /\ Current(c) \in R
         /\ call[c].at # "journaling" => call[c].unwritten.failed < MaxAttempts
         /\ Trusted(call[c].unwritten, lg, op)
<1>1. call[c] \in CallOf(R) /\ CallFits(call[c], lg, op)
  BY DEF Parts
<1>2. call[c].unwritten.records \in Seq(R) /\ call[c].unwritten.records # <<>>
  BY <1>1, Fields DEF CallFits
<1>3. Current(c) = call[c].unwritten.records[1] /\ Current(c) \in R
  BY <1>2, Tailed DEF Current
<1> QED
  BY <1>1, <1>2, <1>3, Fields DEF CallFits

\* The call c once its current record is written.
Wrote(c) == [call[c] EXCEPT !.written = Current(c), !.unwritten.records = Tail(@)]

LEMMA WroteFields ==
  ASSUME NEW R \in SUBSET Record, NEW lg, NEW op, NEW c \in Calls,
         Parts(R, call, session, sitting, stamped, lg, op), call[c].at \in Working
  PROVE  /\ Wrote(c) \in CallOf(R) /\ Wrote(c).written = Current(c)
         /\ Wrote(c).at = call[c].at /\ Wrote(c).before = call[c].before
         /\ Wrote(c).base = call[c].base /\ Wrote(c).next = call[c].next
         /\ Wrote(c).unwritten \in UnwrittenOf(R)
         /\ Wrote(c).unwritten.records = Tail(call[c].unwritten.records)
         /\ Wrote(c).unwritten.failed = call[c].unwritten.failed
         /\ Wrote(c).unwritten.journaled = call[c].unwritten.journaled
         /\ Trusted(Wrote(c).unwritten, lg, op)
<1>1. /\ call[c] \in CallOf(R) /\ call[c].unwritten.records \in Seq(R)
      /\ call[c].unwritten.records # <<>>
      /\ Current(c) \in R /\ Trusted(call[c].unwritten, lg, op)
  BY AtWork
<1>2. Tail(call[c].unwritten.records) \in Seq(R)
  BY <1>1, Tailed
<1>3. /\ Wrote(c) \in CallOf(R) /\ Wrote(c).written = Current(c)
      /\ Wrote(c).at = call[c].at /\ Wrote(c).before = call[c].before
      /\ Wrote(c).base = call[c].base /\ Wrote(c).next = call[c].next
      /\ Wrote(c).unwritten \in UnwrittenOf(R)
      /\ Wrote(c).unwritten.records = Tail(call[c].unwritten.records)
      /\ Wrote(c).unwritten.failed = call[c].unwritten.failed
      /\ Wrote(c).unwritten.journaled = call[c].unwritten.journaled
  BY <1>1, <1>2 DEF Wrote, CallOf, UnwrittenOf
<1>4. Trusted(Wrote(c).unwritten, lg, op)
  <2>1. \A i \in DOMAIN Tail(call[c].unwritten.records) :
          /\ i + 1 \in DOMAIN call[c].unwritten.records
          /\ Tail(call[c].unwritten.records)[i] = call[c].unwritten.records[i + 1]
    BY <1>1, Tailed
  <2> QED
    BY <1>1, <1>3, <2>1 DEF Trusted
<1> QED
  BY <1>3, <1>4

LEMMA WrittenParts ==
  ASSUME NEW R \in SUBSET Record, NEW lg, NEW op, NEW c \in Calls, Free # {},
         call[c].at \in Working \ {"journaling"},
         Parts(R, call, session, sitting, stamped, lg, op), Written(c)
  PROVE  Parts(R, call', session', sitting', stamped', lg, op)
<1> DEFINE w == Wrote(c)
<1>1. /\ w \in CallOf(R) /\ w.written = Current(c) /\ w.base \in Object
      /\ w.unwritten \in UnwrittenOf(R) /\ w.unwritten.failed < MaxAttempts
      /\ Trusted(w.unwritten, lg, op) /\ Current(c) \in R
  <2>1. call[c].at \in Working /\ call[c].at # "journaling"
    BY DEF Working
  <2>2. /\ call[c].base \in Object /\ call[c].unwritten.failed < MaxAttempts /\ Current(c) \in R
    BY <2>1, AtWork
  <2>3. /\ w \in CallOf(R) /\ w.written = Current(c) /\ w.base = call[c].base
        /\ w.unwritten \in UnwrittenOf(R) /\ w.unwritten.failed = call[c].unwritten.failed
        /\ Trusted(w.unwritten, lg, op)
    BY <2>1, WroteFields
  <2> QED
    BY <2>2, <2>3
<1>2. Fresh \in Object
  BY FreshIsFree
<1>3. CASE w.unwritten.records = <<>>
  <2> DEFINE t == [record |-> w.written, unwritten |-> Nothing]
  <2>1. Return(c, Fresh, t)
    BY <1>3 DEF Written, Wrote
  <2>2. t \in SessionOf(R) /\ t.unwritten = Nothing
    BY <1>1, Empties DEF SessionOf
  <2> HIDE DEF t
  <2> QED
    BY <1>2, <2>1, <2>2, NothingTrusted, ReturnParts
<1>4. CASE w.unwritten.records # <<>>
  <2> DEFINE x == [w EXCEPT !.at = IF w.unwritten.failed > 0 THEN "checking" ELSE "appending"]
  <2>1. call' = [call EXCEPT ![c] = x] /\ UNCHANGED <<session, sitting, stamped>>
    BY <1>4 DEF Written, Wrote
  <2> HIDE DEF w
  <2>2. /\ x \in CallOf(R) /\ x.base = w.base /\ x.unwritten = w.unwritten
        /\ x.at = IF w.unwritten.failed > 0 THEN "checking" ELSE "appending"
    BY <1>1 DEF CallOf, Working
  <2> HIDE DEF x
  <2>3. CallFits(x, lg, op)
    BY <1>1, <1>4, <2>2 DEF CallFits, Working
  <2> QED
    BY <2>1, <2>2, <2>3, PartsAt
<1> QED
  BY <1>3, <1>4

LEMMA LandedParts ==
  ASSUME NEW R \in SUBSET Record, NEW lg, NEW op, NEW c \in Calls, Free # {},
         call[c].at \in {"checking", "appending"}, Contains(lg, Current(c)),
         Parts(R, call, session, sitting, stamped, lg, op), Landed(c)
  PROVE  Parts(R, call', session', sitting', stamped', lg, op)
<1>1. CASE Written(c)
  BY <1>1, WrittenParts DEF Working
<1>2. CASE /\ call' = [call EXCEPT ![c].at = "marking"]
           /\ UNCHANGED <<sitting, session, stamped>>
  <2> DEFINE w == [call[c] EXCEPT !.at = "marking"]
  <2>1. /\ call[c] \in CallOf(R) /\ call[c].base \in Object
        /\ call[c].unwritten.records # <<>> /\ Current(c) = call[c].unwritten.records[1]
        /\ call[c].unwritten.failed < MaxAttempts /\ Trusted(call[c].unwritten, lg, op)
    BY AtWork DEF Working
  <2>2. w \in CallOf(R) /\ w.at = "marking" /\ w.base = call[c].base /\ w.unwritten = call[c].unwritten
    BY <2>1 DEF CallOf, Working
  <2>3. call' = [call EXCEPT ![c] = w]
    BY <1>2
  <2> HIDE DEF w
  <2>4. CallFits(w, lg, op)
    BY <2>1, <2>2 DEF CallFits, Working
  <2> QED
    BY <1>2, <2>2, <2>3, <2>4, PartsAt
<1> QED
  BY <1>1, <1>2 DEF Landed

LEMMA FailedParts ==
  ASSUME NEW R \in SUBSET Record, NEW lg, NEW op, NEW c \in Calls,
         call[c].at \in {"checking", "appending"},
         Parts(R, call, session, sitting, stamped, lg, op), FailsToWrite(c)
  PROVE  /\ Parts(R, call', session', sitting', stamped', lg, op)
         /\ UNCHANGED <<session, sitting, stamped>>
         /\ \E w \in CallOf(R) :
              /\ call' = [call EXCEPT ![c] = w]
              /\ w.at = "journaling" /\ w.next = 1
              /\ w.before = call[c].before /\ w.base = call[c].base /\ w.written = call[c].written
              /\ w.unwritten = [call[c].unwritten EXCEPT !.failed = @ + 1]
              /\ w.unwritten.records = call[c].unwritten.records
              /\ w.unwritten.failed = call[c].unwritten.failed + 1
              /\ w.unwritten.journaled = call[c].unwritten.journaled
<1> DEFINE u == [call[c].unwritten EXCEPT !.failed = @ + 1]
           w == [call[c] EXCEPT !.at = "journaling", !.next = 1, !.unwritten = u]
<1>1. /\ call[c] \in CallOf(R) /\ call[c].base \in Object /\ call[c].unwritten.records # <<>>
      /\ call[c].unwritten \in UnwrittenOf(R)
      /\ call[c].unwritten.failed < MaxAttempts /\ Trusted(call[c].unwritten, lg, op)
  BY AtWork DEF Working
<1>2. /\ u \in UnwrittenOf(R) /\ u.records = call[c].unwritten.records
      /\ u.journaled = call[c].unwritten.journaled /\ u.failed = call[c].unwritten.failed + 1
  BY <1>1, Constants DEF UnwrittenOf
<1>3. call' = [call EXCEPT ![c] = w] /\ UNCHANGED <<sitting, session, stamped>>
  BY <1>1 DEF FailsToWrite, CallOf, UnwrittenOf
<1> HIDE DEF u
<1>4. /\ w \in CallOf(R) /\ w.at = "journaling" /\ w.base = call[c].base /\ w.unwritten = u
      /\ w.next = 1 /\ w.before = call[c].before /\ w.written = call[c].written
  <2>1. /\ 1 \in Nat \ {0} /\ call[c].before \in Object \cup {NoObject}
        /\ call[c].written \in R \cup {NoRecord}
    BY <1>1, Fields
  <2> QED
    BY <1>1, <1>2, <2>1 DEF CallOf, Working
<1> HIDE DEF w
<1>5. CallFits(w, lg, op)
  BY <1>1, <1>2, <1>4 DEF CallFits, Working, Trusted
<1>6. Parts(R, call', session', sitting', stamped', lg, op)
  BY <1>3, <1>4, <1>5, PartsAt
<1>7. u = [call[c].unwritten EXCEPT !.failed = @ + 1]
  BY DEF u
<1> QED
  BY <1>2, <1>3, <1>4, <1>6, <1>7

LEMMA AllWorking ==
  /\ Working = {"checking", "appending", "marking", "journaling"}
  /\ {"checking", "appending", "marking"} = Working \ {"journaling"}
BY DEF Working

LEMMA ChecksKeepsJ ==
  ASSUME JInv, NEW c \in Calls, Checks(c)
  PROVE  JInv'
<1>1. PICK R \in SUBSET Record : Of(R)
  BY DEF JInv
<1>2. /\ UNCHANGED <<log, open, resolved, pass, up, minted>> /\ call[c].at = "checking"
      /\ Parts(R, call, session, sitting, stamped, log, open)
  BY <1>1 DEF Checks, Of
<1>3. CASE InLog(Current(c)) /\ Free # {} /\ Landed(c) /\ UNCHANGED counted
  <2>1. Parts(R, call', session', sitting', stamped', log, open)
    BY <1>2, <1>3, LandedParts DEF InLog
  <2>2. Counters'
    BY <1>1, <1>2, <1>3 DEF Of, Counters, counted
  <2> QED
    BY <1>1, <1>2, <2>1, <2>2, OnlyParts
<1>4. CASE /\ call' = [call EXCEPT ![c].at = "appending"]
           /\ UNCHANGED <<sitting, session, stamped, counted>>
  <2> DEFINE w == [call[c] EXCEPT !.at = "appending"]
  <2>1. call[c] \in CallOf(R) /\ CallFits(call[c], log, open)
    BY <1>2 DEF Parts
  <2>2. w \in CallOf(R) /\ w.at = "appending" /\ w.base = call[c].base /\ w.unwritten = call[c].unwritten
    BY <2>1 DEF CallOf, Working
  <2>3. call' = [call EXCEPT ![c] = w]
    BY <1>4
  <2> HIDE DEF w
  <2>4. CallFits(w, log, open)
    BY <1>2, <2>1, <2>2 DEF CallFits, Working
  <2>5. Parts(R, call', session', sitting', stamped', log, open)
    BY <1>2, <1>4, <2>2, <2>3, <2>4, PartsAt
  <2>6. Counters'
    BY <1>1, <1>2, <1>4 DEF Of, Counters, counted
  <2> QED
    BY <1>1, <1>2, <2>5, <2>6, OnlyParts
<1>5. CASE FailsToWrite(c)
  <2>1. Parts(R, call', session', sitting', stamped', log, open)
    BY <1>2, <1>5, FailedParts
  <2>2. Counters'
    BY <1>1, <1>2, <1>5 DEF Of, Counters, FailsToWrite, Fails
  <2> QED
    BY <1>1, <1>2, <2>1, <2>2, OnlyParts
<1> QED
  BY <1>3, <1>4, <1>5 DEF Checks

\* A step that adds to the log, or the journal, and leaves reconciliation alone.
LEMMA FilesMove ==
  ASSUME NEW R \in SUBSET Record, Of(R), UNCHANGED <<pass, minted>>, Counters',
         Files(R, log', open', resolved'), \A r : Contains(log, r) => Contains(log', r),
         Parts(R, call', session', sitting', stamped', log', open')
  PROVE  JInv'
<1>1. Passes(R, pass', log')
  BY DEF Of, Passes
<1>2. Of(R)'
  BY <1>1 DEF Of
<1> QED
  BY <1>2 DEF JInv

LEMMA FilesAppend ==
  ASSUME NEW R, NEW lg, NEW op, NEW marked, Files(R, lg, op, marked), NEW r \in R
  PROVE  /\ Files(R, Append(lg, r), op, marked) /\ Contains(Append(lg, r), r)
         /\ Keeps(lg, op, Append(lg, r), op)
<1>1. /\ Append(lg, r) \in Seq(R)
      /\ \A i \in DOMAIN lg : i \in DOMAIN Append(lg, r) /\ Append(lg, r)[i] = lg[i]
      /\ \A q : Contains(Append(lg, r), q) <=> Contains(lg, q) \/ q = r
  <2>1. lg \in Seq(R)
    BY DEF Files
  <2>2. /\ Append(lg, r) \in Seq(R) /\ \A i \in DOMAIN lg : Append(lg, r)[i] = lg[i]
        /\ \A q : Contains(Append(lg, r), q) <=> Contains(lg, q) \/ q = r
    BY <2>1, Appended
  <2>3. DOMAIN Append(lg, r) = 1..(Len(lg) + 1) /\ DOMAIN lg = 1..Len(lg) /\ Len(lg) \in Nat
    BY <2>1, Appended
  <2> QED
    BY <2>2, <2>3
<1>2. Contains(Append(lg, r), r) /\ Keeps(lg, op, Append(lg, r), op)
  BY <1>1 DEF Keeps
<1>3. \A id \in marked : \E i \in DOMAIN Append(lg, r) : Append(lg, r)[i].id = id
  BY <1>1 DEF Files
<1> QED
  BY <1>1, <1>2, <1>3 DEF Files

LEMMA AppendsKeepsJ ==
  ASSUME JInv, NEW c \in Calls, Appends(c)
  PROVE  JInv'
<1>1. PICK R \in SUBSET Record : Of(R)
  BY DEF JInv
<1>2. /\ UNCHANGED <<open, resolved, pass, up, minted>> /\ call[c].at = "appending"
      /\ Parts(R, call, session, sitting, stamped, log, open)
      /\ Files(R, log, open, resolved)
  BY <1>1 DEF Appends, Of
<1>3. Current(c) \in R
  BY <1>2, AtWork DEF Working
<1>4. CASE log' = Append(log, Current(c))
  <2>1. /\ Files(R, log', open, resolved) /\ Contains(log', Current(c))
        /\ Keeps(log, open, log', open)
    BY <1>2, <1>3, <1>4, FilesAppend
  <2>2. Parts(R, call, session, sitting, stamped, log', open)
    BY <1>2, <2>1, PartsCarry
  <2>3. Parts(R, call', session', sitting', stamped', log', open) /\ Counters'
    <3>1. CASE Free # {} /\ Landed(c) /\ UNCHANGED counted
      <4>1. Parts(R, call', session', sitting', stamped', log', open)
        BY <1>2, <2>1, <2>2, <3>1, LandedParts
      <4>2. Counters'
        BY <1>1, <1>2, <3>1 DEF Of, Counters, counted
      <4> QED
        BY <4>1, <4>2
    <3>2. CASE FailsToWrite(c)
      <4>1. Parts(R, call', session', sitting', stamped', log', open)
        BY <1>2, <2>2, <3>2, FailedParts
      <4>2. Counters'
        BY <1>1, <1>2, <3>2 DEF Of, Counters, FailsToWrite, Fails
      <4> QED
        BY <4>1, <4>2
    <3>3. \/ Free # {} /\ Landed(c) /\ UNCHANGED counted
          \/ FailsToWrite(c)
      BY DEF Appends
    <3> QED
      BY <3>1, <3>2, <3>3
  <2>4. \A r : Contains(log, r) => Contains(log', r)
    BY <2>1 DEF Keeps
  <2> QED
    BY <1>1, <1>2, <2>1, <2>3, <2>4, FilesMove
<1>5. CASE log' = log /\ FailsToWrite(c)
  <2>1. Parts(R, call', session', sitting', stamped', log, open)
    BY <1>2, <1>5, FailedParts
  <2>2. Counters'
    BY <1>1, <1>2, <1>5 DEF Of, Counters, FailsToWrite, Fails
  <2> QED
    BY <1>1, <1>2, <1>5, <2>1, <2>2, OnlyParts
<1> QED
  BY <1>4, <1>5 DEF Appends

\* Marking a record of the log resolved.
LEMMA FilesResolved ==
  ASSUME NEW R \in SUBSET Record, Files(R, log, open, resolved), NEW r \in R, Contains(log, r),
         Line(JournalsResolved(r)), UNCHANGED log, Counters, UNCHANGED <<up, minted, failures, crashes>>
  PROVE  /\ Files(R, log', open', resolved') /\ Keeps(log, open, log, open')
         /\ Counters'
<1>1. CASE JournalsResolved(r) /\ UNCHANGED refusals
  <2>1. resolved' = resolved \cup {r.id} /\ open' = RemoveFirst(open, r)
    BY <1>1 DEF JournalsResolved
  <2>2. open' \in Seq(R) /\ \A q : q # r => (Contains(open', q) <=> Contains(open, q))
    BY <2>1, Removed DEF Files
  <2>3. r.id \in Ids
    BY RecordOfR
  <2>4. \E i \in DOMAIN log : log[i].id = r.id
    BY DEF Contains, Files
  <2>5. Files(R, log', open', resolved')
    BY <2>1, <2>2, <2>3, <2>4 DEF Files
  <2>6. Keeps(log, open, log, open')
    BY <2>2 DEF Keeps
  <2> QED
    BY <1>1, <2>5, <2>6 DEF Counters
<1>2. CASE refusals < MaxRefusals /\ refusals' = refusals + 1 /\ UNCHANGED <<open, resolved>>
  <2>1. Counters'
    BY <1>2 DEF Counters
  <2> QED
    BY <1>2, <2>1 DEF Files, Keeps
<1> QED
  BY <1>1, <1>2 DEF Line

LEMMA MarksKeepsJ ==
  ASSUME JInv, NEW c \in Calls, MarksResolved(c)
  PROVE  JInv'
<1>1. PICK R \in SUBSET Record : Of(R)
  BY DEF JInv
<1>2. /\ UNCHANGED <<log, pass, up, minted, failures, crashes>> /\ call[c].at = "marking"
      /\ Free # {} /\ Line(JournalsResolved(Current(c))) /\ Written(c)
      /\ Parts(R, call, session, sitting, stamped, log, open)
      /\ Files(R, log, open, resolved) /\ Counters
  BY <1>1 DEF MarksResolved, Of
<1>3. Current(c) \in R /\ Current(c) = call[c].unwritten.records[1]
  BY <1>2, AtWork DEF Working
<1>4. Contains(log, Current(c))
  BY <1>2, <1>3 DEF Parts, CallFits
<1>5. /\ Files(R, log', open', resolved') /\ Keeps(log, open, log, open') /\ Counters'
  BY <1>2, <1>3, <1>4, FilesResolved
<1>6. Parts(R, call, session, sitting, stamped, log, open')
  BY <1>2, <1>5, PartsCarry
<1>7. Parts(R, call', session', sitting', stamped', log, open')
  BY <1>2, <1>6, WrittenParts DEF Working
<1> QED
  BY <1>1, <1>2, <1>5, <1>7, FilesMove

\* A line that says a record is unresolved: the record is then in the journal, or is in the log.
LEMMA FilesUnresolved ==
  ASSUME NEW R \in SUBSET Record, Built(R, minted), Files(R, log, open, resolved), NEW r \in R,
         JournalsUnresolved(r), UNCHANGED <<log, resolved>>
  PROVE  /\ Files(R, log', open', resolved') /\ Keeps(log, open, log, open')
         /\ Contains(open', r) \/ Contains(log, r)
         /\ r.id \notin resolved => Contains(open', r)
<1>1. log \in Seq(R) /\ open \in Seq(R)
  BY DEF Files
<1>2. CASE r.id \in resolved
  <2>1. PICK i \in DOMAIN log : log[i].id = r.id
    BY <1>2 DEF Files
  <2>2. log[i] \in R
    BY <1>1
  <2>3. log[i] = r
    BY <2>1, <2>2 DEF Built
  <2>4. Contains(log, r)
    BY <1>1, <2>3 DEF Contains
  <2>5. open' = open
    BY <1>2 DEF JournalsUnresolved
  <2> QED
    BY <1>2, <2>4, <2>5 DEF Files, Keeps
<1>3. CASE Contains(open, r)
  <2>1. open' = open
    BY <1>3 DEF JournalsUnresolved
  <2> QED
    BY <1>3, <2>1 DEF Files, Keeps
<1>4. CASE ~(r.id \in resolved \/ Contains(open, r))
  <2>1. open' = Append(open, r)
    BY <1>4 DEF JournalsUnresolved
  <2>2. open' \in Seq(R) /\ \A q : Contains(open', q) <=> Contains(open, q) \/ q = r
    BY <1>1, <2>1, Appended
  <2> QED
    BY <2>2 DEF Files, Keeps
<1> QED
  BY <1>2, <1>3, <1>4

\* Call c, having journaled record i of its own; or not.
LEMMA JournalsFields ==
  ASSUME NEW R \in SUBSET Record, NEW lg, NEW op, NEW c \in Calls,
         Parts(R, call, session, sitting, stamped, lg, op), call[c].at = "journaling",
         NEW i \in DOMAIN call[c].unwritten.records
  PROVE  LET r == call[c].unwritten.records[i]
             u == [call[c].unwritten EXCEPT
                     !.journaled = [@ EXCEPT ![r.id] = ExhaustedState(call[c].unwritten.failed)]]
             w == [call[c] EXCEPT !.next = i + 1, !.unwritten = u]
             x == [call[c] EXCEPT !.next = i + 1]
         IN  /\ r \in R /\ i \in Nat
             /\ ExhaustedState(call[c].unwritten.failed) \in {"retrying", "exhausted"}
             /\ u \in UnwrittenOf(R) /\ u.records = call[c].unwritten.records
             /\ u.failed = call[c].unwritten.failed
             /\ u.journaled = [call[c].unwritten.journaled EXCEPT
                                 ![r.id] = ExhaustedState(call[c].unwritten.failed)]
             /\ w \in CallOf(R) /\ w.unwritten = u /\ w.at = "journaling" /\ w.next = i + 1
             /\ w.base = call[c].base /\ w.before = call[c].before /\ w.written = call[c].written
             /\ x \in CallOf(R) /\ x.unwritten = call[c].unwritten /\ x.at = "journaling"
             /\ x.next = i + 1
             /\ x.base = call[c].base /\ x.before = call[c].before /\ x.written = call[c].written
             /\ [call EXCEPT ![c].next = i + 1,
                    ![c].unwritten.journaled[r.id] = ExhaustedState(call[c].unwritten.failed)]
                  = [call EXCEPT ![c] = w]
             /\ [call EXCEPT ![c].next = i + 1] = [call EXCEPT ![c] = x]
<1> DEFINE r == call[c].unwritten.records[i]
           e == ExhaustedState(call[c].unwritten.failed)
           j == [call[c].unwritten.journaled EXCEPT ![r.id] = e]
           u == [call[c].unwritten EXCEPT !.journaled = [@ EXCEPT ![r.id] = e]]
           w == [call[c] EXCEPT !.next = i + 1, !.unwritten = u]
           x == [call[c] EXCEPT !.next = i + 1]
<1>1. /\ call[c] \in CallOf(R) /\ call[c].unwritten \in UnwrittenOf(R)
      /\ call[c].unwritten.records \in Seq(R)
  BY AtWork DEF Working
<1>2. r \in R /\ i \in Nat
  BY <1>1
<1>3. e \in {"retrying", "exhausted"}
  BY DEF ExhaustedState
<1>4. r.id \in Ids
  BY <1>2, RecordOfR
<1>5. call[c].unwritten.journaled \in JournaledOf(R)
  BY <1>1, Fields
<1>6. j \in JournaledOf(R)
  BY <1>2, <1>3, <1>4, <1>5 DEF JournaledOf, JournalStates
<1>7. /\ u \in UnwrittenOf(R) /\ u.records = call[c].unwritten.records
      /\ u.failed = call[c].unwritten.failed /\ u.journaled = j
  BY <1>1, <1>6 DEF UnwrittenOf
<1>8. /\ w \in CallOf(R) /\ w.unwritten = u /\ w.at = "journaling" /\ w.next = i + 1
      /\ w.base = call[c].base /\ w.before = call[c].before /\ w.written = call[c].written
      /\ x \in CallOf(R) /\ x.unwritten = call[c].unwritten /\ x.at = "journaling"
      /\ x.next = i + 1
      /\ x.base = call[c].base /\ x.before = call[c].before /\ x.written = call[c].written
  <2>1. /\ i + 1 \in Nat \ {0} /\ u \in UnwrittenOf(R)
        /\ call[c] = [at |-> "journaling", before |-> call[c].before, base |-> call[c].base,
                      written |-> call[c].written, unwritten |-> call[c].unwritten,
                      next |-> call[c].next]
    BY <1>1, <1>2, <1>7 DEF CallOf
  <2>2. /\ call[c].before \in Object \cup {NoObject} /\ call[c].base \in Object \cup {NoObject}
        /\ call[c].written \in R \cup {NoRecord} /\ call[c].unwritten \in UnwrittenOf(R)
    BY <1>1, Fields
  <2> HIDE DEF u
  <2>3. PICK v : v = call[c]
    OBVIOUS
  <2>4. w = [v EXCEPT !.next = i + 1, !.unwritten = u] /\ x = [v EXCEPT !.next = i + 1]
    BY <2>3
  <2> HIDE DEF w, x
  <2> QED
    BY <2>1, <2>2, <2>3, <2>4 DEF CallOf, Working
<1>9. /\ [call EXCEPT ![c].next = i + 1, ![c].unwritten.journaled[r.id] = e] = [call EXCEPT ![c] = w]
      /\ [call EXCEPT ![c].next = i + 1] = [call EXCEPT ![c] = x]
  <2>1. call \in [Calls -> CallOf(R)]
    BY DEF Parts
  <2> HIDE DEF r, e
  <2> QED
    BY <2>1 DEF CallOf, UnwrittenOf
<1> QED
  BY <1>2, <1>3, <1>7, <1>8, <1>9

LEMMA JournalsLineKeepsJ ==
  ASSUME JInv, NEW c \in Calls, JournalsLine(c)
  PROVE  JInv'
<1>1. PICK R \in SUBSET Record : Of(R)
  BY DEF JInv
<1>2. /\ UNCHANGED <<log, stamped, sitting, session, pass, up, minted, failures, crashes>>
      /\ call[c].at = "journaling"
      /\ Parts(R, call, session, sitting, stamped, log, open) /\ Built(R, minted)
      /\ Files(R, log, open, resolved)
  BY <1>1 DEF JournalsLine, Of
<1>3. PICK i \in ToJournal(c) :
        LET r == call[c].unwritten.records[i] IN
        \/ /\ JournalsUnresolved(r)
           /\ call' = [call EXCEPT ![c].next = i + 1,
                         ![c].unwritten.journaled[r.id] = ExhaustedState(call[c].unwritten.failed)]
           /\ UNCHANGED <<resolved, refusals>>
        \/ /\ Line(FALSE)
           /\ call' = [call EXCEPT ![c].next = i + 1]
  BY DEF JournalsLine
<1>4. /\ call[c].unwritten.records \in Seq(R) /\ call[c].unwritten.records # <<>>
      /\ call[c].base \in Object /\ call[c].unwritten \in UnwrittenOf(R)
      /\ call[c] \in CallOf(R) /\ Trusted(call[c].unwritten, log, open)
  BY <1>2, AtWork DEF Working
<1>5. i \in DOMAIN call[c].unwritten.records
  <2>1. call[c].next \in Nat \ {0}
    BY <1>4, Fields
  <2>2. i \in call[c].next..Len(call[c].unwritten.records)
    BY DEF ToJournal
  <2>3. Len(call[c].unwritten.records) \in Nat
    BY <1>4
  <2>4. i \in 1..Len(call[c].unwritten.records)
    BY <2>1, <2>2, <2>3
  <2> QED
    BY <1>4, <2>4
<1> DEFINE r == call[c].unwritten.records[i]
           e == ExhaustedState(call[c].unwritten.failed)
           u == [call[c].unwritten EXCEPT !.journaled = [@ EXCEPT ![r.id] = e]]
           w == [call[c] EXCEPT !.next = i + 1, !.unwritten = u]
           x == [call[c] EXCEPT !.next = i + 1]
<1>6. /\ r \in R /\ i \in Nat
      /\ e \in {"retrying", "exhausted"}
      /\ u \in UnwrittenOf(R) /\ u.records = call[c].unwritten.records
      /\ u.failed = call[c].unwritten.failed
      /\ u.journaled = [call[c].unwritten.journaled EXCEPT ![r.id] = e]
      /\ w \in CallOf(R) /\ w.unwritten = u /\ w.at = "journaling" /\ w.next = i + 1
      /\ w.base = call[c].base /\ w.before = call[c].before /\ w.written = call[c].written
      /\ x \in CallOf(R) /\ x.unwritten = call[c].unwritten /\ x.at = "journaling"
      /\ x.next = i + 1
      /\ x.base = call[c].base /\ x.before = call[c].before /\ x.written = call[c].written
      /\ [call EXCEPT ![c].next = i + 1, ![c].unwritten.journaled[r.id] = e] = [call EXCEPT ![c] = w]
      /\ [call EXCEPT ![c].next = i + 1] = [call EXCEPT ![c] = x]
  BY <1>2, <1>5, JournalsFields, Zenon
<1>7. CASE /\ JournalsUnresolved(r) /\ UNCHANGED <<resolved, refusals>>
           /\ call' = [call EXCEPT ![c] = w]
  <2> HIDE DEF w, u, e
  <2>1. /\ Files(R, log', open', resolved') /\ Keeps(log, open, log, open')
        /\ Contains(open', r) \/ Contains(log, r)
    <3> HIDE DEF r
    <3> QED
      BY <1>2, <1>6, <1>7, FilesUnresolved
  <2>2. Parts(R, call, session, sitting, stamped, log, open')
    BY <1>2, <2>1, PartsCarry
  <2>3. Trusted(u, log, open')
    <3>1. Trusted(call[c].unwritten, log, open')
      BY <1>4, <2>1, TrustCarries
    <3>2. call[c].unwritten.journaled \in [Ids -> JournalStates]
      BY <1>4, Fields
    <3>3. ASSUME NEW k \in DOMAIN u.records, u.journaled[u.records[k].id] # "none"
          PROVE  Contains(open', u.records[k]) \/ Contains(log, u.records[k])
      <4>1. u.records[k] \in R
        BY <1>4, <1>6, <3>3
      <4>2. CASE u.records[k].id = r.id
        <5>1. u.records[k] = r
          BY <1>2, <1>6, <4>1, <4>2 DEF Built
        <5> QED
          BY <2>1, <5>1
      <4>3. CASE u.records[k].id # r.id
        <5>1. u.journaled[u.records[k].id] = call[c].unwritten.journaled[u.records[k].id]
          <6>1. u.records[k].id \in Ids
            BY <4>1, RecordOfR
          <6> HIDE DEF r
          <6> QED
            BY <1>6, <3>2, <4>3, <6>1
        <5> QED
          BY <1>6, <3>1, <3>3, <5>1 DEF Trusted
      <4> QED
        BY <4>2, <4>3
    <3> QED
      BY <3>3 DEF Trusted
  <2>4. CallFits(w, log, open')
    BY <1>4, <1>6, <2>3 DEF CallFits, Working
  <2>5. Parts(R, call', session', sitting', stamped', log, open')
    BY <1>2, <1>6, <1>7, <2>2, <2>4, PartsAt
  <2>6. Counters'
    BY <1>1, <1>2, <1>7 DEF Of, Counters
  <2> QED
    BY <1>1, <1>2, <2>1, <2>5, <2>6, FilesMove
<1>8. CASE Line(FALSE) /\ call' = [call EXCEPT ![c] = x]
  <2> HIDE DEF x
  <2>1. CallFits(x, log, open)
    BY <1>4, <1>6 DEF CallFits, Working
  <2>2. Parts(R, call', session', sitting', stamped', log, open)
    BY <1>2, <1>6, <1>8, <2>1, PartsAt
  <2>3. Counters' /\ UNCHANGED <<open, resolved>>
    BY <1>1, <1>2, <1>8 DEF Of, Counters, Line
  <2> QED
    BY <1>1, <1>2, <2>2, <2>3, OnlyParts
<1>9. \/ JournalsUnresolved(r) /\ UNCHANGED <<resolved, refusals>> /\ call' = [call EXCEPT ![c] = w]
      \/ Line(FALSE) /\ call' = [call EXCEPT ![c] = x]
  <2>1. \/ /\ JournalsUnresolved(r)
           /\ call' = [call EXCEPT ![c].next = i + 1, ![c].unwritten.journaled[r.id] = e]
           /\ UNCHANGED <<resolved, refusals>>
        \/ /\ Line(FALSE)
           /\ call' = [call EXCEPT ![c].next = i + 1]
    BY <1>3
  <2>2. /\ [call EXCEPT ![c].next = i + 1, ![c].unwritten.journaled[r.id] = e] = [call EXCEPT ![c] = w]
        /\ [call EXCEPT ![c].next = i + 1] = [call EXCEPT ![c] = x]
    BY <1>6
  <2> HIDE DEF r, e, w, x
  <2> QED
    BY <2>1, <2>2
<1> QED
  BY <1>7, <1>8, <1>9

LEMMA GivesUpKeepsJ ==
  ASSUME JInv, NEW c \in Calls, GivesUp(c)
  PROVE  JInv'
<1>1. PICK R \in SUBSET Record : Of(R)
  BY DEF JInv
<1> DEFINE s == [record |-> call[c].written, unwritten |-> call[c].unwritten]
<1>2. /\ UNCHANGED <<log, open, resolved, pass, up, minted, counted>> /\ Free # {}
      /\ call[c].at = "journaling"
      /\ \/ Return(c, call[c].base, s)
         \/ Return(c, Fresh, s)
  BY DEF GivesUp
<1>3. Parts(R, call, session, sitting, stamped, log, open)
  BY <1>1 DEF Of
<1>4. /\ s \in SessionOf(R) /\ s.unwritten = call[c].unwritten
      /\ Trusted(call[c].unwritten, log, open) /\ call[c].base \in Object
  <2>1. /\ call[c] \in CallOf(R) /\ Trusted(call[c].unwritten, log, open) /\ call[c].base \in Object
    BY <1>2, <1>3, AtWork DEF Working
  <2> QED
    BY <2>1, Fields DEF SessionOf
<1>5. Fresh \in Object
  BY <1>2, FreshIsFree
<1> HIDE DEF s
<1>6. Parts(R, call', session', sitting', stamped', log, open)
  BY <1>2, <1>3, <1>4, <1>5, ReturnParts
<1>7. Counters'
  BY <1>1, <1>2 DEF Of, Counters, counted
<1> QED
  BY <1>1, <1>2, <1>6, <1>7, OnlyParts

-----------------------------------------------------------------------------
(* The holder, the process and reconciliation. *)

LEMMA EntersKeepsJ ==
  ASSUME JInv, Enters
  PROVE  JInv'
<1>1. PICK R \in SUBSET Record : Of(R)
  BY DEF JInv
<1>2. /\ UNCHANGED <<log, open, resolved, stamped, pass, up, minted, counted>> /\ call' = call
      /\ sitting' \in Object /\ session' = Collected([session EXCEPT ![sitting'] = Unrecorded])
  BY FreshIsFree DEF Enters, durable
<1> DEFINE heap == [session EXCEPT ![sitting'] = Unrecorded]
<1>3. Parts(R, call, session, sitting, stamped, log, open)
  BY <1>1 DEF Of
<1>4. heap \in [Object -> SessionOf(R)] /\ \A o \in Object : Trusted(heap[o].unwritten, log, open)
  BY <1>3, Empties, NothingTrusted DEF Parts
<1>5. session' = Collected(heap)
  BY <1>2
<1> HIDE DEF heap
<1>6. /\ session' \in [Object -> SessionOf(R)]
      /\ \A o \in Object : Trusted(session'[o].unwritten, log, open)
  BY <1>4, <1>5, CollectedParts
<1>7. Parts(R, call', session', sitting', stamped', log, open)
  BY <1>2, <1>3, <1>6 DEF Parts
<1>8. Counters'
  BY <1>1, <1>2 DEF Of, Counters, counted
<1> QED
  BY <1>1, <1>2, <1>7, <1>8, OnlyParts

LEMMA ExitsKeepsJ ==
  ASSUME JInv, Exits
  PROVE  JInv'
<1>1. PICK R \in SUBSET Record : Of(R)
  BY DEF JInv
<1>2. /\ UNCHANGED <<log, open, resolved, stamped, pass, up, minted, counted>> /\ call' = call
      /\ sitting' = NoObject /\ session' = Collected(session)
  BY DEF Exits, durable
<1>3. Parts(R, call, session, sitting, stamped, log, open)
  BY <1>1 DEF Of
<1>4. /\ session' \in [Object -> SessionOf(R)]
      /\ \A o \in Object : Trusted(session'[o].unwritten, log, open)
  BY <1>2, <1>3, CollectedParts DEF Parts
<1>5. Parts(R, call', session', sitting', stamped', log, open)
  BY <1>2, <1>3, <1>4 DEF Parts
<1>6. Counters'
  BY <1>1, <1>2 DEF Of, Counters, counted
<1> QED
  BY <1>1, <1>2, <1>5, <1>6, OnlyParts

LEMMA CrashesKeepsJ ==
  ASSUME JInv, Crashes
  PROVE  JInv'
<1>1. PICK R \in SUBSET Record : Of(R)
  BY DEF JInv
<1>2. /\ UNCHANGED <<log, open, resolved, stamped, minted, failures, refusals>>
      /\ crashes' = crashes + 1 /\ up' = FALSE /\ sitting' = NoObject
      /\ session' = [o \in Object |-> Unrecorded] /\ call' = [k \in Calls |-> Idle]
      /\ pass' = NoPass
  BY DEF Crashes, durable
<1>3. Parts(R, call', session', sitting', stamped', log, open)
  BY <1>1, <1>2, Empties, NothingTrusted DEF Of, Parts
<1>4. Counters'
  <2>1. up' \in BOOLEAN
    BY <1>2
  <2>2. /\ minted' \in 0..MaxRecords
        /\ failures' \in Nat /\ refusals' \in Nat /\ crashes' \in Nat
    BY <1>1, <1>2, Constants DEF Of, Counters
  <2> QED
    BY <2>1, <2>2 DEF Counters
<1>5. Passes(R, pass', log)
  BY <1>2 DEF Passes, NoPass
<1>6. Of(R)'
  BY <1>1, <1>2, <1>3, <1>4, <1>5 DEF Of
<1> QED
  BY <1>6 DEF JInv

\* A step of reconciliation, which leaves calls and sitting alone.
LEMMA PassMoves ==
  ASSUME NEW R \in SUBSET Record, Of(R), UNCHANGED <<stamped, sitting, session, call, minted>>,
         Counters', Files(R, log', open', resolved'), Keeps(log, open, log', open'),
         Passes(R, pass', log')
  PROVE  JInv'
<1>1. Parts(R, call, session, sitting, stamped, log', open')
  BY PartsCarry DEF Of
<1>2. Of(R)'
  BY <1>1 DEF Of
<1> QED
  BY <1>2 DEF JInv

LEMMA PassTypes ==
  ASSUME NEW R \in SUBSET Record, Of(R)
  PROVE  /\ pass \in [at : {"checking", "appending", "marking"}, todo : Seq(R), held : SUBSET Ids]
         /\ pass.at \in {"checking", "appending", "marking"} /\ pass.todo \in Seq(R)
         /\ pass.held \subseteq Ids
         /\ Counters /\ Files(R, log, open, resolved) /\ Keeps(log, open, log, open)
         /\ pass.todo # <<>> =>
              Write \in R /\ Write = pass.todo[1] /\ Tail(pass.todo) \in Seq(R) /\ Write.session \in Ids
<1>1. /\ pass \in [at : {"checking", "appending", "marking"}, todo : Seq(R), held : SUBSET Ids]
      /\ Counters /\ Files(R, log, open, resolved)
  BY DEF Of, Passes
<1>2. /\ pass.at \in {"checking", "appending", "marking"} /\ pass.todo \in Seq(R)
      /\ pass.held \subseteq Ids
  BY <1>1
<1>3. pass.todo # <<>> =>
        Write \in R /\ Write = pass.todo[1] /\ Tail(pass.todo) \in Seq(R)
  BY <1>2, Tailed DEF Write
<1> QED
  BY <1>1, <1>2, <1>3, RecordOfR DEF Keeps

\* The next write of a pass that is done with the one it had.
LEMMA NextPass ==
  ASSUME NEW R \in SUBSET Record, Of(R), pass.todo # <<>>, NEW lg, Done \/ Holds
  PROVE  Passes(R, pass', lg) /\ pass'.at = "checking" /\ pass'.todo = Tail(pass.todo)
<1>1. /\ pass \in [at : {"checking", "appending", "marking"}, todo : Seq(R), held : SUBSET Ids]
      /\ Tail(pass.todo) \in Seq(R) /\ Write.session \in Ids /\ pass.held \subseteq Ids
  BY PassTypes
<1>2. CASE Done
  BY <1>1, <1>2 DEF Done, Passes
<1>3. CASE Holds
  <2>1. pass.held \cup {Write.session} \in SUBSET Ids
    BY <1>1
  <2> QED
    BY <1>1, <1>3, <2>1 DEF Holds, Passes
<1> QED
  BY <1>2, <1>3

LEMMA RestartsKeepsJ ==
  ASSUME JInv, Restarts
  PROVE  JInv'
<1>1. PICK R \in SUBSET Record : Of(R)
  BY DEF JInv
<1>2. /\ UNCHANGED <<log, open, resolved, stamped, sitting, session, call, minted>> /\ up' = TRUE
  BY DEF Restarts, durable
<1>3. Passes(R, pass', log) /\ Counters'
  <2>1. CASE pass' = [NoPass EXCEPT !.todo = open] /\ UNCHANGED counted
    <3>1. open \in Seq(R)
      BY <1>1 DEF Of, Files
    <3> QED
      BY <1>1, <1>2, <2>1, <3>1 DEF Of, Passes, NoPass, Counters, counted
  <2>2. CASE pass' = NoPass /\ Fails
    BY <1>1, <1>2, <2>2 DEF Of, Passes, NoPass, Counters, Fails
  <2> QED
    BY <2>1, <2>2 DEF Restarts
<1> QED
  BY <1>1, <1>2, <1>3, PassTypes, PassMoves

LEMMA ReconcileSkipsKeepsJ ==
  ASSUME JInv, ReconcileSkips
  PROVE  JInv'
<1>1. PICK R \in SUBSET Record : Of(R)
  BY DEF JInv
<1>2. UNCHANGED <<log, open, resolved, stamped, sitting, session, call, up, minted, counted>>
  BY DEF ReconcileSkips, durable
<1>3. Passes(R, pass', log) /\ Counters'
  BY <1>1, <1>2, NextPass DEF ReconcileSkips, Reconciling, Of, Counters, counted
<1> QED
  BY <1>1, <1>2, <1>3, PassTypes, PassMoves

LEMMA ReconcileChecksKeepsJ ==
  ASSUME JInv, ReconcileChecks
  PROVE  JInv'
<1>1. PICK R \in SUBSET Record : Of(R)
  BY DEF JInv
<1>2. UNCHANGED <<log, open, resolved, stamped, sitting, session, call, up, minted>>
  BY DEF ReconcileChecks, durable
<1>3. Passes(R, pass', log) /\ Counters'
  <2>1. CASE /\ pass' = [pass EXCEPT !.at = IF InLog(Write) THEN "marking" ELSE "appending"]
             /\ UNCHANGED counted
    <3>1. Write = pass.todo[1]
      BY <1>1, PassTypes DEF ReconcileChecks, Reconciling
    <3>2. Passes(R, pass', log)
      BY <1>1, <2>1, <3>1, PassTypes DEF Passes, InLog
    <3> QED
      BY <1>1, <1>2, <2>1, <3>2 DEF Of, Counters, counted
  <2>2. CASE Holds /\ Fails
    BY <1>1, <1>2, <2>2, NextPass DEF ReconcileChecks, Reconciling, Of, Counters, Fails
  <2> QED
    BY <2>1, <2>2 DEF ReconcileChecks
<1> QED
  BY <1>1, <1>2, <1>3, PassTypes, PassMoves

LEMMA ReconcileAppendsKeepsJ ==
  ASSUME JInv, ReconcileAppends
  PROVE  JInv'
<1>1. PICK R \in SUBSET Record : Of(R)
  BY DEF JInv
<1>2. /\ UNCHANGED <<open, resolved, stamped, sitting, session, call, up, minted>>
      /\ pass.todo # <<>> /\ Write \in R /\ Write = pass.todo[1]
  BY <1>1, PassTypes DEF ReconcileAppends, Reconciling
<1>3. CASE log' = Append(log, Write)
  <2>1. /\ Files(R, log', open, resolved) /\ Contains(log', Write) /\ Keeps(log, open, log', open)
    BY <1>1, <1>2, <1>3, FilesAppend DEF Of
  <2>2. Passes(R, pass', log') /\ Counters'
    <3>1. CASE pass' = [pass EXCEPT !.at = "marking"] /\ UNCHANGED counted
      <4>1. Passes(R, pass', log')
        BY <1>1, <1>2, <2>1, <3>1, PassTypes DEF Passes
      <4> QED
        BY <1>1, <1>2, <3>1, <4>1 DEF Of, Counters, counted
    <3>2. CASE Holds /\ Fails
      BY <1>1, <1>2, <3>2, NextPass DEF Of, Counters, Fails
    <3>3. \/ pass' = [pass EXCEPT !.at = "marking"] /\ UNCHANGED counted
          \/ Holds /\ Fails
      BY DEF ReconcileAppends
    <3> QED
      BY <3>1, <3>2, <3>3
  <2> QED
    BY <1>1, <1>2, <2>1, <2>2, PassMoves
<1>4. CASE log' = log /\ Holds /\ Fails
  <2>1. Passes(R, pass', log') /\ Counters'
    BY <1>1, <1>2, <1>4, NextPass DEF Of, Counters, Fails
  <2> QED
    BY <1>1, <1>2, <1>4, <2>1, PassTypes, PassMoves
<1> QED
  BY <1>3, <1>4 DEF ReconcileAppends

LEMMA ReconcileMarksKeepsJ ==
  ASSUME JInv, ReconcileMarks
  PROVE  JInv'
<1>1. PICK R \in SUBSET Record : Of(R)
  BY DEF JInv
<1>2. /\ UNCHANGED <<log, stamped, sitting, session, call, up, minted, failures, crashes>>
      /\ pass.todo # <<>> /\ Write \in R /\ Write = pass.todo[1] /\ pass.at = "marking"
      /\ Line(JournalsResolved(Write)) /\ Done
  BY <1>1, PassTypes DEF ReconcileMarks, Reconciling
<1>3. Contains(log, Write)
  BY <1>1, <1>2 DEF Of, Passes
<1>4. Files(R, log', open', resolved') /\ Keeps(log, open, log, open') /\ Counters'
  BY <1>1, <1>2, <1>3, FilesResolved DEF Of
<1>5. Passes(R, pass', log)
  BY <1>1, <1>2, NextPass
<1> QED
  BY <1>1, <1>2, <1>4, <1>5, PassMoves

LEMMA StepKeepsJ == JInv /\ [Next]_vars => JInv'
<1> SUFFICES ASSUME JInv, [Next]_vars PROVE JInv'
  OBVIOUS
<1>1. ASSUME NEW c \in Calls, Opens(c) PROVE JInv'
  BY <1>1, OpensKeepsJ
<1>2. ASSUME NEW c \in Calls, KeepsGoing(c) PROVE JInv'
  BY <1>2, KeepsGoingKeepsJ
<1>3. ASSUME NEW c \in Calls, Extends(c) PROVE JInv'
  BY <1>3, ExtendsNothingKeepsJ, ExtendsGrownKeepsJ, ExtendsSameKeepsJ, ExtendsUnrecordedKeepsJ
     DEF Extends
<1>4. ASSUME NEW c \in Calls, Checks(c) PROVE JInv'
  BY <1>4, ChecksKeepsJ
<1>5. ASSUME NEW c \in Calls, Appends(c) PROVE JInv'
  BY <1>5, AppendsKeepsJ
<1>6. ASSUME NEW c \in Calls, MarksResolved(c) PROVE JInv'
  BY <1>6, MarksKeepsJ
<1>7. ASSUME NEW c \in Calls, JournalsLine(c) PROVE JInv'
  BY <1>7, JournalsLineKeepsJ
<1>8. ASSUME NEW c \in Calls, GivesUp(c) PROVE JInv'
  BY <1>8, GivesUpKeepsJ
<1>9. CASE UNCHANGED vars
  <2>1. PICK R \in SUBSET Record : Of(R)
    BY DEF JInv
  <2>2. Of(R)'
    BY <1>9, <2>1 DEF vars, Of, Counters
  <2> QED
    BY <2>2 DEF JInv
<1> QED
  BY <1>1, <1>2, <1>3, <1>4, <1>5, <1>6, <1>7, <1>8, <1>9, EntersKeepsJ, ExitsKeepsJ, CrashesKeepsJ,
     RestartsKeepsJ, ReconcileSkipsKeepsJ, ReconcileChecksKeepsJ, ReconcileAppendsKeepsJ,
     ReconcileMarksKeepsJ
  DEF Next

\* JInv holds at first and after every step, of calls that overlap too.
THEOREM JournalInvariance == Spec => []JInv
<1>1. Init => JInv
  BY JInitially
<1>2. JInv /\ [Next]_vars => JInv'
  BY StepKeepsJ
<1> QED
  BY <1>1, <1>2, PTL DEF Spec

\* Whatever overlaps, fails, is refused or crashes, the state keeps its types.
THEOREM TypeCorrect == Spec => []TypeOK
<1>1. JInv => TypeOK
  <2> SUFFICES ASSUME JInv PROVE TypeOK
    OBVIOUS
  <2>1. PICK R \in SUBSET Record : Of(R)
    BY DEF JInv
  <2>2. UnwrittenOf(R) \subseteq Unwritten
    <3>1. Seq(R) \subseteq Seq(Record)
      BY SeqGrows
    <3>2. JournaledOf(R) \subseteq [Ids -> {"none", "retrying", "exhausted"}]
      BY DEF JournaledOf, JournalStates
    <3> QED
      BY <3>1, <3>2 DEF UnwrittenOf, Unwritten
  <2>3. log \in Seq(Record) /\ open \in Seq(Record) /\ resolved \subseteq Ids /\ stamped \subseteq Ids
    BY <2>1, SeqGrows DEF Of, Files, Parts
  <2>4. session \in [Object -> [record : Record \cup {NoRecord}, unwritten : Unwritten]]
    <3>1. SessionOf(R) \subseteq [record : Record \cup {NoRecord}, unwritten : Unwritten]
      BY <2>2 DEF SessionOf
    <3> QED
      BY <2>1, <3>1 DEF Of, Parts
  <2>5. call \in [Calls ->
          [at : {"idle", "extending", "checking", "appending", "marking", "journaling"},
           before : Object \cup {NoObject}, base : Object \cup {NoObject},
           written : Record \cup {NoRecord}, unwritten : Unwritten, next : Nat]]
    <3>1. /\ R \cup {NoRecord} \subseteq Record \cup {NoRecord} /\ Nat \ {0} \subseteq Nat
          /\ Working \cup {"idle", "extending"}
               = {"idle", "extending", "checking", "appending", "marking", "journaling"}
      BY DEF Working
    <3>2. CallOf(R) \subseteq
            [at : {"idle", "extending", "checking", "appending", "marking", "journaling"},
             before : Object \cup {NoObject}, base : Object \cup {NoObject},
             written : Record \cup {NoRecord}, unwritten : Unwritten, next : Nat]
      BY <2>2, <3>1 DEF CallOf
    <3> QED
      BY <2>1, <3>2 DEF Of, Parts
  <2>6. pass \in [at : {"checking", "appending", "marking"}, todo : Seq(Record), held : SUBSET Ids]
    BY <2>1, SeqGrows DEF Of, Passes
  <2>7. /\ sitting \in Object \cup {NoObject} /\ up \in BOOLEAN
        /\ minted \in Nat /\ failures \in Nat /\ refusals \in Nat /\ crashes \in Nat
    BY <2>1, Constants DEF Of, Parts, Counters
  <2> QED
    BY <2>3, <2>4, <2>5, <2>6, <2>7 DEF TypeOK
<1> QED
  BY <1>1, JournalInvariance, PTL

\* What the journal marks resolved is in the log, and what a session believes journaled a restart
\* finds, whatever overlaps, fails, is refused or crashes.
THEOREM JournalHolds == Spec => []JournalIsTrue
<1>1. JInv => JournalIsTrue
  <2> SUFFICES ASSUME JInv PROVE JournalIsTrue
    OBVIOUS
  <2>1. PICK R \in SUBSET Record : Of(R)
    BY DEF JInv
  <2>2. \A id \in resolved : \E i \in DOMAIN log : log[i].id = id
    BY <2>1 DEF Of, Files
  <2>3. ASSUME NEW o \in Object, NEW r \in Record, Contains(session[o].unwritten.records, r),
               session[o].unwritten.journaled[r.id] # "none"
        PROVE  Contains(open, r) \/ InLog(r)
    <3>1. session[o].unwritten.records \in Seq(R) /\ Trusted(session[o].unwritten, log, open)
      BY <2>1, Fields DEF Of, Parts
    <3>2. PICK i \in DOMAIN session[o].unwritten.records : session[o].unwritten.records[i] = r
      BY <2>3, <3>1 DEF Contains
    <3> QED
      BY <2>3, <3>1, <3>2 DEF Trusted, InLog
  <2> QED
    BY <2>2, <2>3 DEF JournalIsTrue
<1> QED
  BY <1>1, JournalInvariance, PTL

-----------------------------------------------------------------------------
(* The lines. *)

LEMMA LineWorking ==
  ASSUME NEW cl, NEW heap, NEW k \in Calls, cl[k].at \in Working,
         \A j \in Calls : cl[j].at \in Working /\ cl[j].base = cl[k].base => j = k
  PROVE  LineOf(cl, heap, cl[k].base) = Held(cl[k])
<1> DEFINE P(j) == cl[j].at \in Working /\ cl[j].base = cl[k].base
<1>1. P(k) /\ \A j \in Calls : P(j) => j = k
  OBVIOUS
<1>2. (CHOOSE j \in Calls : P(j)) = k
  BY <1>1, Zenon
<1> QED
  BY <1>1, <1>2, Zenon DEF LineOf

LEMMA LineElsewhere ==
  ASSUME NEW cl, NEW heap, NEW o,
         \A k \in Calls : cl[k].at \in Working => cl[k].base # o
  PROVE  /\ (\E k \in Calls : cl[k].at \in Working /\ cl[k].before = o)
              => LineOf(cl, heap, o) = Unrecorded
         /\ (\A k \in Calls : cl[k].at \in Working => cl[k].before # o)
              => LineOf(cl, heap, o) = heap[o]
BY Zenon DEF LineOf

LEMMA HeldTypes ==
  ASSUME NEW R, NEW w \in CallOf(R)
  PROVE  Held(w) \in SessionOf(R) /\ Held(w).record = w.written /\ Held(w).unwritten = w.unwritten
BY Fields DEF Held, SessionOf

LEMMA LineTypes ==
  ASSUME NEW R, NEW cl \in [Calls -> CallOf(R)], NEW heap \in [Object -> SessionOf(R)],
         NEW o \in Object
  PROVE  LineOf(cl, heap, o) \in SessionOf(R)
<1>1. CASE \E k \in Calls : cl[k].at \in Working /\ cl[k].base = o
  <2> DEFINE k == CHOOSE k \in Calls : cl[k].at \in Working /\ cl[k].base = o
  <2>1. k \in Calls
    BY <1>1
  <2>2. LineOf(cl, heap, o) = Held(cl[k])
    BY <1>1 DEF LineOf
  <2> HIDE DEF k
  <2> QED
    BY <2>1, <2>2, HeldTypes
<1>2. CASE ~(\E k \in Calls : cl[k].at \in Working /\ cl[k].base = o)
  <2>1. LineOf(cl, heap, o) \in {Unrecorded, heap[o]}
    BY <1>2, Zenon DEF LineOf
  <2> QED
    BY <2>1, Empties
<1> QED
  BY <1>1, <1>2

\* A step that leaves the line of object s to t, where it is x: others stay or go.
Moves(L, L2, s, t, x) ==
  \A o \in Object :
    L2[o] = Unrecorded \/ (o = t /\ L2[o] = x) \/ (o \notin {s, t} /\ L2[o] = L[o])

\* What Return and Flush have in common: of the objects still referenced, only t has changed.
HeapMoves(t, x) ==
  \A o \in Object :
    session'[o] = IF o \in Referenced(sitting', call')
                  THEN IF o = t THEN x ELSE session[o]
                  ELSE Unrecorded

LEMMA CollectedMoves ==
  ASSUME NEW R, session \in [Object -> SessionOf(R)], NEW t \in Object, NEW x,
         session' = Collected([session EXCEPT ![t] = x])
  PROVE  HeapMoves(t, x)
BY DEF Collected, HeapMoves

\* The sitting of a call under way, where it began.
Source(c) == IF call[c].at = "extending" THEN call[c].before ELSE call[c].base

\* Where the line a call moves comes from and goes to: nobody else works on either; and if they
\* are two objects, the call has it in its hands and the second is new.
Way(c, src, t) ==
  /\ src \in Object /\ t \in Object
  /\ \A k \in Calls : k # c /\ call[k].at \in Working => call[k].base \notin {src, t}
  /\ call[c].at \in Working => call[c].base = src
  /\ t = src \/ (call[c].at # "idle" /\ src = Source(c) /\ t \notin Referenced(sitting, call))

\* What of a state these proofs need of the calls.
LEMMA CallFacts ==
  ASSUME NEW R, Parts(R, call, session, sitting, stamped, log, open), NEW k \in Calls
  PROVE  /\ call[k].at \in Working \cup {"idle", "extending"}
         /\ call[k].at = "idle" => call[k] = Idle /\ call[k].before = NoObject /\ call[k].base = NoObject
         /\ call[k].at = "extending" =>
              /\ call[k].before \in Object /\ call[k].base = NoObject
              /\ call[k].before \notin {NoObject, call[k].base}
         /\ call[k].at \in Working => call[k].base \in Object
         /\ call[k].before \in Object \cup {NoObject}
         /\ NoObject \notin Object
<1>1. call[k] \in CallOf(R) /\ CallFits(call[k], log, open)
  BY DEF Parts
<1>2. call[k].at \in Working \cup {"idle", "extending"} /\ call[k].before \in Object \cup {NoObject}
  BY <1>1, Fields
<1>3. NoObject \notin Object /\ Idle.before = NoObject /\ Idle.base = NoObject
  BY Constants, Empties
<1>4. call[k].at = "idle" => call[k] = Idle
  BY <1>1 DEF CallFits
<1>5. call[k].at = "extending" => call[k].before \in Object /\ call[k].base = NoObject
  BY <1>1 DEF CallFits
<1>6. call[k].at \in Working => call[k].base \in Object
  BY <1>1 DEF CallFits
<1> QED
  BY <1>2, <1>3, <1>4, <1>5, <1>6

LEMMA AtStates == "idle" \notin Working /\ "extending" \notin Working
BY DEF Working

LEMMA LineAt ==
  ASSUME NEW o \in Object
  PROVE  line[o] = LineOf(call, session, o) /\ line'[o] = LineOf(call', session', o)
BY DEF line

\* A call that grows an object is the only one under way.
LEMMA GrowsAlone ==
  ASSUME NEW R, Parts(R, call, session, sitting, stamped, log, open),
         Shape(sitting, session, call), NEW c \in Calls, call[c].at # "idle",
         NEW k \in Calls, k # c
  PROVE  call[k].before \in {NoObject, call[k].base} /\ call[k].at # "extending"
<1>1. call[k].before \notin {NoObject, call[k].base} => call[c] = Idle
  BY DEF Shape
<1>2. Idle.at = "idle"
  BY Empties
<1> QED
  BY <1>1, <1>2, CallFacts

\* What a call has left behind is not referenced once it has returned.
LEMMA LeftBehind ==
  ASSUME NEW R, Parts(R, call, session, sitting, stamped, log, open),
         Shape(sitting, session, call), NEW c \in Calls, NEW src, NEW t, Way(c, src, t),
         call' = [call EXCEPT ![c] = Idle],
         sitting' = IF t = call[c].before THEN sitting ELSE t
  PROVE  /\ t # src => src \notin Referenced(sitting', call')
         /\ call[c].at \in Working /\ call[c].before \notin {NoObject, src} =>
              call[c].before \notin Referenced(sitting', call')
<1>1. call \in [Calls -> CallOf(R)]
  BY DEF Parts
<1>2. \A k \in Calls : call'[k] = IF k = c THEN Idle ELSE call[k]
  BY <1>1
<1>3. Idle.before = NoObject /\ Idle.base = NoObject
  BY Empties
<1>4. src \in Object /\ t \in Object /\ NoObject \notin Object
  BY CallFacts DEF Way
<1>5. ASSUME t # src PROVE src \notin Referenced(sitting', call')
  <2>1. call[c].at # "idle" /\ src = Source(c) /\ t \notin Referenced(sitting, call)
    BY <1>5 DEF Way
  <2>2. t # call[c].before
    BY <2>1 DEF Referenced
  <2>3. sitting' # src
    BY <1>5, <2>2
  <2>4. ASSUME NEW k \in Calls PROVE src \notin {call'[k].before, call'[k].base}
    <3>1. CASE k = c
      BY <1>2, <1>3, <1>4, <3>1
    <3>2. CASE k # c
      <4>1. call[k].before \in {NoObject, call[k].base} /\ call[k].at # "extending"
        BY <2>1, <3>2, GrowsAlone
      <4>2. call[k].base # src
        <5>1. CASE call[k].at \in Working
          BY <3>2, <5>1 DEF Way
        <5>2. CASE call[k].at = "idle"
          BY <1>4, <5>2, CallFacts
        <5> QED
          BY <4>1, <5>1, <5>2, CallFacts
      <4> QED
        BY <1>2, <1>4, <3>2, <4>1, <4>2
    <3> QED
      BY <3>1, <3>2
  <2> QED
    BY <2>3, <2>4 DEF Referenced
<1>6. ASSUME call[c].at \in Working, call[c].before \notin {NoObject, src}
      PROVE  call[c].before \notin Referenced(sitting', call')
  <2>1. call[c].base = src
    BY <1>6 DEF Way
  <2>2. \A k \in Calls : k # c => call[k] = Idle
    BY <1>6, <2>1 DEF Shape
  <2>3. t # call[c].before
    BY <1>6 DEF Way, Referenced
  <2>4. sitting' # call[c].before
    BY <2>3
  <2>5. \A k \in Calls : call'[k] = Idle
    BY <1>2, <2>2
  <2> QED
    BY <1>3, <1>6, <2>4, <2>5 DEF Referenced
<1> QED
  BY <1>5, <1>6

LEMMA ReturnMoves ==
  ASSUME NEW R, Parts(R, call, session, sitting, stamped, log, open),
         Shape(sitting, session, call), NEW c \in Calls, NEW src, NEW t, NEW x,
         Way(c, src, t), Return(c, t, x)
  PROVE  Shape(sitting', session', call') /\ Moves(line, line', src, t, x)
<1>1. call \in [Calls -> CallOf(R)] /\ session \in [Object -> SessionOf(R)]
  BY DEF Parts
<1>2. /\ call' = [call EXCEPT ![c] = Idle]
      /\ sitting' = IF t = call[c].before THEN sitting ELSE t
      /\ HeapMoves(t, x)
  <2>1. session' = Collected([session EXCEPT ![t] = x]) /\ t \in Object
    BY DEF Return, Way
  <2> QED
    BY <1>1, <2>1, CollectedMoves DEF Return
<1>3. \A k \in Calls : call'[k] = IF k = c THEN Idle ELSE call[k]
  BY <1>1, <1>2
<1>4. \A k \in Calls : call'[k].at \in Working => k # c /\ call'[k] = call[k]
  BY <1>3, Empties, AtStates
<1>5. /\ t # src => src \notin Referenced(sitting', call')
      /\ call[c].at \in Working /\ call[c].before \notin {NoObject, src} =>
           call[c].before \notin Referenced(sitting', call')
  BY <1>2, LeftBehind
<1>6. Shape(sitting', session', call')
  <2>1. ASSUME NEW k \in Calls, NEW j \in Calls,
               call'[k].before \notin {NoObject, call'[k].base}, j # k
        PROVE  call'[j] = Idle
    BY <1>3, <2>1, Empties DEF Shape
  <2>2. ASSUME NEW k \in Calls, NEW j \in Calls, call'[k].at \in Working, call'[j].at \in Working,
               call'[k].base = call'[j].base
        PROVE  k = j
    BY <1>4, <2>2 DEF Shape
  <2>3. \A o \in Object : o \notin Referenced(sitting', call') => session'[o] = Unrecorded
    BY <1>2 DEF HeapMoves
  <2> QED
    BY <2>1, <2>2, <2>3 DEF Shape
<1>7. ASSUME NEW o \in Object
      PROVE  \/ line'[o] = Unrecorded
             \/ o = t /\ line'[o] = x
             \/ o \notin {src, t} /\ line'[o] = line[o]
  <2>1. CASE \E k \in Calls : call'[k].at \in Working /\ call'[k].base = o
    <3>1. PICK k \in Calls : call'[k].at \in Working /\ call'[k].base = o
      BY <2>1
    <3>2. k # c /\ call'[k] = call[k]
      BY <1>4, <3>1
    <3>3. o \notin {src, t}
      BY <3>1, <3>2 DEF Way
    <3>4. LineOf(call', session', o) = Held(call[k])
      BY <1>6, <3>1, <3>2, LineWorking DEF Shape
    <3>5. LineOf(call, session, o) = Held(call[k])
      BY <3>1, <3>2, LineWorking DEF Shape
    <3> QED
      BY <3>3, <3>4, <3>5, LineAt
  <2>2. CASE \A k \in Calls : call'[k].at \in Working => call'[k].base # o
    <3>1. CASE \E k \in Calls : call'[k].at \in Working /\ call'[k].before = o
      BY <2>2, <3>1, LineElsewhere, LineAt
    <3>2. CASE \A k \in Calls : call'[k].at \in Working => call'[k].before # o
      <4>1. line'[o] = session'[o]
        BY <2>2, <3>2, LineElsewhere, LineAt
      <4>2. CASE o \in Referenced(sitting', call') /\ o # t
        <5>1. session'[o] = session[o] /\ o # src
          BY <1>2, <1>5, <4>2 DEF HeapMoves
        <5>2. ASSUME NEW k \in Calls, call[k].at \in Working
              PROVE  call[k].base # o /\ call[k].before # o
          <6>1. CASE k = c
            <7>1. call[c].base = src
              BY <5>2, <6>1 DEF Way
            <7>2. call[c].before = o => call[c].before \notin {NoObject, src}
              BY <5>1, CallFacts
            <7> QED
              BY <1>5, <4>2, <5>1, <5>2, <6>1, <7>1, <7>2
          <6>2. CASE k # c
            BY <1>3, <2>2, <3>2, <5>2, <6>2
          <6> QED
            BY <6>1, <6>2
        <5>3. line[o] = session[o]
          BY <5>2, LineElsewhere, LineAt
        <5> QED
          BY <4>1, <4>2, <5>1, <5>3
      <4>3. CASE o \notin Referenced(sitting', call') \/ o = t
        BY <1>2, <4>1, <4>3 DEF HeapMoves
      <4> QED
        BY <4>2, <4>3
    <3> QED
      BY <3>1, <3>2
  <2> QED
    BY <2>1, <2>2
<1> QED
  BY <1>6, <1>7 DEF Moves

LEMMA FlushMoves ==
  ASSUME NEW R \in SUBSET Record, Parts(R, call, session, sitting, stamped, log, open),
         Shape(sitting, session, call), NEW c \in Calls, call[c].at \notin Working,
         NEW src, NEW t, Way(c, src, t),
         NEW before \in Object \cup {NoObject}, src \in {before, t},
         NEW s \in SessionOf(R), NEW u \in UnwrittenOf(R),
         \A k \in Calls : k # c => call[k].before \in {NoObject, call[k].base},
         before \notin {NoObject, t} => \A k \in Calls : k # c => call[k] = Idle,
         Flush(c, before, t, s, u)
  PROVE  /\ Shape(sitting', session', call')
         /\ Moves(line, line', src, t, [record |-> s.record, unwritten |-> u])
<1> DEFINE x == [record |-> s.record, unwritten |-> u]
<1>1. CASE u.failed >= MaxAttempts
  <2>1. x = [s EXCEPT !.unwritten = u]
    BY DEF SessionOf
  <2>2. Return(c, t, x)
    BY <1>1, <2>1 DEF Flush
  <2> HIDE DEF x
  <2>3. Shape(sitting', session', call') /\ Moves(line, line', src, t, x)
    BY <2>2, ReturnMoves
  <2> QED
    BY <2>3 DEF x
<1>2. CASE ~(u.failed >= MaxAttempts)
  <2> DEFINE w == Flushed(before, t, s, u)
  <2>1. call' = [call EXCEPT ![c] = w] /\ sitting' = sitting /\ session' = Collected([session EXCEPT ![t] = s])
    BY <1>2 DEF Flush, Flushed
  <2>2. /\ w.at \in Working /\ w.before = before /\ w.base = t
        /\ w.written = s.record /\ w.unwritten = u /\ t \in Object
    BY FlushedFields DEF Way
  <2>3. Held(w) = x
    BY <2>2 DEF Held
  <2> HIDE DEF w, x
  <2>4. call \in [Calls -> CallOf(R)] /\ session \in [Object -> SessionOf(R)]
    BY DEF Parts
  <2>5. HeapMoves(t, s)
    BY <2>1, <2>2, <2>4, CollectedMoves
  <2>6. \A k \in Calls : call'[k] = IF k = c THEN w ELSE call[k]
    BY <2>1, <2>4
  <2>7. Shape(sitting', session', call')
    <3>1. ASSUME NEW k \in Calls, NEW j \in Calls,
                 call'[k].before \notin {NoObject, call'[k].base}, j # k
          PROVE  call'[j] = Idle
      <4>1. k = c
        BY <2>6, <3>1
      <4> QED
        BY <2>2, <2>6, <3>1, <4>1
    <3>2. ASSUME NEW k \in Calls, NEW j \in Calls, call'[k].at \in Working, call'[j].at \in Working,
                 call'[k].base = call'[j].base
          PROVE  k = j
      BY <2>2, <2>6, <3>2 DEF Shape, Way
    <3>3. \A o \in Object : o \notin Referenced(sitting', call') => session'[o] = Unrecorded
      BY <2>5 DEF HeapMoves
    <3> QED
      BY <3>1, <3>2, <3>3 DEF Shape
  <2>8. ASSUME NEW o \in Object
        PROVE  \/ line'[o] = Unrecorded
               \/ o = t /\ line'[o] = x
               \/ o \notin {src, t} /\ line'[o] = line[o]
    <3>1. CASE o = t
      <4>1. LineOf(call', session', t) = Held(w)
        BY <2>2, <2>6, <2>7, LineWorking DEF Shape
      <4> QED
        BY <2>3, <3>1, <4>1, LineAt
    <3>2. CASE o # t /\ \E k \in Calls : call'[k].at \in Working /\ call'[k].base = o
      <4>1. PICK k \in Calls : call'[k].at \in Working /\ call'[k].base = o
        BY <3>2
      <4>2. k # c /\ call'[k] = call[k]
        BY <2>2, <2>6, <3>2, <4>1
      <4>3. o \notin {src, t}
        BY <4>1, <4>2 DEF Way
      <4>4. LineOf(call', session', o) = Held(call[k])
        BY <2>7, <4>1, <4>2, LineWorking DEF Shape
      <4>5. LineOf(call, session, o) = Held(call[k])
        BY <4>1, <4>2, LineWorking DEF Shape
      <4> QED
        BY <4>3, <4>4, <4>5, LineAt
    <3>3. CASE /\ o # t
               /\ \A k \in Calls : call'[k].at \in Working => call'[k].base # o
               /\ \E k \in Calls : call'[k].at \in Working /\ call'[k].before = o
      BY <3>3, LineElsewhere, LineAt
    <3>4. CASE /\ o # t
               /\ \A k \in Calls : call'[k].at \in Working => call'[k].base # o /\ call'[k].before # o
      <4>1. line'[o] = session'[o]
        BY <3>4, LineElsewhere, LineAt
      <4>2. line[o] = session[o]
        <5>1. \A k \in Calls : call[k].at \in Working => call[k].base # o /\ call[k].before # o
          BY <2>6, <3>4
        <5> QED
          BY <5>1, LineElsewhere, LineAt
      <4>3. o # src
        BY <2>2, <2>6, <3>4
      <4> QED
        BY <2>5, <3>4, <4>1, <4>2, <4>3 DEF HeapMoves
    <3> QED
      BY <3>1, <3>2, <3>3, <3>4
  <2>9. Moves(line, line', src, t, x)
    BY <2>8 DEF Moves
  <2> QED
    BY <2>7, <2>9 DEF x
<1> QED
  BY <1>1, <1>2

\* A call that works on.
LEMMA WorksOn ==
  ASSUME Shape(sitting, session, call), NEW c \in Calls, call[c].at \in Working,
         NEW w, w.at \in Working, w.before = call[c].before, w.base = call[c].base,
         \A k \in Calls : call'[k] = IF k = c THEN w ELSE call[k],
         \A o \in Object : session'[o] = session[o], \A o \in Object : sitting' = o <=> sitting = o
  PROVE  /\ Shape(sitting', session', call')
         /\ Moves(line, line', call[c].base, call[c].base, Held(w))
<1>2. \A k \in Calls : call'[k] = IF k = c THEN w ELSE call[k]
  OBVIOUS
<1>3. \A k \in Calls :
        /\ call'[k].before = call[k].before /\ call'[k].base = call[k].base
        /\ call'[k].at \in Working <=> call[k].at \in Working
  BY <1>2
<1>4. Shape(sitting', session', call')
  <2>1. ASSUME NEW k \in Calls, NEW j \in Calls,
               call'[k].before \notin {NoObject, call'[k].base}, j # k
        PROVE  call'[j] = Idle
    <3>1. call[j] = Idle
      BY <1>3, <2>1 DEF Shape
    <3>2. j # c
      BY <3>1, Empties, AtStates
    <3> QED
      BY <1>2, <3>1, <3>2
  <2>2. ASSUME NEW k \in Calls, NEW j \in Calls, call'[k].at \in Working, call'[j].at \in Working,
               call'[k].base = call'[j].base
        PROVE  k = j
    BY <1>3, <2>2 DEF Shape
  <2>3. \A o \in Object : o \in Referenced(sitting', call') <=> o \in Referenced(sitting, call)
    BY <1>3 DEF Referenced
  <2> QED
    BY <2>1, <2>2, <2>3 DEF Shape
<1>5. ASSUME NEW o \in Object
      PROVE  \/ line'[o] = Unrecorded
             \/ o = call[c].base /\ line'[o] = Held(w)
             \/ o # call[c].base /\ line'[o] = line[o]
  <2>1. CASE o = call[c].base
    <3>1. LineOf(call', session', call'[c].base) = Held(w)
      BY <1>2, <1>4, LineWorking DEF Shape
    <3> QED
      BY <1>3, <2>1, <3>1, LineAt
  <2>2. CASE o # call[c].base /\ \E k \in Calls : call'[k].at \in Working /\ call'[k].base = o
    <3>1. PICK k \in Calls : call'[k].at \in Working /\ call'[k].base = o
      BY <2>2
    <3>2. k # c /\ call'[k] = call[k]
      BY <1>2, <1>3, <2>2, <3>1
    <3>3. LineOf(call', session', o) = Held(call[k])
      BY <1>4, <3>1, <3>2, LineWorking DEF Shape
    <3>4. LineOf(call, session, o) = Held(call[k])
      BY <3>1, <3>2, LineWorking DEF Shape
    <3> QED
      BY <2>2, <3>3, <3>4, LineAt
  <2>3. CASE /\ o # call[c].base
             /\ \A k \in Calls : call'[k].at \in Working => call'[k].base # o
    <3>1. CASE \E k \in Calls : call'[k].at \in Working /\ call'[k].before = o
      BY <2>3, <3>1, LineElsewhere, LineAt
    <3>2. CASE \A k \in Calls : call'[k].at \in Working => call'[k].before # o
      <4>1. line'[o] = session'[o]
        BY <2>3, <3>2, LineElsewhere, LineAt
      <4>2. line[o] = session[o]
        BY <1>3, <2>3, <3>2, LineElsewhere, LineAt
      <4> QED
        BY <2>3, <4>1, <4>2
    <3> QED
      BY <3>1, <3>2
  <2> QED
    BY <2>1, <2>2, <2>3
<1> QED
  BY <1>4, <1>5 DEF Moves

LEMMA WorkMoves ==
  ASSUME NEW R, Parts(R, call, session, sitting, stamped, log, open),
         Shape(sitting, session, call), NEW c \in Calls, call[c].at \in Working,
         NEW w, w.at \in Working, w.before = call[c].before, w.base = call[c].base,
         call' = [call EXCEPT ![c] = w], UNCHANGED <<session, sitting>>
  PROVE  /\ Shape(sitting', session', call')
         /\ Moves(line, line', call[c].base, call[c].base, Held(w))
<1>1. \A k \in Calls : call'[k] = IF k = c THEN w ELSE call[k]
  BY DEF Parts
<1>2. /\ \A o \in Object : session'[o] = session[o]
      /\ \A o \in Object : sitting' = o <=> sitting = o
  OBVIOUS
<1> QED
  BY <1>1, <1>2, WorksOn

\* A sitting that is entered or ends, and a call that begins to extend.
LEMMA HolderMoves ==
  ASSUME NEW R, Parts(R, call, session, sitting, stamped, log, open), Shape(sitting, session, call),
         \A k \in Calls :
           \/ call'[k] = call[k]
           \/ call[k].at \notin Working /\ call'[k].at \notin Working,
         \A o \in Object : session'[o] = session[o] \/ session'[o] = Unrecorded
  PROVE  \A o \in Object : line'[o] = line[o] \/ line'[o] = Unrecorded
<1> SUFFICES ASSUME NEW o \in Object PROVE line'[o] = line[o] \/ line'[o] = Unrecorded
  OBVIOUS
<1>1. CASE \E k \in Calls : call[k].at \in Working /\ call[k].base = o
  <2>1. PICK k \in Calls : call[k].at \in Working /\ call[k].base = o
    BY <1>1
  <2>2. call'[k] = call[k]
    BY <2>1
  <2>3. LineOf(call, session, o) = Held(call[k])
    BY <2>1, LineWorking DEF Shape
  <2>4. \A j \in Calls : call'[j].at \in Working /\ call'[j].base = call'[k].base => j = k
    BY <2>1, <2>2 DEF Shape
  <2>5. LineOf(call', session', o) = Held(call[k])
    BY <2>1, <2>2, <2>4, LineWorking
  <2> QED
    BY <2>3, <2>5, LineAt
<1>2. CASE \A k \in Calls : call[k].at \in Working => call[k].base # o
  <2>1. \A k \in Calls : call'[k].at \in Working => call[k].at \in Working /\ call'[k] = call[k]
    OBVIOUS
  <2>2. CASE \E k \in Calls : call'[k].at \in Working /\ call'[k].before = o
    BY <1>2, <2>1, <2>2, LineElsewhere, LineAt
  <2>3. CASE \A k \in Calls : call'[k].at \in Working => call'[k].before # o
    <3>1. \A k \in Calls : call[k].at \in Working => call[k].before # o
      BY <2>1, <2>3
    <3>2. line[o] = session[o] /\ line'[o] = session'[o]
      BY <1>2, <2>1, <2>3, <3>1, LineElsewhere, LineAt
    <3> QED
      BY <3>2
  <2> QED
    BY <2>2, <2>3
<1> QED
  BY <1>1, <1>2

-----------------------------------------------------------------------------
(* What is good of a line stays so. *)

\* What the files hold: records of R, each with its session.
LEMMA Holdings ==
  ASSUME NEW R \in SUBSET Record, NEW s \in Seq(R)
  PROVE  /\ DOMAIN s = 1..Len(s) /\ Len(s) \in Nat
         /\ \A n \in DOMAIN s : s[n] \in R /\ Contains(s, s[n])
         /\ \A q : Contains(s, q) => q \in R /\ \E n \in DOMAIN s : s[n] = q
<1>1. DOMAIN s = 1..Len(s) /\ Len(s) \in Nat /\ \A n \in 1..Len(s) : s[n] \in R
  OBVIOUS
<1> QED
  BY <1>1 DEF Contains

LEMMA RecordsOf ==
  ASSUME NEW R \in SUBSET Record, NEW x \in SessionOf(R)
  PROVE  /\ x.record \in R \cup {NoRecord} /\ x.unwritten \in UnwrittenOf(R)
         /\ x.unwritten.records \in Seq(R)
         /\ DOMAIN x.unwritten.records = 1..Len(x.unwritten.records)
         /\ Len(x.unwritten.records) \in Nat
         /\ \A i \in DOMAIN x.unwritten.records :
              /\ x.unwritten.records[i] \in R
              /\ Contains(x.unwritten.records, x.unwritten.records[i])
         /\ \A q : Contains(x.unwritten.records, q) =>
              q \in R /\ \E i \in DOMAIN x.unwritten.records : x.unwritten.records[i] = q
<1>1. /\ x.record \in R \cup {NoRecord} /\ x.unwritten \in UnwrittenOf(R)
      /\ x.unwritten.records \in Seq(R)
  BY Fields
<1> QED
  BY <1>1, Holdings

LEMMA UnrecordedGood ==
  ASSUME NEW R \in SUBSET Record, NEW lg, NEW op \in Seq(R), NEW marked, NEW lost
  PROVE  Good(Unrecorded, lg, op, marked, lost) /\ Untried(Unrecorded, lg) /\ Number(Unrecorded) = 0
<1>1. /\ Unrecorded.unwritten.records = <<>> /\ Unrecorded.record = NoRecord /\ DOMAIN <<>> = {}
  BY Empties
<1>2. Number(Unrecorded) = 0
  BY <1>1 DEF Number, Latest, NoRecord
<1>3. \A n \in DOMAIN op : op[n].session # 0
  BY Constants DEF Record, Ids
<1>4. Chain(Unrecorded)
  BY <1>1 DEF Chain
<1>5. Unlanded(Unrecorded, lg, op, marked) /\ Untried(Unrecorded, lg)
  BY <1>1 DEF Unlanded, Untried
<1>6. InLine(Unrecorded, lg, op)
  BY <1>1, <1>2, <1>3 DEF InLine
<1> QED
  BY <1>2, <1>4, <1>5, <1>6 DEF Good

\* Lines after a step: the one that moves is x, and the others are as good as before.
LEMMA GoodAfter ==
  ASSUME NEW R \in SUBSET Record, NEW L, NEW L2, NEW s, NEW t, NEW x, Moves(L, L2, s, t, x),
         NEW lg, NEW op \in Seq(R), NEW marked, NEW lost,
         \A o \in Object : o # s => Good(L[o], lg, op, marked, lost) /\ Untried(L[o], lg),
         Good(x, lg, op, marked, lost), Untried(x, lg)
  PROVE  \A o \in Object : Good(L2[o], lg, op, marked, lost) /\ Untried(L2[o], lg)
BY UnrecordedGood DEF Moves

LEMMA NumberTypes ==
  ASSUME NEW R \in SUBSET Record, NEW x \in SessionOf(R)
  PROVE  Number(x) = 0 \/ \E r \in R : Number(x) = r.session
<1>1. Latest(x) \in R \cup {NoRecord}
  BY LatestTypes
<1> QED
  BY <1>1, RecordOfR DEF Number

\* The line that moves keeps its session, or is the first of a new one.
SameOrNew(x, L, s, todo) ==
  \/ Number(x) = Number(L[s])
  \/ /\ \A o \in Object : Number(x) # Number(L[o])
     /\ \A n \in DOMAIN todo : todo[n].session # Number(x)

LEMMA ApartAfter ==
  ASSUME NEW R \in SUBSET Record, NEW L, NEW L2, NEW s \in Object, NEW t, NEW x,
         Moves(L, L2, s, t, x),
         NEW todo \in Seq(R), NEW todo2, Apart(L, todo),
         \A n \in DOMAIN todo2 : \E k \in DOMAIN todo : todo2[n].session = todo[k].session,
         SameOrNew(x, L, s, todo)
  PROVE  Apart(L2, todo2)
<1>1. Number(Unrecorded) = 0
  BY UnrecordedGood
<1>2. \A n \in DOMAIN todo : todo[n].session # 0
  BY Constants DEF Record, Ids
<1>3. ASSUME NEW o \in Object, NEW p \in Object, o # p, Number(L2[o]) # 0
      PROVE  Number(L2[o]) # Number(L2[p])
  <2>1. CASE o = t /\ L2[o] = x
    <3>1. CASE L2[p] = Unrecorded
      BY <1>1, <1>3, <3>1
    <3>2. CASE p \notin {s, t} /\ L2[p] = L[p]
      BY <1>3, <2>1, <3>2 DEF Apart, SameOrNew
    <3> QED
      BY <1>3, <2>1, <3>1, <3>2 DEF Moves
  <2>2. CASE o \notin {s, t} /\ L2[o] = L[o]
    <3>1. CASE L2[p] = Unrecorded
      BY <1>1, <1>3, <3>1
    <3>2. CASE p = t /\ L2[p] = x
      BY <1>3, <2>2, <3>2 DEF Apart, SameOrNew
    <3>3. CASE p \notin {s, t} /\ L2[p] = L[p]
      BY <1>3, <2>2, <3>3 DEF Apart
    <3> QED
      BY <3>1, <3>2, <3>3 DEF Moves
  <2> QED
    BY <1>1, <1>3, <2>1, <2>2 DEF Moves
<1>4. ASSUME NEW o \in Object, NEW n \in DOMAIN todo2
      PROVE  todo2[n].session # Number(L2[o])
  <2>1. PICK k \in DOMAIN todo : todo2[n].session = todo[k].session
    OBVIOUS
  <2>2. todo[k].session # 0 /\ todo[k].session # Number(x)
    BY <1>2 DEF Apart, SameOrNew
  <2> QED
    BY <1>1, <2>1, <2>2 DEF Moves, Apart
<1> QED
  BY <1>3, <1>4 DEF Apart

\* The files have changed, but not for line y.
SameFor(R, y, lg, op, marked, lg2, op2, marked2) ==
  /\ \A q \in R : q.session = Number(y) => (Contains(lg2, q) <=> Contains(lg, q))
  /\ \A q \in R : Contains(y.unwritten.records, q) =>
       (Contains(op2, q) <=> Contains(op, q)) /\ (q.id \in marked2 <=> q.id \in marked)
  /\ \A q \in R : q.session = Number(y) /\ Contains(op2, q) => Contains(op, q)

\* A line does not mind what happens to the records of others.
LEMMA GoodKept ==
  ASSUME NEW R \in SUBSET Record, NEW y \in SessionOf(R),
         NEW lg \in Seq(R), NEW op \in Seq(R), NEW marked,
         NEW lg2 \in Seq(R), NEW op2 \in Seq(R), NEW marked2, NEW lost, NEW lost2,
         Good(y, lg, op, marked, lost), lost2 = 0 => lost = 0,
         SameFor(R, y, lg, op, marked, lg2, op2, marked2)
  PROVE  /\ Good(y, lg2, op2, marked2, lost2)
         /\ Untried(y, lg) => Untried(y, lg2)
<1> DEFINE rs == y.unwritten.records
<1>1. Chain(y) /\ Unlanded(y, lg, op, marked) /\ (lost2 = 0 => InLine(y, lg, op))
  BY DEF Good
<1>2. \A i \in DOMAIN rs : rs[i] \in R /\ Contains(rs, rs[i]) /\ rs[i].session = Number(y)
  BY <1>1, RecordsOf DEF Chain
<1>3. y.record # NoRecord => y.record \in R /\ y.record.session = Number(y)
  BY <1>1, RecordsOf DEF Chain
<1> USE DEF SameFor
<1>4. Unlanded(y, lg2, op2, marked2)
  BY <1>1, <1>2, <1>3 DEF Unlanded
<1>5. Untried(y, lg) => Untried(y, lg2)
  BY <1>2 DEF Untried
<1>6. ASSUME lost2 = 0 PROVE InLine(y, lg2, op2)
  <2>1. InLine(y, lg, op)
    BY <1>1, <1>6
  <2>2. ASSUME NEW i \in DOMAIN rs, NEW n \in DOMAIN lg2, lg2[n].session = Number(y)
        PROVE  lg2[n].id <= rs[i].id
    <3>1. lg2[n] \in R /\ Contains(lg2, lg2[n])
      BY Holdings
    <3>2. Contains(lg, lg2[n])
      BY <2>2, <3>1
    <3>3. PICK k \in DOMAIN lg : lg[k] = lg2[n]
      BY <3>2, Holdings
    <3> QED
      BY <2>1, <2>2, <3>3 DEF InLine
  <2>3. ASSUME NEW n \in DOMAIN op2, op2[n].session = Number(y), ~Contains(lg2, op2[n])
        PROVE  Contains(rs, op2[n])
    <3>1. op2[n] \in R /\ Contains(op2, op2[n])
      BY Holdings
    <3>2. Contains(op, op2[n]) /\ ~Contains(lg, op2[n])
      BY <2>3, <3>1
    <3>3. PICK k \in DOMAIN op : op[k] = op2[n]
      BY <3>2, Holdings
    <3> QED
      BY <2>1, <2>3, <3>2, <3>3 DEF InLine
  <2> QED
    BY <2>1, <2>2, <2>3 DEF InLine
<1> QED
  BY <1>1, <1>4, <1>5, <1>6 DEF Good

-----------------------------------------------------------------------------
(* What a call makes of the line it works on. *)

\* A record queued: on the latest one, or as the first of a session.
LEMMA QueuedGood ==
  ASSUME NEW R \in SUBSET Record, NEW m \in Nat, Built(R, m),
         NEW lg, NEW op, NEW marked, Files(R, lg, op, marked), NEW lost,
         NEW x \in SessionOf(R), Good(x, lg, op, marked, lost), Untried(x, lg),
         NEW r \in Record, r.id = m + 1,
         \/ Latest(x) # NoRecord /\ r.session = Latest(x).session
         \/ x = Unrecorded /\ r.session = m + 1,
         NEW y, y.record = x.record,
         y.unwritten.records = Append(x.unwritten.records, r),
         y.unwritten.failed = x.unwritten.failed, y.unwritten.journaled = x.unwritten.journaled
  PROVE  Good(y, lg, op, marked, lost) /\ Untried(y, lg) /\ Number(y) = r.session
<1> DEFINE rs == x.unwritten.records
           ys == y.unwritten.records
           l == Len(rs)
<1>1. /\ rs \in Seq(R) /\ l \in Nat /\ DOMAIN rs = 1..l /\ x.record \in R \cup {NoRecord}
      /\ \A i \in DOMAIN rs : rs[i] \in R
  BY RecordsOf
<1>2. /\ DOMAIN ys = 1..(l + 1) /\ Len(ys) = l + 1 /\ ys[l + 1] = r /\ ys # <<>>
      /\ \A i \in 1..l : ys[i] = rs[i]
  BY <1>1
<1>3. \A q \in R : q.id \in Nat /\ q.session \in Nat /\ q.id <= m /\ q.session <= m /\ q # r
  <2>1. \A q \in R : q.id \in Nat /\ q.session \in Nat
    BY NaturalIds
  <2> QED
    BY <2>1 DEF Built
<1>4. Chain(x) /\ Unlanded(x, lg, op, marked) /\ (lost = 0 => InLine(x, lg, op))
  BY DEF Good
<1>5. Number(y) = r.session
  BY <1>2 DEF Number, Latest, Last
<1>6. lg \in Seq(R) /\ op \in Seq(R)
  BY DEF Files
<1>7. \A n \in DOMAIN lg : lg[n] \in R
  BY <1>6
<1>8. \A n \in DOMAIN op : op[n] \in R
  BY <1>6
<1>9. ~Contains(lg, r) /\ ~Contains(op, r)
  BY <1>3, <1>6, Holdings
<1>10. r.id \notin marked
  BY <1>3, <1>7 DEF Files
<1>11. x.unwritten.journaled[r.id] = "none"
  <2>1. x.unwritten.journaled \in JournaledOf(R) /\ r.id \in Ids
    BY RecordsOf, Fields DEF Record
  <2> QED
    BY <1>3, <2>1 DEF JournaledOf
<1>12. CASE Latest(x) # NoRecord /\ r.session = Latest(x).session
  <2>1. r.session = Number(x) /\ (x.record = NoRecord => rs # <<>>)
    BY <1>12 DEF Number, Latest
  <2>2. Chain(y)
    <3>1. \A i, k \in DOMAIN ys : i < k => ys[i].id < ys[k].id
      <4> TAKE i, k \in DOMAIN ys
      <4>1. CASE k \in 1..l
        BY <1>1, <1>2, <1>4, <4>1 DEF Chain
      <4>2. CASE k = l + 1
        BY <1>1, <1>2, <1>3, <4>2
      <4> QED
        BY <1>1, <1>2, <4>1, <4>2
    <3>2. \A i \in DOMAIN ys : ys[i].session = Number(y)
      BY <1>1, <1>2, <1>4, <1>5, <2>1 DEF Chain
    <3>3. y.record # NoRecord =>
            y.record.session = Number(y) /\ \A i \in DOMAIN ys : y.record.id < ys[i].id
      BY <1>1, <1>2, <1>3, <1>4, <1>5, <2>1 DEF Chain
    <3>4. y.record = NoRecord /\ ys # <<>> => ys[1].id = ys[1].session
      <4>1. y.record = NoRecord => 1 \in 1..l
        BY <1>1, <2>1
      <4> QED
        BY <1>1, <1>2, <1>4, <2>1, <4>1 DEF Chain
    <3> QED
      BY <3>1, <3>2, <3>3, <3>4 DEF Chain
  <2>3. Unlanded(y, lg, op, marked)
    BY <1>1, <1>2, <1>4, <1>9, <1>10, <1>11 DEF Unlanded
  <2>4. Untried(y, lg)
    BY <1>1, <1>2, <1>9 DEF Untried
  <2>5. ASSUME lost = 0 PROVE InLine(y, lg, op)
    <3>1. InLine(x, lg, op)
      BY <1>4, <2>5
    <3>2. \A i, k \in DOMAIN ys :
            i < k /\ y.unwritten.journaled[ys[k].id] # "none" => y.unwritten.journaled[ys[i].id] # "none"
      BY <1>1, <1>2, <1>11, <3>1 DEF InLine
    <3>3. \A i \in DOMAIN ys, n \in DOMAIN lg : lg[n].session = Number(y) => lg[n].id <= ys[i].id
      BY <1>1, <1>2, <1>3, <1>5, <1>7, <2>1, <3>1 DEF InLine
    <3>4. \A n \in DOMAIN op :
            op[n].session = Number(y) /\ ~Contains(lg, op[n]) => Contains(ys, op[n])
      <4>1. \A q \in R : Contains(rs, q) => Contains(ys, q)
        <5>1. rs \in Seq(R \cup {r})
          BY <1>1, SeqGrows
        <5> QED
          BY <5>1, Appended
      <4> QED
        BY <1>5, <1>8, <2>1, <3>1, <4>1 DEF InLine
    <3> QED
      BY <3>2, <3>3, <3>4 DEF InLine
  <2> QED
    BY <1>5, <2>2, <2>3, <2>4, <2>5 DEF Good
<1>13. CASE x = Unrecorded /\ r.session = m + 1
  <2>1. rs = <<>> /\ l = 0 /\ y.record = NoRecord
    BY <1>13, Empties
  <2>2. DOMAIN ys = {1} /\ ys[1] = r
    BY <1>2, <2>1
  <2>3. Chain(y)
    BY <1>5, <1>13, <2>1, <2>2 DEF Chain
  <2>4. Unlanded(y, lg, op, marked) /\ Untried(y, lg)
    BY <1>9, <1>10, <1>11, <2>1, <2>2 DEF Unlanded, Untried
  <2>5. InLine(y, lg, op)
    <3>1. \A n \in DOMAIN lg : lg[n].session # Number(y)
      BY <1>3, <1>5, <1>7, <1>13
    <3>2. \A n \in DOMAIN op : op[n].session # Number(y)
      BY <1>3, <1>5, <1>8, <1>13
    <3>3. \A i, k \in DOMAIN ys : ~(i < k)
      BY <2>2
    <3> QED
      BY <3>1, <3>2, <3>3 DEF InLine
  <2> QED
    BY <1>5, <2>3, <2>4, <2>5 DEF Good
<1> QED
  BY <1>12, <1>13

\* The first record written: the next is the first.
LEMMA WroteGood ==
  ASSUME NEW R \in SUBSET Record, NEW lg, NEW op, NEW marked, NEW lost,
         NEW x \in SessionOf(R), Good(x, lg, op, marked, lost), x.unwritten.records # <<>>,
         Contains(lg, x.unwritten.records[1]),
         NEW y, y.record = x.unwritten.records[1],
         y.unwritten.records = Tail(x.unwritten.records),
         \/ /\ y.unwritten.failed = x.unwritten.failed
            /\ y.unwritten.journaled = x.unwritten.journaled
         \/ Tail(x.unwritten.records) = <<>>
  PROVE  Good(y, lg, op, marked, lost) /\ Untried(y, lg) /\ Number(y) = Number(x)
<1> DEFINE rs == x.unwritten.records
           ys == y.unwritten.records
<1>1. /\ rs \in Seq(R) /\ Len(rs) \in Nat \ {0} /\ DOMAIN rs = 1..Len(rs) /\ 1 \in DOMAIN rs
      /\ rs[1] \in R /\ rs[1] # NoRecord
      /\ DOMAIN ys = 1..(Len(rs) - 1) /\ Len(ys) = Len(rs) - 1 /\ ys \in Seq(R)
      /\ \A i \in DOMAIN ys : i + 1 \in DOMAIN rs /\ ys[i] = rs[i + 1]
      /\ \A q : Contains(rs, q) <=> q = rs[1] \/ Contains(ys, q)
  <2>1. rs \in Seq(R)
    BY RecordsOf
  <2>2. rs[1] \in R => rs[1] # NoRecord
    BY RecordOfR
  <2> QED
    BY <2>1, <2>2, Tailed
<1>2. Chain(x) /\ Unlanded(x, lg, op, marked) /\ (lost = 0 => InLine(x, lg, op))
  BY DEF Good
<1>3. \A i, k \in DOMAIN ys : i < k => i + 1 < k + 1
  BY <1>1
<1>4. \A i \in DOMAIN ys : 1 < i + 1
  BY <1>1
<1>5. Number(y) = Number(x)
  <2>1. CASE ys = <<>>
    BY <1>1, <1>2, <2>1 DEF Chain, Number, Latest
  <2>2. CASE ys # <<>>
    <3>1. Len(ys) \in DOMAIN ys
      BY <1>1, <2>2
    <3>2. Latest(y) = ys[Len(ys)]
      BY <2>2 DEF Latest, Last
    <3> QED
      BY <1>1, <1>2, <3>1, <3>2 DEF Chain, Number
  <2> QED
    BY <2>1, <2>2
<1>6. Chain(y)
  BY <1>1, <1>2, <1>3, <1>4, <1>5 DEF Chain
<1>7. CASE y.unwritten.failed = x.unwritten.failed /\ y.unwritten.journaled = x.unwritten.journaled
  <2>1. Unlanded(y, lg, op, marked) /\ Untried(y, lg)
    BY <1>1, <1>2, <1>4, <1>7 DEF Unlanded, Untried
  <2>2. ASSUME lost = 0 PROVE InLine(y, lg, op)
    <3>1. InLine(x, lg, op)
      BY <1>2, <2>2
    <3>2. \A i, k \in DOMAIN ys :
            i < k /\ y.unwritten.journaled[ys[k].id] # "none" => y.unwritten.journaled[ys[i].id] # "none"
      BY <1>1, <1>3, <1>7, <3>1 DEF InLine
    <3>3. \A i \in DOMAIN ys, n \in DOMAIN lg : lg[n].session = Number(y) => lg[n].id <= ys[i].id
      BY <1>1, <1>5, <3>1 DEF InLine
    <3>4. \A n \in DOMAIN op :
            op[n].session = Number(y) /\ ~Contains(lg, op[n]) => Contains(ys, op[n])
      BY <1>1, <1>5, <3>1 DEF InLine
    <3> QED
      BY <3>2, <3>3, <3>4 DEF InLine
  <2> QED
    BY <1>5, <1>6, <2>1, <2>2 DEF Good
<1>8. CASE Tail(rs) = <<>>
  <2>1. DOMAIN ys = {} /\ \A q : ~Contains(ys, q)
    <3>1. \A q : ~Contains(<<>>, q)
      BY DEF Contains
    <3>2. ys = <<>>
      BY <1>8
    <3> HIDE DEF ys
    <3> QED
      BY <3>1, <3>2
  <2>2. Unlanded(y, lg, op, marked) /\ Untried(y, lg)
    BY <2>1 DEF Unlanded, Untried
  <2>3. ASSUME lost = 0 PROVE InLine(y, lg, op)
    BY <1>1, <1>2, <1>5, <2>1, <2>3 DEF InLine
  <2> QED
    BY <1>5, <1>6, <2>2, <2>3 DEF Good
<1> QED
  BY <1>7, <1>8

\* An attempt counted.
LEMMA FailedGood ==
  ASSUME NEW lg, NEW op, NEW marked, NEW lost, NEW x, Good(x, lg, op, marked, lost),
         NEW y, y.record = x.record, y.unwritten.records = x.unwritten.records,
         y.unwritten.journaled = x.unwritten.journaled, y.unwritten.failed # 0
  PROVE  Good(y, lg, op, marked, lost) /\ Untried(y, lg) /\ Number(y) = Number(x)
<1>1. Number(y) = Number(x)
  BY DEF Number, Latest
<1>2. Chain(y)
  BY <1>1 DEF Good, Chain
<1>3. Unlanded(y, lg, op, marked) /\ Untried(y, lg)
  BY DEF Good, Unlanded, Untried
<1>4. lost = 0 => InLine(y, lg, op)
  BY <1>1 DEF Good, InLine
<1> QED
  BY <1>1, <1>2, <1>3, <1>4 DEF Good

\* The first record appended to the log.
LEMMA AppendGood ==
  ASSUME NEW R \in SUBSET Record, NEW lg \in Seq(R), NEW op, NEW marked, NEW lost,
         NEW x \in SessionOf(R), Good(x, lg, op, marked, lost), x.unwritten.records # <<>>,
         NEW r, r = x.unwritten.records[1]
  PROVE  Good(x, Append(lg, r), op, marked, lost)
<1> DEFINE rs == x.unwritten.records
           lg2 == Append(lg, r)
<1>1. 1 \in DOMAIN rs /\ DOMAIN rs \subseteq Nat \ {0} /\ r \in R /\ \A i \in DOMAIN rs : rs[i] \in R
  BY RecordsOf
<1>2. /\ DOMAIN lg2 = 1..(Len(lg) + 1) /\ DOMAIN lg = 1..Len(lg) /\ Len(lg) \in Nat
      /\ \A i \in DOMAIN lg : lg2[i] = lg[i]
      /\ lg2[Len(lg) + 1] = r
      /\ \A q : Contains(lg2, q) <=> Contains(lg, q) \/ q = r
  BY <1>1, Appended
<1>3. \A n \in DOMAIN lg2 : (n \in DOMAIN lg /\ lg2[n] = lg[n]) \/ lg2[n] = r
  BY <1>2
<1> HIDE DEF lg2
<1>4. Chain(x) /\ Unlanded(x, lg, op, marked) /\ (lost = 0 => InLine(x, lg, op))
  BY DEF Good
<1>5. \A i \in DOMAIN rs : i > 1 => r.id < rs[i].id
  BY <1>1, <1>4 DEF Chain
<1>6. \A i \in DOMAIN rs : i > 1 => rs[i] # r
  <2>1. r.id \in Nat
    BY <1>1, NaturalIds
  <2> QED
    BY <1>5, <2>1
<1>7. Unlanded(x, lg2, op, marked)
  BY <1>2, <1>4, <1>6 DEF Unlanded
<1>8. ASSUME lost = 0 PROVE InLine(x, lg2, op)
  <2>1. InLine(x, lg, op)
    BY <1>4, <1>8
  <2>2. \A i \in DOMAIN rs : r.id <= rs[i].id
    <3>1. r.id \in Nat /\ \A i \in DOMAIN rs : rs[i].id \in Nat
      BY <1>1, NaturalIds
    <3> QED
      BY <1>1, <1>5, <3>1
  <2>3. \A i \in DOMAIN rs, n \in DOMAIN lg2 : lg2[n].session = Number(x) => lg2[n].id <= rs[i].id
    BY <1>3, <2>1, <2>2 DEF InLine
  <2>4. \A n \in DOMAIN op :
          op[n].session = Number(x) /\ ~Contains(lg2, op[n]) => Contains(rs, op[n])
    BY <1>2, <2>1 DEF InLine
  <2> QED
    BY <2>1, <2>3, <2>4 DEF InLine
<1> QED
  BY <1>4, <1>7, <1>8 DEF Good, lg2

\* Line y is x with record r taken for journaled, after an attempt has failed.
Takes(x, y, r) ==
  /\ y.record = x.record /\ y.unwritten.records = x.unwritten.records
  /\ y.unwritten.failed = x.unwritten.failed /\ y.unwritten.failed # 0
  /\ \E e : e # "none" /\ y.unwritten.journaled = [x.unwritten.journaled EXCEPT ![r.id] = e]

\* The records of x before the i-th are taken for journaled.
TakenTo(x, i) ==
  \A k \in DOMAIN x.unwritten.records :
    k < i => x.unwritten.journaled[x.unwritten.records[k].id] # "none"

\* The journal has r too.
Gains(op, op2, r) == \A q : Contains(op2, q) <=> Contains(op, q) \/ q = r

\* Record i taken for journaled, once it is.
LEMMA JournaledGood ==
  ASSUME NEW R \in SUBSET Record, NEW m, Built(R, m), NEW lg, NEW op \in Seq(R), NEW marked, NEW lost,
         NEW x \in SessionOf(R), Good(x, lg, op, marked, lost),
         NEW i \in DOMAIN x.unwritten.records, lost = 0 => TakenTo(x, i),
         NEW op2 \in Seq(R), Gains(op, op2, x.unwritten.records[i]),
         NEW y, Takes(x, y, x.unwritten.records[i])
  PROVE  Good(y, lg, op2, marked, lost) /\ Untried(y, lg) /\ Number(y) = Number(x)
<1> DEFINE rs == x.unwritten.records
           j == x.unwritten.journaled
           j2 == y.unwritten.journaled
           r == rs[i]
<1> USE DEF Gains
<1>0. PICK e : e # "none" /\ j2 = [j EXCEPT ![r.id] = e]
  BY DEF Takes
<1>1. /\ Number(y) = Number(x)
      /\ y.record = x.record /\ y.unwritten.records = rs
      /\ y.unwritten.failed = x.unwritten.failed /\ y.unwritten.failed # 0
  BY DEF Number, Latest, Takes
<1>2. Chain(x) /\ Unlanded(x, lg, op, marked) /\ (lost = 0 => InLine(x, lg, op))
  BY DEF Good
<1>3. Chain(y)
  BY <1>1, <1>2 DEF Chain
<1>4. /\ DOMAIN rs \subseteq Nat /\ r \in R /\ \A k \in DOMAIN rs : rs[k] \in R /\ rs[k].id \in Ids
      /\ j \in [Ids -> JournalStates]
  <2>1. /\ DOMAIN rs \subseteq Nat /\ x.unwritten \in UnwrittenOf(R) /\ r \in R
        /\ \A k \in DOMAIN rs : rs[k] \in R
    BY RecordsOf
  <2> QED
    BY <2>1, RecordOfR, Fields
<1>5. \A k \in DOMAIN rs : j2[rs[k].id] = IF rs[k] = r THEN e ELSE j[rs[k].id]
  <2> TAKE k \in DOMAIN rs
  <2>1. j2[rs[k].id] = IF rs[k].id = r.id THEN e ELSE j[rs[k].id]
    BY <1>0, <1>4
  <2>2. rs[k].id = r.id <=> rs[k] = r
    BY <1>4 DEF Built
  <2> QED
    BY <2>1, <2>2
<1> HIDE DEF j2, j
<1>6. Unlanded(y, lg, op2, marked)
  BY <1>0, <1>1, <1>2, <1>5 DEF Unlanded, j, j2
<1>7. Untried(y, lg)
  BY <1>1 DEF Untried
<1>8. ASSUME lost = 0 PROVE InLine(y, lg, op2)
  <2>1. InLine(x, lg, op)
    BY <1>2, <1>8
  <2>2. ASSUME NEW a \in DOMAIN rs, NEW k \in DOMAIN rs, a < k, j2[rs[k].id] # "none"
        PROVE  j2[rs[a].id] # "none"
    <3>1. CASE rs[k] = r
      <4>1. k = i
        <5>1. k \in Nat /\ i \in Nat /\ rs[k].id = rs[i].id /\ rs[i].id \in Nat
          BY <1>4, <3>1, Constants DEF Ids
        <5>2. ~(k < i) /\ ~(i < k)
          BY <1>2, <5>1 DEF Chain
        <5> QED
          BY <5>1, <5>2
      <4> QED
        BY <1>5, <1>8, <2>2, <4>1 DEF j, TakenTo
    <3>2. CASE rs[k] # r
      <4>1. j[rs[k].id] # "none"
        BY <1>5, <2>2, <3>2
      <4>2. j[rs[a].id] # "none"
        BY <2>1, <2>2, <4>1 DEF InLine, j
      <4> QED
        BY <1>0, <1>5, <4>2
    <3> QED
      BY <3>1, <3>2
  <2>3. \A k \in DOMAIN rs, n \in DOMAIN lg : lg[n].session = Number(y) => lg[n].id <= rs[k].id
    BY <1>1, <2>1 DEF InLine
  <2>4. ASSUME NEW n \in DOMAIN op2, op2[n].session = Number(y), ~Contains(lg, op2[n])
        PROVE  Contains(rs, op2[n])
    <3>1. Contains(op2, op2[n])
      BY Holdings
    <3>2. CASE op2[n] = r
      BY <3>2, RecordsOf
    <3>3. CASE Contains(op, op2[n])
      <4>1. PICK k \in DOMAIN op : op[k] = op2[n]
        BY <3>3, Holdings
      <4> QED
        BY <1>1, <2>1, <2>4, <4>1 DEF InLine
    <3> QED
      BY <3>1, <3>2, <3>3
  <2> QED
    BY <1>1, <2>2, <2>3, <2>4 DEF InLine, j2
<1> QED
  BY <1>1, <1>3, <1>6, <1>7, <1>8 DEF Good

-----------------------------------------------------------------------------
(* Steps that leave the files and reconciliation alone. *)

LEMMA QuietStep ==
  ASSUME NEW R \in SUBSET Record, Of(R), Lines, Orders,
         UNCHANGED <<log, open, resolved, pass, refusals>>, up',
         Shape(sitting', session', call'),
         NEW s \in Object, NEW t, NEW x, Moves(line, line', s, t, x),
         Good(x, log, open, resolved, refusals), Untried(x, log),
         SameOrNew(x, line, s, pass.todo),
         NEW c, \A k \in Calls : k # c => call'[k] = call[k],
         c \in Calls => Steady(call'[c], log, refusals)
  PROVE  Lines' /\ Orders'
<1>1. log \in Seq(R) /\ open \in Seq(R) /\ pass.todo \in Seq(R)
  BY DEF Of, Files, Passes
<1>2. \A o \in Object : Good(line[o], log, open, resolved, refusals) /\ Untried(line[o], log)
  BY DEF Lines
<1>3. \A o \in Object : Good(line'[o], log, open, resolved, refusals) /\ Untried(line'[o], log)
  BY <1>1, <1>2, GoodAfter
<1>4. Apart(line', pass.todo)
  <2>1. Apart(line, pass.todo)
    BY DEF Lines
  <2>2. \A n \in DOMAIN pass.todo : \E k \in DOMAIN pass.todo : pass.todo[n].session = pass.todo[k].session
    OBVIOUS
  <2> QED
    BY <1>1, <2>1, <2>2, ApartAfter, Zenon
<1>5. \A k \in Calls : Steady(call'[k], log, refusals)
  BY DEF Lines
<1>6. Lines'
  BY <1>3, <1>4, <1>5 DEF Lines
<1>7. Orders'
  BY DEF Orders
<1> QED
  BY <1>6, <1>7

LEMMA ReturnLines ==
  ASSUME NEW R \in SUBSET Record, Of(R), Lines, Orders,
         UNCHANGED <<log, open, resolved, pass, refusals>>, up',
         NEW c \in Calls, NEW src, NEW t, NEW x, Way(c, src, t), Return(c, t, x),
         Good(x, log, open, resolved, refusals), Untried(x, log), Number(x) = Number(line[src])
  PROVE  Lines' /\ Orders'
<1>1. Parts(R, call, session, sitting, stamped, log, open) /\ Shape(sitting, session, call)
  BY DEF Of, Lines
<1>2. Shape(sitting', session', call') /\ Moves(line, line', src, t, x)
  BY <1>1, ReturnMoves
<1>3. src \in Object /\ SameOrNew(x, line, src, pass.todo)
  BY DEF Way, SameOrNew
<1>4. \A k \in Calls : call'[k] = IF k = c THEN Idle ELSE call[k]
  BY <1>1 DEF Return, Parts
<1>5. Steady(Idle, log, refusals)
  BY Empties, AtStates DEF Steady, Working
<1> QED
  BY <1>2, <1>3, <1>4, <1>5, QuietStep

LEMMA FlushLines ==
  ASSUME NEW R \in SUBSET Record, Of(R), Lines, Orders,
         UNCHANGED <<log, open, resolved, pass, refusals>>, up',
         NEW Q \in SUBSET Record, R \subseteq Q,
         NEW c \in Calls, call[c].at \notin Working,
         NEW src, NEW t, Way(c, src, t),
         NEW before \in Object \cup {NoObject}, src \in {before, t},
         NEW s \in SessionOf(Q), NEW u \in UnwrittenOf(Q), u.records # <<>>,
         \A k \in Calls : k # c => call[k].before \in {NoObject, call[k].base},
         before \notin {NoObject, t} => \A k \in Calls : k # c => call[k] = Idle,
         Flush(c, before, t, s, u),
         NEW x, x = [record |-> s.record, unwritten |-> u],
         Good(x, log, open, resolved, refusals), Untried(x, log),
         SameOrNew(x, line, src, pass.todo)
  PROVE  Lines' /\ Orders'
<1>1. Parts(Q, call, session, sitting, stamped, log, open) /\ Shape(sitting, session, call)
  <2>1. Keeps(log, open, log, open)
    BY DEF Keeps
  <2> QED
    BY <2>1, PartsCarry DEF Of, Lines
<1>2. Shape(sitting', session', call') /\ Moves(line, line', src, t, x)
  BY <1>1, FlushMoves
<1>3. src \in Object /\ t \in Object
  BY DEF Way
<1>4. \/ call' = [call EXCEPT ![c] = Idle]
      \/ call' = [call EXCEPT ![c] = Flushed(before, t, s, u)]
  BY DEF Flush, Flushed, Return
<1>5. call \in [Calls -> CallOf(Q)]
  BY <1>1 DEF Parts
<1>6. Steady(Idle, log, refusals)
  BY Empties, AtStates DEF Steady, Working
<1>7. Steady(Flushed(before, t, s, u), log, refusals)
  <2> DEFINE w == Flushed(before, t, s, u)
  <2>1. w.at = (IF u.failed > 0 THEN "checking" ELSE "appending") /\ w.unwritten = u
    BY <1>3, FlushedFields
  <2> HIDE DEF w
  <2>2. u.records \in Seq(Q) /\ u.failed \in Nat
    BY Fields, Constants
  <2>3. 1 \in DOMAIN u.records
    BY <2>2
  <2>4. u.failed = 0 => ~Contains(log, u.records[1])
    BY <2>3 DEF Untried
  <2> QED
    BY <2>1, <2>2, <2>4 DEF Steady, w
<1>8. Steady(call'[c], log, refusals) /\ \A k \in Calls : k # c => call'[k] = call[k]
  <2>1. \A k \in Calls : k # c => call'[k] = call[k]
    BY <1>4, <1>5
  <2>2. call'[c] = Idle \/ call'[c] = Flushed(before, t, s, u)
    BY <1>4, <1>5
  <2> QED
    BY <1>6, <1>7, <2>1, <2>2
<1> QED
  BY <1>2, <1>3, <1>8, QuietStep

\* The line of an object that no call works on, nor grows, is what its session has.
LEMMA LineAlone ==
  ASSUME NEW o \in Object,
         \A k \in Calls : call[k].at \in Working => call[k].base # o /\ call[k].before # o
  PROVE  line[o] = session[o]
BY LineElsewhere, LineAt

\* And that of a call at work is what it holds.
LEMMA LineOfWork ==
  ASSUME NEW R, Parts(R, call, session, sitting, stamped, log, open), Shape(sitting, session, call),
         NEW c \in Calls, call[c].at \in Working
  PROVE  call[c].base \in Object /\ line[call[c].base] = Held(call[c])
<1>1. call[c].base \in Object
  BY CallFacts
<1>2. LineOf(call, session, call[c].base) = Held(call[c])
  BY LineWorking DEF Shape
<1> QED
  BY <1>1, <1>2, LineAt

LEMMA Numbers ==
  ASSUME NEW R \in SUBSET Record, Of(R)
  PROVE  /\ \A o \in Object : line[o] \in SessionOf(R) /\ Number(line[o]) \in Nat /\ Number(line[o]) <= minted
         /\ \A n \in DOMAIN pass.todo : pass.todo[n].session \in Nat /\ pass.todo[n].session <= minted
         /\ minted \in Nat
<1>1. minted \in Nat /\ Built(R, minted)
  BY Constants DEF Of, Counters
<1>2. \A r \in R : r.session \in Nat /\ r.session <= minted
  <2>1. \A r \in R : r.session \in Nat /\ r.id \in Nat
    BY NaturalIds
  <2> QED
    BY <1>1, <2>1 DEF Built
<1>3. ASSUME NEW o \in Object
      PROVE  line[o] \in SessionOf(R) /\ Number(line[o]) \in Nat /\ Number(line[o]) <= minted
  <2>1. line[o] \in SessionOf(R)
    BY LineTypes, LineAt DEF Of, Parts
  <2>2. Number(line[o]) = 0 \/ \E r \in R : Number(line[o]) = r.session
    BY <2>1, NumberTypes
  <2> QED
    BY <1>1, <1>2, <2>1, <2>2
<1>4. \A n \in DOMAIN pass.todo : pass.todo[n] \in R
  <2>1. pass.todo \in Seq(R)
    BY DEF Of, Passes
  <2> QED
    BY <2>1
<1> QED
  BY <1>1, <1>2, <1>3, <1>4

LEMMA FirstLines ==
  ASSUME NEW R \in SUBSET Record, Of(R), Lines, Orders,
         UNCHANGED <<log, open, resolved, pass, refusals>>, up',
         NEW c \in Calls, call[c].at \notin Working, NEW o, Way(c, o, o),
         NEW before \in {NoObject, o},
         \A k \in Calls : k # c => call[k].before \in {NoObject, call[k].base},
         First(c, before, o)
  PROVE  Lines' /\ Orders'
<1>1. PICK r : r = [id |-> minted + 1, session |-> minted + 1]
  OBVIOUS
<1>2. PICK Q : Q = R \cup {r}
  OBVIOUS
<1>3. minted \in Nat /\ Built(R, minted) /\ minted < MaxRecords
  BY Numbers DEF Of, First
<1>4. /\ r \in Record /\ r.id = minted + 1 /\ r.session = minted + 1 /\ r \in Q
      /\ Q \in SUBSET Record /\ R \subseteq Q
  BY <1>1, <1>2, <1>3, Builds
<1> DEFINE u == Queue(Nothing, r)
           x == [record |-> Unrecorded.record, unwritten |-> u]
<1>5. /\ u \in UnwrittenOf(Q) /\ u.records # <<>> /\ u.records = Append(Nothing.records, r)
      /\ u.failed = Nothing.failed /\ u.journaled = Nothing.journaled
  BY <1>4, Empties, QueuedTypes
<1>6. Flush(c, before, o, Unrecorded, u)
  BY <1>1, <1>3 DEF First
<1> HIDE DEF u
<1>7. Unrecorded \in SessionOf(Q) /\ Unrecorded \in SessionOf(R) /\ Unrecorded.unwritten = Nothing
  BY Empties
<1>8. x.record = Unrecorded.record /\ x.unwritten = u
  OBVIOUS
<1> HIDE DEF x
<1>9. /\ Good(x, log, open, resolved, refusals) /\ Untried(x, log) /\ Number(x) = minted + 1
  <2>1. /\ Good(Unrecorded, log, open, resolved, refusals) /\ Untried(Unrecorded, log)
        /\ Files(R, log, open, resolved)
    BY UnrecordedGood DEF Of, Files
  <2> QED
    BY <1>3, <1>4, <1>5, <1>7, <1>8, <2>1, QueuedGood
<1>10. SameOrNew(x, line, o, pass.todo)
  BY <1>9, Numbers DEF SameOrNew
<1>11. before \in Object \cup {NoObject}
  BY DEF Way
<1> QED
  BY <1>4, <1>5, <1>6, <1>7, <1>9, <1>10, <1>11, FlushLines DEF x

LEMMA RetryLines ==
  ASSUME NEW R \in SUBSET Record, Of(R), Lines, Orders,
         UNCHANGED <<log, open, resolved, pass, refusals>>, up',
         NEW c \in Calls, call[c].at \notin Working, NEW o, Way(c, o, o),
         \A k \in Calls : k # c => call[k].before \in {NoObject, call[k].base},
         line[o] = session[o], Retry(c, o)
  PROVE  Lines' /\ Orders'
<1>1. o \in Object
  BY DEF Way
<1>2. PICK s \in SessionOf(R) : s = session[o]
  BY <1>1 DEF Of, Parts
<1>3. PICK u \in UnwrittenOf(R) : u = s.unwritten
  BY Fields
<1>4. s = [record |-> s.record, unwritten |-> u]
  BY <1>2, <1>3 DEF SessionOf
<1>5. u.records # <<>> /\ Flush(c, o, o, s, u)
  BY <1>2, <1>3 DEF Retry
<1>6. Good(s, log, open, resolved, refusals) /\ Untried(s, log) /\ SameOrNew(s, line, o, pass.todo)
  BY <1>1, <1>2 DEF Lines, SameOrNew
<1> QED
  BY <1>1, <1>4, <1>5, <1>6, FlushLines

LEMMA StartLines ==
  ASSUME NEW R \in SUBSET Record, Of(R), Lines, Orders,
         UNCHANGED <<log, open, resolved, pass, refusals>>, up',
         NEW c \in Calls, call[c].at \notin Working, NEW o \in Object,
         \A k \in Calls : k # c => call[k].before \in {NoObject, call[k].base},
         StartOn(c, o)
  PROVE  Lines' /\ Orders'
<1>1. \A k \in Calls : call[k].base # o
  BY DEF StartOn, InFlight
<1>2. Way(c, o, o)
  BY <1>1 DEF Way
<1>3. line[o] = session[o]
  <2>1. \A k \in Calls : call[k].at \in Working => k # c /\ call[k].before # o
    BY <1>1, Constants
  <2> QED
    BY <1>1, <2>1, LineAlone
<1> QED
  BY <1>2, <1>3, RetryLines, FirstLines DEF StartOn

LEMMA OpensLines ==
  ASSUME Alone, JInv, Lines, Orders, NEW c \in Calls, Opens(c)
  PROVE  Lines' /\ Orders'
<1>1. PICK R \in SUBSET Record : Of(R)
  BY DEF JInv
<1>2. UNCHANGED <<log, open, resolved, pass, refusals>> /\ up' /\ call[c].at \notin Working
  BY AtStates DEF Opens, counted
<1>3. \A k \in Calls : k # c => call[k].before \in {NoObject, call[k].base}
  BY DEF Opens, Growing
<1>4. CASE sitting # NoObject /\ StartOn(c, sitting)
  <2>1. sitting \in Object
    BY <1>1, <1>4 DEF Of, Parts
  <2> QED
    BY <1>1, <1>2, <1>3, <1>4, <2>1, StartLines
<1>5. CASE Free # {} /\ First(c, NoObject, Fresh)
  <2>1. Way(c, Fresh, Fresh)
    BY <1>2, <1>5, FreshIsFree DEF Way, Referenced
  <2> QED
    BY <1>1, <1>2, <1>3, <1>5, <2>1, FirstLines
<1> QED
  BY <1>4, <1>5 DEF Opens

LEMMA KeepsGoingLines ==
  ASSUME Alone, JInv, Lines, Orders, NEW c \in Calls, KeepsGoing(c)
  PROVE  Lines' /\ Orders'
<1>1. PICK R \in SUBSET Record : Of(R)
  BY DEF JInv
<1>2. /\ UNCHANGED <<log, open, resolved, stamped, sitting, session, pass, refusals>> /\ up /\ up'
      /\ call = [k \in Calls |-> Idle]
  BY DEF KeepsGoing, durable, counted
<1> DEFINE w == [Idle EXCEPT !.at = "extending", !.before = sitting]
<1>3. call' = [call EXCEPT ![c] = w] /\ w.at = "extending"
  BY DEF KeepsGoing, Idle
<1> HIDE DEF w
<1>4. \A k \in Calls : call'[k] = IF k = c THEN w ELSE Idle
  BY <1>2, <1>3
<1>5. \A k \in Calls : call[k].at \notin Working /\ call'[k].at \notin Working
  BY <1>2, <1>3, <1>4, Empties, AtStates
<1>6. \A o \in Object : line[o] = session[o] /\ line'[o] = session'[o]
  BY <1>5, LineElsewhere, LineAt
<1>7. Shape(sitting', session', call')
  <2>1. ASSUME NEW k \in Calls, NEW j \in Calls,
               call'[k].before \notin {NoObject, call'[k].base}, j # k
        PROVE  call'[j] = Idle
    BY <1>4, <2>1, Empties
  <2>2. ASSUME NEW o \in Object, o \notin Referenced(sitting', call')
        PROVE  session'[o] = Unrecorded
    <3>1. o # sitting
      BY <1>2, <2>2 DEF Referenced
    <3>2. o \notin Referenced(sitting, call)
      BY <1>2, <3>1, Empties, Constants DEF Referenced
    <3> QED
      BY <1>2, <3>2 DEF Lines, Shape
  <2> QED
    BY <1>5, <2>1, <2>2 DEF Shape
<1>8. \A o \in Object : line'[o] = line[o]
  BY <1>2, <1>6
<1>9. \A o \in Object : Good(line'[o], log, open, resolved, refusals) /\ Untried(line'[o], log)
  BY <1>8 DEF Lines
<1>10. Apart(line', pass.todo)
  BY <1>8 DEF Lines, Apart
<1>11. \A k \in Calls : Steady(call'[k], log, refusals)
  <2>1. Steady(w, log, refusals)
    BY <1>3, AtStates DEF Steady, Working
  <2>2. Steady(Idle, log, refusals)
    BY Empties, AtStates DEF Steady, Working
  <2> QED
    BY <1>4, <2>1, <2>2
<1>12. Lines'
  BY <1>2, <1>7, <1>9, <1>10, <1>11 DEF Lines
<1>13. Orders'
  BY <1>2 DEF Orders
<1> QED
  BY <1>12, <1>13

\* A call that extends is the only one; nobody works, and it may return its sitting or a new one.
LEMMA ExtendingAlone ==
  ASSUME NEW R \in SUBSET Record, Of(R), Lines, NEW c \in Calls, call[c].at = "extending"
  PROVE  /\ \A k \in Calls : k # c => call[k] = Idle
         /\ \A k \in Calls : k # c => call[k].before \in {NoObject, call[k].base}
         /\ \A k \in Calls : call[k].at \notin Working
         /\ call[c].before \in Object /\ line[call[c].before] = session[call[c].before]
         /\ session[call[c].before] \in SessionOf(R)
         /\ Way(c, call[c].before, call[c].before)
         /\ Free # {} => Way(c, call[c].before, Fresh)
         /\ Good(session[call[c].before], log, open, resolved, refusals)
         /\ Untried(session[call[c].before], log)
<1>1. /\ call[c].before \in Object /\ call[c].before \notin {NoObject, call[c].base}
      /\ session[call[c].before] \in SessionOf(R)
  BY CallFacts, Extending DEF Of
<1>2. \A k \in Calls : k # c => call[k] = Idle
  BY <1>1 DEF Lines, Shape
<1>3. \A k \in Calls : call[k].at \notin Working
  BY <1>2, Empties, AtStates
<1>4. line[call[c].before] = session[call[c].before]
  BY <1>1, <1>3, LineAlone
<1>5. Way(c, call[c].before, call[c].before)
  BY <1>1, <1>3 DEF Way
<1>6. Free # {} => Way(c, call[c].before, Fresh)
  BY <1>1, <1>3, FreshIsFree DEF Way, Source
<1>7. \A k \in Calls : k # c => call[k].before \in {NoObject, call[k].base}
  BY <1>2, Empties
<1>8. Good(line[call[c].before], log, open, resolved, refusals) /\ Untried(line[call[c].before], log)
  BY <1>1 DEF Lines
<1> QED
  BY <1>1, <1>2, <1>3, <1>4, <1>5, <1>6, <1>7, <1>8

LEMMA ExtendsNothingLines ==
  ASSUME JInv, Lines, Orders, NEW c \in Calls, ExtendsNothing(c)
  PROVE  Lines' /\ Orders'
<1>1. PICK R \in SUBSET Record : Of(R)
  BY DEF JInv
<1> DEFINE o == call[c].before
<1>2. /\ UNCHANGED <<log, open, resolved, pass, refusals>> /\ up' /\ call[c].at = "extending"
      /\ StartOn(c, o) \/ Return(c, o, session[o])
  BY DEF ExtendsNothing, counted
<1>3. /\ \A k \in Calls : k # c => call[k].before \in {NoObject, call[k].base}
      /\ o \in Object /\ line[o] = session[o] /\ Way(c, o, o) /\ call[c].at \notin Working
      /\ Good(session[o], log, open, resolved, refusals) /\ Untried(session[o], log)
  BY <1>1, <1>2, ExtendingAlone
<1> HIDE DEF o
<1>4. CASE StartOn(c, o)
  BY <1>1, <1>2, <1>3, <1>4, StartLines
<1>5. CASE Return(c, o, session[o])
  BY <1>1, <1>2, <1>3, <1>5, ReturnLines
<1> QED
  BY <1>2, <1>4, <1>5

LEMMA ExtendsUnrecordedLines ==
  ASSUME JInv, Lines, Orders, NEW c \in Calls, ExtendsUnrecorded(c)
  PROVE  Lines' /\ Orders'
<1>1. PICK R \in SUBSET Record : Of(R)
  BY DEF JInv
<1> DEFINE o == call[c].before
<1>2. /\ UNCHANGED <<log, open, resolved, pass, refusals>> /\ up' /\ call[c].at = "extending"
      /\ Free # {} /\ Return(c, Fresh, session[o])
  BY DEF ExtendsUnrecorded, counted
<1>3. /\ line[o] = session[o] /\ Way(c, o, Fresh)
      /\ Good(session[o], log, open, resolved, refusals) /\ Untried(session[o], log)
  BY <1>1, <1>2, ExtendingAlone
<1> HIDE DEF o
<1> QED
  BY <1>1, <1>2, <1>3, ReturnLines

LEMMA ExtendsSameLines ==
  ASSUME JInv, Lines, Orders, NEW c \in Calls, ExtendsSame(c)
  PROVE  Lines' /\ Orders'
<1>1. PICK R \in SUBSET Record : Of(R)
  BY DEF JInv
<1> DEFINE o == call[c].before
<1>2. /\ UNCHANGED <<log, open, resolved, pass, refusals>> /\ up' /\ call[c].at = "extending"
      /\ Free # {}
  BY DEF ExtendsSame, counted
<1>3. /\ \A k \in Calls : k # c => call[k] = Idle
      /\ \A k \in Calls : k # c => call[k].before \in {NoObject, call[k].base}
      /\ o \in Object /\ line[o] = session[o] /\ Way(c, o, Fresh) /\ call[c].at \notin Working
      /\ session[o] \in SessionOf(R)
      /\ Good(session[o], log, open, resolved, refusals) /\ Untried(session[o], log)
  BY <1>1, <1>2, ExtendingAlone
<1>4. PICK s \in SessionOf(R) : s = session[o]
  BY <1>3
<1>5. PICK u \in UnwrittenOf(R) : u = s.unwritten
  BY Fields
<1>6. CASE Return(c, Fresh, s)
  <2> HIDE DEF o
  <2> QED
    BY <1>1, <1>2, <1>3, <1>4, <1>6, ReturnLines
<1>7. CASE u.records # <<>> /\ Flush(c, o, Fresh, [s EXCEPT !.unwritten = Nothing], u)
  <2> DEFINE t == [s EXCEPT !.unwritten = Nothing]
  <2>1. t \in SessionOf(R) /\ t.record = s.record
    BY Empties DEF SessionOf
  <2>2. s = [record |-> t.record, unwritten |-> u]
    BY <1>5, <2>1 DEF SessionOf
  <2>3. u.records # <<>> /\ Flush(c, o, Fresh, t, u)
    BY <1>7
  <2> HIDE DEF o, t
  <2>4. SameOrNew(s, line, o, pass.todo) /\ o \in {o, Fresh} /\ o \in Object \cup {NoObject}
    BY <1>3, <1>4 DEF SameOrNew
  <2> QED
    BY <1>1, <1>2, <1>3, <1>4, <2>1, <2>2, <2>3, <2>4, FlushLines
<1> QED
  BY <1>4, <1>5, <1>6, <1>7 DEF ExtendsSame

LEMMA ExtendsGrownLines ==
  ASSUME JInv, Lines, Orders, NEW c \in Calls, ExtendsGrown(c)
  PROVE  Lines' /\ Orders'
<1>1. PICK R \in SUBSET Record : Of(R)
  BY DEF JInv
<1> DEFINE o == call[c].before
<1>2. /\ UNCHANGED <<log, open, resolved, pass, refusals>> /\ up' /\ call[c].at = "extending"
      /\ Free # {} /\ minted < MaxRecords
  BY DEF ExtendsGrown, counted
<1>3. /\ \A k \in Calls : k # c => call[k] = Idle
      /\ \A k \in Calls : k # c => call[k].before \in {NoObject, call[k].base}
      /\ o \in Object /\ line[o] = session[o] /\ Way(c, o, Fresh) /\ call[c].at \notin Working
      /\ session[o] \in SessionOf(R)
      /\ Good(session[o], log, open, resolved, refusals) /\ Untried(session[o], log)
  BY <1>1, <1>2, ExtendingAlone
<1>4. PICK s \in SessionOf(R) : s = session[o]
  BY <1>3
<1>5. PICK n : n = Latest(s).session
  OBVIOUS
<1>6. PICK r : r = [id |-> minted + 1, session |-> n]
  OBVIOUS
<1>7. PICK Q : Q = R \cup {r}
  OBVIOUS
<1>8. Latest(s) # NoRecord
  BY <1>4 DEF ExtendsGrown
<1>9. minted \in Nat /\ Built(R, minted) /\ n \in 1..(minted + 1)
  <2>1. Latest(s) \in R
    BY <1>8, LatestTypes
  <2>2. n \in Nat /\ n # 0 /\ Latest(s).id \in Nat /\ n <= Latest(s).id /\ Latest(s).id <= minted
    BY <1>1, <1>5, <2>1, NaturalIds DEF Of, Built
  <2> QED
    BY <1>1, <2>2, Numbers DEF Of
<1>10. /\ r \in Q /\ r \in Record /\ Q \in SUBSET Record /\ R \subseteq Q
       /\ r.id = minted + 1 /\ r.session = n
  BY <1>2, <1>6, <1>7, <1>9, Builds
<1>11. PICK v \in UnwrittenOf(R) : v = s.unwritten
  BY Fields
<1> DEFINE u == Queue(v, r)
           t == [s EXCEPT !.unwritten = Nothing]
           x == [record |-> t.record, unwritten |-> u]
<1>12. /\ u \in UnwrittenOf(Q) /\ u.records # <<>> /\ u.records = Append(v.records, r)
       /\ u.failed = v.failed /\ u.journaled = v.journaled
  BY <1>10, TypesGrow, QueuedTypes
<1>13. t \in SessionOf(Q) /\ t.record = s.record
  <2>1. s \in SessionOf(Q)
    BY <1>10, TypesGrow
  <2> QED
    BY <2>1, Empties DEF SessionOf
<1>14. Flush(c, o, Fresh, t, u)
  BY <1>2, <1>4, <1>5, <1>6, <1>11 DEF ExtendsGrown
<1> HIDE DEF t, u
<1>15. x.record = s.record /\ x.unwritten = u
  BY <1>13
<1>16. x = [record |-> t.record, unwritten |-> u]
  OBVIOUS
<1> HIDE DEF x, o
<1>17. /\ Good(x, log, open, resolved, refusals) /\ Untried(x, log) /\ Number(x) = n
  <2>1. Files(R, log, open, resolved) /\ Good(s, log, open, resolved, refusals) /\ Untried(s, log)
    BY <1>1, <1>3, <1>4 DEF Of
  <2> QED
    BY <1>5, <1>8, <1>9, <1>10, <1>11, <1>12, <1>15, <2>1, QueuedGood
<1>18. SameOrNew(x, line, o, pass.todo) /\ o \in {o, Fresh} /\ o \in Object \cup {NoObject}
  BY <1>3, <1>4, <1>5, <1>17 DEF SameOrNew, Number
<1> QED
  BY <1>1, <1>2, <1>3, <1>10, <1>12, <1>13, <1>14, <1>16, <1>17, <1>18, FlushLines

LEMMA ExtendsLines ==
  ASSUME JInv, Lines, Orders, NEW c \in Calls, Extends(c)
  PROVE  Lines' /\ Orders'
BY ExtendsNothingLines, ExtendsGrownLines, ExtendsSameLines, ExtendsUnrecordedLines DEF Extends

LEMMA IdleSteady ==
  ASSUME NEW lg, NEW lost
  PROVE  Steady(Idle, lg, lost)
BY Empties, AtStates DEF Steady, Working

\* The holder enters a sitting, or leaves it.
LEMMA HolderLines ==
  ASSUME NEW R \in SUBSET Record, Of(R), Lines, Orders,
         UNCHANGED <<log, open, resolved, call, pass, refusals>>, up',
         \A o \in Object : session'[o] \in {session[o], Unrecorded},
         \A o \in Object : o \notin Referenced(sitting', call') => session'[o] = Unrecorded
  PROVE  Lines' /\ Orders'
<1>1. Shape(sitting', session', call')
  BY DEF Lines, Shape
<1>2. \A o \in Object : line'[o] = line[o] \/ line'[o] = Unrecorded
  <2>1. Parts(R, call, session, sitting, stamped, log, open) /\ Shape(sitting, session, call)
    BY DEF Of, Lines
  <2>2. \A k \in Calls : call'[k] = call[k]
    OBVIOUS
  <2>3. \A o \in Object : session'[o] = session[o] \/ session'[o] = Unrecorded
    OBVIOUS
  <2> QED
    BY <2>1, <2>2, <2>3, HolderMoves
<1>3. Number(Unrecorded) = 0 /\ open \in Seq(R) /\ \A n \in DOMAIN pass.todo : pass.todo[n].session # 0
  <2>1. open \in Seq(R) /\ pass.todo \in Seq(R)
    BY DEF Of, Files, Passes
  <2>2. \A n \in DOMAIN pass.todo : pass.todo[n] \in R
    BY <2>1
  <2> QED
    BY <2>1, <2>2, UnrecordedGood, NaturalIds
<1>4. \A o \in Object : Good(line'[o], log, open, resolved, refusals) /\ Untried(line'[o], log)
  BY <1>2, <1>3, UnrecordedGood DEF Lines
<1>5. Apart(line', pass.todo)
  <2>1. Apart(line, pass.todo)
    BY DEF Lines
  <2>2. ASSUME NEW o \in Object, NEW p \in Object, o # p, Number(line'[o]) # 0
        PROVE  Number(line'[o]) # Number(line'[p])
    BY <1>2, <1>3, <2>1, <2>2 DEF Apart
  <2>3. ASSUME NEW o \in Object, NEW n \in DOMAIN pass.todo
        PROVE  pass.todo[n].session # Number(line'[o])
    BY <1>2, <1>3, <2>1 DEF Apart
  <2> QED
    BY <2>2, <2>3 DEF Apart
<1>6. Lines'
  BY <1>1, <1>4, <1>5 DEF Lines
<1>7. Orders'
  BY DEF Orders
<1> QED
  BY <1>6, <1>7

LEMMA EntersLines ==
  ASSUME JInv, Lines, Orders, Enters
  PROVE  Lines' /\ Orders'
<1>1. PICK R \in SUBSET Record : Of(R)
  BY DEF JInv
<1>2. /\ UNCHANGED <<log, open, resolved, call, pass, refusals>> /\ up' /\ sitting' \in Object
      /\ session' = Collected([session EXCEPT ![sitting'] = Unrecorded])
  BY FreshIsFree DEF Enters, durable, counted
<1>3. session \in [Object -> SessionOf(R)]
  BY <1>1 DEF Of, Parts
<1>4. HeapMoves(sitting', Unrecorded)
  BY <1>2, <1>3, CollectedMoves
<1>5. /\ \A o \in Object : session'[o] \in {session[o], Unrecorded}
      /\ \A o \in Object : o \notin Referenced(sitting', call') => session'[o] = Unrecorded
  BY <1>4 DEF HeapMoves
<1> QED
  BY <1>1, <1>2, <1>5, HolderLines

LEMMA ExitsLines ==
  ASSUME JInv, Lines, Orders, Exits
  PROVE  Lines' /\ Orders'
<1>1. PICK R \in SUBSET Record : Of(R)
  BY DEF JInv
<1>2. /\ UNCHANGED <<log, open, resolved, call, pass, refusals>> /\ up'
      /\ session' = Collected(session)
  BY DEF Exits, durable, counted
<1>3. /\ \A o \in Object : session'[o] \in {session[o], Unrecorded}
      /\ \A o \in Object : o \notin Referenced(sitting', call') => session'[o] = Unrecorded
  BY <1>2 DEF Collected
<1> QED
  BY <1>1, <1>2, <1>3, HolderLines

LEMMA CrashesLines ==
  ASSUME JInv, Lines, Orders, Crashes
  PROVE  Lines' /\ Orders'
<1>1. PICK R \in SUBSET Record : Of(R)
  BY DEF JInv
<1>2. /\ UNCHANGED <<log, open, resolved, refusals>>
      /\ session' = [o \in Object |-> Unrecorded] /\ call' = [k \in Calls |-> Idle]
      /\ pass' = NoPass
  BY DEF Crashes, durable
<1>3. \A o \in Object : line'[o] = Unrecorded
  <2>1. \A k \in Calls : call'[k].at \notin Working
    BY <1>2, Empties, AtStates
  <2>2. \A o \in Object : line'[o] = session'[o]
    BY <2>1, LineElsewhere, LineAt
  <2> QED
    BY <1>2, <2>2
<1>4. pass'.todo = <<>> /\ pass'.at = "checking" /\ pass'.held = {}
  BY <1>2 DEF NoPass
<1>5. open \in Seq(R)
  BY <1>1 DEF Of, Files
<1>6. Shape(sitting', session', call')
  BY <1>2, Empties, AtStates DEF Shape
<1>7. Apart(line', pass'.todo)
  <2>1. Number(Unrecorded) = 0
    BY <1>5, UnrecordedGood
  <2>2. DOMAIN pass'.todo = {}
    BY <1>4
  <2> QED
    BY <1>3, <2>1, <2>2 DEF Apart
<1>8. \A o \in Object : Good(line'[o], log, open, resolved, refusals) /\ Untried(line'[o], log)
  BY <1>3, <1>5, UnrecordedGood
<1>9. \A k \in Calls : Steady(call'[k], log, refusals)
  BY <1>2, IdleSteady
<1>10. Lines'
  BY <1>2, <1>3, <1>6, <1>7, <1>8, <1>9 DEF Lines
<1>11. TodoInOrder(pass', log, open) /\ PassSteady(pass', log)
  BY <1>4 DEF TodoInOrder, PassSteady
<1>12. Orders'
  BY <1>2, <1>11 DEF Orders
<1> QED
  BY <1>10, <1>12

-----------------------------------------------------------------------------
(* Calls at work: their own line, and those of others. *)

LEMMA WorkWay ==
  ASSUME NEW R, Parts(R, call, session, sitting, stamped, log, open), Shape(sitting, session, call),
         NEW c \in Calls, call[c].at \in Working
  PROVE  /\ Way(c, call[c].base, call[c].base)
         /\ Free # {} => Way(c, call[c].base, Fresh)
<1>1. call[c].base \in Object /\ call[c].at \notin {"idle", "extending"}
  BY CallFacts, AtStates
<1>2. \A k \in Calls : k # c /\ call[k].at \in Working => call[k].base # call[c].base
  BY DEF Shape
<1>3. Way(c, call[c].base, call[c].base)
  BY <1>1, <1>2 DEF Way
<1>4. ASSUME Free # {} PROVE Way(c, call[c].base, Fresh)
  <2>1. Fresh \in Object /\ Fresh \notin Referenced(sitting, call)
    BY <1>4, FreshIsFree
  <2>2. \A k \in Calls : call[k].base # Fresh
    BY <2>1 DEF Referenced
  <2> QED
    BY <1>1, <1>2, <2>1, <2>2 DEF Way, Source
<1> QED
  BY <1>3, <1>4

LEMMA GivesUpLines ==
  ASSUME JInv, Lines, Orders, NEW c \in Calls, GivesUp(c)
  PROVE  Lines' /\ Orders'
<1>1. PICK R \in SUBSET Record : Of(R)
  BY DEF JInv
<1> DEFINE x == Held(call[c])
<1>2. /\ UNCHANGED <<log, open, resolved, pass, refusals>> /\ up' /\ Free # {}
      /\ call[c].at \in Working
      /\ \/ Return(c, call[c].base, x)
         \/ Return(c, Fresh, x)
  BY DEF GivesUp, counted, Held, Working
<1>3. Parts(R, call, session, sitting, stamped, log, open) /\ Shape(sitting, session, call)
  BY <1>1 DEF Of, Lines
<1>4. call[c].base \in Object /\ line[call[c].base] = x
  BY <1>2, <1>3, LineOfWork
<1>5. Way(c, call[c].base, call[c].base) /\ Way(c, call[c].base, Fresh)
  BY <1>2, <1>3, WorkWay
<1>6. Good(x, log, open, resolved, refusals) /\ Untried(x, log)
  BY <1>4 DEF Lines
<1> HIDE DEF x
<1> QED
  BY <1>1, <1>2, <1>4, <1>5, <1>6, ReturnLines

\* What a call's step made of its line, and where the call then is.
Went(c, R, lg, op, marked, lost) ==
  /\ Shape(sitting', session', call')
  /\ \A k \in Calls : k # c => call'[k] = call[k]
  /\ \E t \in Object, x \in SessionOf(R) :
       /\ Moves(line, line', call[c].base, t, x)
       /\ Good(x, lg, op, marked, lost) /\ Untried(x, lg)
       /\ Number(x) = Number(line[call[c].base])
  /\ Steady(call'[c], lg, lost)

\* The same, for a call that has written its first record.
WroteFirst(c, R, lg, op, marked, lost) ==
  \E t \in Object, x \in SessionOf(R) :
    /\ Moves(line, line', call[c].base, t, x)
    /\ Good(x, lg, op, marked, lost) /\ Untried(x, lg)
    /\ Number(x) = Number(line[call[c].base])
    /\ x.unwritten.records = Tail(call[c].unwritten.records)

LEMMA WrittenGood ==
  ASSUME NEW R \in SUBSET Record, Parts(R, call, session, sitting, stamped, log, open),
         Shape(sitting, session, call), NEW c \in Calls, call[c].at \in Working \ {"journaling"},
         Free # {}, NEW lg, NEW op, NEW marked, NEW lost,
         Good(line[call[c].base], lg, op, marked, lost), Contains(lg, Current(c)), Written(c)
  PROVE  /\ Shape(sitting', session', call')
         /\ \A k \in Calls : k # c => call'[k] = call[k]
         /\ WroteFirst(c, R, lg, op, marked, lost)
         /\ Steady(call'[c], lg, lost)
<1>1. call[c].at \in Working
  OBVIOUS
<1>2. /\ call[c] \in CallOf(R) /\ call[c].unwritten \in UnwrittenOf(R)
      /\ call[c].unwritten.records \in Seq(R) /\ call[c].unwritten.records # <<>>
      /\ Current(c) = call[c].unwritten.records[1] /\ Current(c) \in R
      /\ line[call[c].base] = Held(call[c])
      /\ call \in [Calls -> CallOf(R)] /\ call[c].base \in Object
  BY <1>1, AtWork, LineOfWork DEF Parts
<1>3. /\ Held(call[c]) \in SessionOf(R) /\ Held(call[c]).unwritten = call[c].unwritten
  BY <1>2, HeldTypes
<1> DEFINE w == Wrote(c)
<1>4. /\ w \in CallOf(R) /\ w.written = Current(c) /\ w.before = call[c].before
      /\ w.base = call[c].base /\ w.unwritten \in UnwrittenOf(R)
      /\ w.unwritten.records = Tail(call[c].unwritten.records)
      /\ w.unwritten.failed = call[c].unwritten.failed
      /\ w.unwritten.journaled = call[c].unwritten.journaled
  BY <1>1, WroteFields
<1>5. Way(c, call[c].base, Fresh) /\ Fresh \in Object
  BY <1>1, WorkWay, FreshIsFree
<1>6. CASE w.unwritten.records = <<>>
  <2> DEFINE x == [record |-> w.written, unwritten |-> Nothing]
  <2>1. Return(c, Fresh, x)
    BY <1>6 DEF Written, Wrote
  <2> HIDE DEF w
  <2>2. /\ x \in SessionOf(R) /\ x.record = Current(c) /\ x.unwritten.records = <<>>
    BY <1>2, <1>4, Empties DEF SessionOf
  <2> HIDE DEF x
  <2>3. Good(x, lg, op, marked, lost) /\ Untried(x, lg) /\ Number(x) = Number(line[call[c].base])
    <3>1. PICK h \in SessionOf(R) : h = Held(call[c])
      BY <1>3
    <3>2. /\ Good(h, lg, op, marked, lost) /\ h.unwritten.records # <<>>
          /\ Contains(lg, h.unwritten.records[1]) /\ x.record = h.unwritten.records[1]
          /\ x.unwritten.records = Tail(h.unwritten.records) /\ Tail(h.unwritten.records) = <<>>
          /\ h = line[call[c].base]
      BY <1>2, <1>3, <1>4, <1>6, <2>2, <3>1
    <3> QED
      BY <3>1, <3>2, WroteGood
  <2>4. Shape(sitting', session', call') /\ Moves(line, line', call[c].base, Fresh, x)
    BY <1>5, <2>1, ReturnMoves
  <2>5. \A k \in Calls : call'[k] = IF k = c THEN Idle ELSE call[k]
    BY <1>2, <2>1 DEF Return
  <2> QED
    BY <1>4, <1>5, <1>6, <2>2, <2>3, <2>4, <2>5, IdleSteady DEF WroteFirst
<1>7. CASE w.unwritten.records # <<>>
  <2> DEFINE v == [w EXCEPT !.at = IF w.unwritten.failed > 0 THEN "checking" ELSE "appending"]
             x == Held(v)
  <2>1. call' = [call EXCEPT ![c] = v] /\ UNCHANGED <<session, sitting>>
    BY <1>7 DEF Written, Wrote
  <2> HIDE DEF w
  <2>2. /\ v \in CallOf(R) /\ v.base = w.base /\ v.before = w.before /\ v.unwritten = w.unwritten
        /\ v.at = (IF w.unwritten.failed > 0 THEN "checking" ELSE "appending")
        /\ v.at \in Working /\ v.written = w.written
    BY <1>4 DEF CallOf, Working
  <2> HIDE DEF v
  <2>3. x \in SessionOf(R) /\ x.record = Current(c) /\ x.unwritten = w.unwritten
    BY <1>4, <2>2, HeldTypes
  <2>4. Shape(sitting', session', call') /\ Moves(line, line', call[c].base, call[c].base, x)
    BY <1>1, <1>4, <2>1, <2>2, WorkMoves
  <2> HIDE DEF x
  <2>5. Good(x, lg, op, marked, lost) /\ Untried(x, lg) /\ Number(x) = Number(line[call[c].base])
    BY <1>2, <1>3, <1>4, <2>3, WroteGood
  <2>6. \A k \in Calls : call'[k] = IF k = c THEN v ELSE call[k]
    BY <1>2, <2>1
  <2>7. Steady(v, lg, lost)
    <3>1. w.unwritten.records \in Seq(R) /\ w.unwritten.failed \in Nat
      <4>1. w.unwritten.records \in Seq(R) /\ w.unwritten.failed \in 0..MaxAttempts
        BY <1>4, Fields
      <4> QED
        BY <4>1, Constants
    <3>2. 1 \in DOMAIN w.unwritten.records
      BY <1>7, <3>1
    <3>3. w.unwritten.failed = 0 => ~Contains(lg, w.unwritten.records[1])
      BY <2>3, <2>5, <3>2 DEF Untried
    <3> QED
      BY <2>2, <3>1, <3>3 DEF Steady
  <2> QED
    BY <1>2, <1>4, <2>3, <2>4, <2>5, <2>6, <2>7 DEF WroteFirst
<1> QED
  BY <1>6, <1>7

LEMMA LandedGood ==
  ASSUME NEW R \in SUBSET Record, Parts(R, call, session, sitting, stamped, log, open),
         Shape(sitting, session, call), NEW c \in Calls, call[c].at \in {"checking", "appending"},
         Free # {}, NEW lg, NEW op, NEW marked, NEW lost,
         Good(line[call[c].base], lg, op, marked, lost), Contains(lg, Current(c)), Landed(c)
  PROVE  Went(c, R, lg, op, marked, lost)
<1>1. call[c].at \in Working \ {"journaling"} /\ call[c].at \in Working
  BY AllWorking
<1>2. CASE Written(c)
  <2>1. /\ Shape(sitting', session', call')
        /\ \A k \in Calls : k # c => call'[k] = call[k]
        /\ Steady(call'[c], lg, lost)
    BY <1>1, <1>2, WrittenGood
  <2>2. PICK t \in Object, x \in SessionOf(R) :
          /\ Moves(line, line', call[c].base, t, x)
          /\ Good(x, lg, op, marked, lost) /\ Untried(x, lg)
          /\ Number(x) = Number(line[call[c].base])
    <3>1. WroteFirst(c, R, lg, op, marked, lost)
      BY <1>1, <1>2, WrittenGood
    <3> QED
      BY <3>1 DEF WroteFirst
  <2> QED
    BY <2>1, <2>2 DEF Went
<1>3. CASE ~(call[c].unwritten.journaled[Current(c).id] = "none")
  <2>1. /\ call[c] \in CallOf(R) /\ call[c].unwritten.records \in Seq(R)
        /\ call[c].unwritten.records # <<>> /\ Current(c) = call[c].unwritten.records[1]
        /\ line[call[c].base] = Held(call[c])
        /\ call \in [Calls -> CallOf(R)] /\ call[c].base \in Object
    BY <1>1, AtWork, LineOfWork DEF Parts
  <2> DEFINE w == [call[c] EXCEPT !.at = "marking"]
  <2>2. call' = [call EXCEPT ![c] = w] /\ UNCHANGED <<session, sitting>>
    BY <1>3 DEF Landed
  <2>3. /\ w \in CallOf(R) /\ w.at = "marking" /\ w.at \in Working /\ w.base = call[c].base
        /\ w.before = call[c].before /\ w.unwritten = call[c].unwritten /\ w.written = call[c].written
    BY <2>1 DEF CallOf, Working
  <2> HIDE DEF w
  <2>4. /\ Held(w) \in SessionOf(R) /\ Held(w) = line[call[c].base]
        /\ Held(call[c]).unwritten = call[c].unwritten
    BY <2>1, <2>3, HeldTypes DEF Held
  <2>5. Shape(sitting', session', call') /\ Moves(line, line', call[c].base, call[c].base, Held(w))
    BY <1>1, <2>2, <2>3, WorkMoves
  <2>6. call[c].unwritten.failed # 0
    <3>1. 1 \in DOMAIN call[c].unwritten.records
      BY <2>1
    <3>2. Unlanded(Held(call[c]), lg, op, marked)
      BY <2>1 DEF Good
    <3> QED
      BY <1>3, <2>1, <2>4, <3>1, <3>2 DEF Unlanded
  <2>7. Untried(Held(w), lg) /\ Steady(w, lg, lost)
    BY <2>1, <2>3, <2>4, <2>6 DEF Untried, Steady
  <2>8. \A k \in Calls : call'[k] = IF k = c THEN w ELSE call[k]
    BY <2>1, <2>2
  <2> QED
    BY <2>1, <2>4, <2>5, <2>7, <2>8 DEF Went
<1> QED
  BY <1>2, <1>3 DEF Landed

LEMMA FailsGood ==
  ASSUME NEW R \in SUBSET Record, Parts(R, call, session, sitting, stamped, log, open),
         Shape(sitting, session, call), NEW c \in Calls, call[c].at \in {"checking", "appending"},
         NEW lg, NEW op, NEW marked, NEW lost,
         Good(line[call[c].base], lg, op, marked, lost), FailsToWrite(c)
  PROVE  Went(c, R, lg, op, marked, lost)
<1>1. call[c].at \in Working
  BY AllWorking
<1>2. /\ call[c] \in CallOf(R) /\ call[c].unwritten \in UnwrittenOf(R)
      /\ line[call[c].base] = Held(call[c])
      /\ call \in [Calls -> CallOf(R)] /\ call[c].base \in Object
  BY <1>1, AtWork, LineOfWork DEF Parts
<1>3. PICK w \in CallOf(R) :
        /\ call' = [call EXCEPT ![c] = w]
        /\ w.at = "journaling" /\ w.next = 1
        /\ w.before = call[c].before /\ w.base = call[c].base /\ w.written = call[c].written
        /\ w.unwritten.records = call[c].unwritten.records
        /\ w.unwritten.failed = call[c].unwritten.failed + 1
        /\ w.unwritten.journaled = call[c].unwritten.journaled
  <2>1. \E w \in CallOf(R) :
          /\ call' = [call EXCEPT ![c] = w]
          /\ w.at = "journaling" /\ w.next = 1
          /\ w.before = call[c].before /\ w.base = call[c].base /\ w.written = call[c].written
          /\ w.unwritten = [call[c].unwritten EXCEPT !.failed = @ + 1]
          /\ w.unwritten.records = call[c].unwritten.records
          /\ w.unwritten.failed = call[c].unwritten.failed + 1
          /\ w.unwritten.journaled = call[c].unwritten.journaled
    BY FailedParts
  <2> QED
    BY <2>1
<1>4. w.at \in Working /\ UNCHANGED <<session, sitting>>
  BY <1>3, AllWorking DEF FailsToWrite
<1>5. Shape(sitting', session', call') /\ Moves(line, line', call[c].base, call[c].base, Held(w))
  BY <1>1, <1>3, <1>4, WorkMoves
<1>6. /\ w.unwritten.failed > 0 /\ w.unwritten.failed # 0
      /\ DOMAIN w.unwritten.records \subseteq Nat \ {0}
  <2>1. call[c].unwritten.failed \in 0..MaxAttempts /\ call[c].unwritten.records \in Seq(R)
    BY <1>2, Fields
  <2>2. w.unwritten.records \in Seq(R)
    BY <1>3, <2>1
  <2> QED
    BY <1>3, <2>1, <2>2, Constants
<1>7. /\ Held(w) \in SessionOf(R) /\ Held(w).record = w.written /\ Held(w).unwritten = w.unwritten
      /\ Held(call[c]).record = call[c].written /\ Held(call[c]).unwritten = call[c].unwritten
  BY <1>2, HeldTypes
<1>8. Good(Held(w), lg, op, marked, lost) /\ Untried(Held(w), lg) /\ Number(Held(w)) = Number(line[call[c].base])
  BY <1>2, <1>3, <1>6, <1>7, FailedGood
<1>9. Steady(w, lg, lost)
  BY <1>3, <1>6 DEF Steady
<1>10. \A k \in Calls : call'[k] = IF k = c THEN w ELSE call[k]
  BY <1>2, <1>3
<1> QED
  BY <1>2, <1>5, <1>7, <1>8, <1>9, <1>10 DEF Went

\* The line of a call at work is not without a session, and no other line has that session.
LEMMA WorkFacts ==
  ASSUME NEW R \in SUBSET Record, Of(R), Lines, NEW c \in Calls, call[c].at \in Working
  PROVE  /\ call[c].base \in Object /\ line[call[c].base] = Held(call[c])
         /\ Held(call[c]) \in SessionOf(R) /\ Held(call[c]).unwritten = call[c].unwritten
         /\ call[c].unwritten.records \in Seq(R) /\ 1 \in DOMAIN call[c].unwritten.records
         /\ call[c].unwritten.records # <<>>
         /\ \A i \in DOMAIN call[c].unwritten.records :
              /\ call[c].unwritten.records[i] \in R
              /\ call[c].unwritten.records[i].session = Number(line[call[c].base])
         /\ Current(c) = call[c].unwritten.records[1] /\ Current(c) \in R
         /\ Number(line[call[c].base]) # 0
         /\ \A o \in Object : o # call[c].base => Number(line[o]) # Number(line[call[c].base])
         /\ \A n \in DOMAIN pass.todo : pass.todo[n].session # Number(line[call[c].base])
<1>1. Parts(R, call, session, sitting, stamped, log, open) /\ Shape(sitting, session, call)
  BY DEF Of, Lines
<1>2. call[c].base \in Object /\ line[call[c].base] = Held(call[c])
  BY <1>1, LineOfWork
<1>3. /\ call[c] \in CallOf(R) /\ call[c].unwritten.records \in Seq(R)
      /\ call[c].unwritten.records # <<>>
      /\ Current(c) = call[c].unwritten.records[1] /\ Current(c) \in R
  BY <1>1, AtWork
<1>4. Held(call[c]) \in SessionOf(R) /\ Held(call[c]).unwritten = call[c].unwritten
  BY <1>3, HeldTypes
<1>5. /\ 1 \in DOMAIN call[c].unwritten.records
      /\ \A i \in DOMAIN call[c].unwritten.records : call[c].unwritten.records[i] \in R
  BY <1>3
<1>6. \A i \in DOMAIN call[c].unwritten.records :
        call[c].unwritten.records[i].session = Number(line[call[c].base])
  <2>1. Chain(line[call[c].base])
    BY <1>2 DEF Lines, Good
  <2> QED
    BY <1>2, <1>4, <2>1 DEF Chain
<1>7. Number(line[call[c].base]) # 0
  BY <1>5, <1>6, NaturalIds
<1>8. /\ \A o \in Object : o # call[c].base => Number(line[o]) # Number(line[call[c].base])
      /\ \A n \in DOMAIN pass.todo : pass.todo[n].session # Number(line[call[c].base])
  BY <1>2, <1>7 DEF Lines, Apart
<1> QED
  BY <1>2, <1>3, <1>4, <1>5, <1>6, <1>7, <1>8

\* A step that touches, in the files, only records of session n.
Touches(R, n) ==
  /\ log' \in Seq(R) /\ open' \in Seq(R) /\ (refusals' = 0 => refusals = 0)
  /\ \A q \in R : q.session # n =>
       /\ Contains(log', q) <=> Contains(log, q)
       /\ Contains(open', q) <=> Contains(open, q)
       /\ q.id \in resolved' <=> q.id \in resolved

LEMMA OtherLines ==
  ASSUME NEW R \in SUBSET Record, Of(R), Lines, NEW n, Touches(R, n)
  PROVE  /\ \A o \in Object : Number(line[o]) # n =>
              Good(line[o], log', open', resolved', refusals') /\ Untried(line[o], log')
         /\ \A k \in Calls :
              (call[k].at \in Working => Number(line[call[k].base]) # n) =>
                Steady(call[k], log', refusals')
<1>1. log \in Seq(R) /\ open \in Seq(R)
  BY DEF Of, Files
<1>2. ASSUME NEW o \in Object, Number(line[o]) # n
      PROVE  Good(line[o], log', open', resolved', refusals') /\ Untried(line[o], log')
  <2>1. line[o] \in SessionOf(R)
    BY Numbers
  <2>2. Good(line[o], log, open, resolved, refusals) /\ Untried(line[o], log)
    BY DEF Lines
  <2>3. PICK y \in SessionOf(R) : y = line[o]
    BY <2>1
  <2>4. \A q \in R : Contains(y.unwritten.records, q) => q.session = Number(y)
    BY <2>2, <2>3, RecordsOf DEF Good, Chain
  <2>5. PICK lg, op, marked, lost :
          /\ lg = log' /\ op = open' /\ marked = resolved' /\ lost = refusals'
          /\ lg \in Seq(R) /\ op \in Seq(R)
    BY DEF Touches
  <2>6. SameFor(R, y, log, open, resolved, lg, op, marked)
    BY <1>2, <2>3, <2>4, <2>5 DEF SameFor, Touches
  <2>7. lost = 0 => refusals = 0
    BY <2>5 DEF Touches
  <2>8. Good(y, log, open, resolved, refusals) /\ Untried(y, log)
    BY <2>2, <2>3
  <2>9. Good(y, lg, op, marked, lost) /\ Untried(y, lg)
    BY <1>1, <2>5, <2>6, <2>7, <2>8, GoodKept
  <2> QED
    BY <2>3, <2>5, <2>9
<1>3. ASSUME NEW k \in Calls, call[k].at \in Working => Number(line[call[k].base]) # n
      PROVE  Steady(call[k], log', refusals')
  <2>1. CASE call[k].at \notin Working
    BY <2>1 DEF Steady, Working
  <2>2. CASE call[k].at \in Working
    <3>1. /\ call[k].unwritten.records[1] \in R
          /\ call[k].unwritten.records[1].session = Number(line[call[k].base])
      BY <2>2, WorkFacts
    <3>2. Contains(log', call[k].unwritten.records[1]) <=> Contains(log, call[k].unwritten.records[1])
      BY <1>3, <2>2, <3>1 DEF Touches
    <3>3. Steady(call[k], log, refusals) /\ (refusals' = 0 => refusals = 0)
      BY DEF Lines, Touches
    <3> QED
      BY <3>2, <3>3 DEF Steady
  <2> QED
    BY <2>1, <2>2
<1> QED
  BY <1>2, <1>3

\* The step of a call that touches, in the files, no record of a session not its own.
LEMMA CallStep ==
  ASSUME NEW R \in SUBSET Record, Of(R), Lines, NEW c \in Calls, call[c].at \in Working,
         UNCHANGED pass, up', Touches(R, Number(line[call[c].base])),
         Went(c, R, log', open', resolved', refusals')
  PROVE  Lines'
<1> DEFINE b == call[c].base
<1>1. /\ b \in Object
      /\ \A o \in Object : o # b => Number(line[o]) # Number(line[b])
  BY WorkFacts
<1>2. pass.todo \in Seq(R) /\ open' \in Seq(R)
  BY DEF Of, Passes, Touches
<1>3. /\ Shape(sitting', session', call')
      /\ \A k \in Calls : k # c => call'[k] = call[k]
      /\ Steady(call'[c], log', refusals')
  BY DEF Went
<1>4. PICK t \in Object, x \in SessionOf(R) :
        /\ Moves(line, line', b, t, x)
        /\ Good(x, log', open', resolved', refusals') /\ Untried(x, log')
        /\ Number(x) = Number(line[b])
  BY DEF Went
<1>5. \A o \in Object : o # b =>
        Good(line[o], log', open', resolved', refusals') /\ Untried(line[o], log')
  BY <1>1, OtherLines
<1>6. \A o \in Object : Good(line'[o], log', open', resolved', refusals') /\ Untried(line'[o], log')
  BY <1>2, <1>4, <1>5, GoodAfter
<1>7. Apart(line', pass.todo)
  <2>1. Apart(line, pass.todo)
    BY DEF Lines
  <2>2. \A n \in DOMAIN pass.todo : \E k \in DOMAIN pass.todo : pass.todo[n].session = pass.todo[k].session
    OBVIOUS
  <2>3. SameOrNew(x, line, b, pass.todo)
    BY <1>4 DEF SameOrNew
  <2> HIDE DEF b
  <2> QED
    BY <1>1, <1>2, <1>4, <2>1, <2>2, <2>3, ApartAfter, Zenon
<1>8. ASSUME NEW k \in Calls PROVE Steady(call'[k], log', refusals')
  <2>1. CASE k = c
    BY <1>3, <2>1
  <2>2. CASE k # c
    <3>1. call[k].at \in Working => call[k].base # b /\ call[k].base \in Object
      BY <2>2, WorkFacts DEF Lines, Shape
    <3>2. call[k].at \in Working => Number(line[call[k].base]) # Number(line[b])
      BY <1>1, <3>1
    <3> QED
      BY <1>3, <2>2, <3>2, OtherLines
  <2> QED
    BY <2>1, <2>2
<1> QED
  BY <1>3, <1>6, <1>7, <1>8 DEF Lines

\* Nothing in the order of the files has changed.
LEMMA SameOrders ==
  ASSUME Orders, UNCHANGED <<log, open, pass>>, refusals' = 0 => refusals = 0
  PROVE  Orders'
BY DEF Orders

LEMMA ChecksLines ==
  ASSUME JInv, Lines, Orders, NEW c \in Calls, Checks(c)
  PROVE  Lines' /\ Orders'
<1>1. PICK R \in SUBSET Record : Of(R)
  BY DEF JInv
<1>2. /\ UNCHANGED <<log, open, resolved, pass, refusals>> /\ up'
      /\ call[c].at = "checking" /\ call[c].at \in {"checking", "appending"} /\ call[c].at \in Working
  BY AllWorking DEF Checks, counted, FailsToWrite, Fails
<1>3. Parts(R, call, session, sitting, stamped, log, open) /\ Shape(sitting, session, call)
  BY <1>1 DEF Of, Lines
<1>4. /\ call[c].base \in Object /\ line[call[c].base] = Held(call[c])
      /\ Current(c) = call[c].unwritten.records[1]
      /\ Good(line[call[c].base], log, open, resolved, refusals) /\ Untried(line[call[c].base], log)
  BY <1>1, <1>2, WorkFacts DEF Lines
<1>5. Went(c, R, log, open, resolved, refusals)
  <2>1. CASE InLog(Current(c)) /\ Free # {} /\ Landed(c)
    BY <1>2, <1>3, <1>4, <2>1, LandedGood DEF InLog
  <2>2. CASE FailsToWrite(c)
    BY <1>2, <1>3, <1>4, <2>2, FailsGood
  <2>3. CASE /\ ~InLog(Current(c)) /\ UNCHANGED <<sitting, session, stamped>>
             /\ call' = [call EXCEPT ![c].at = "appending"]
    <3> DEFINE w == [call[c] EXCEPT !.at = "appending"]
    <3>1. call[c] \in CallOf(R) /\ call \in [Calls -> CallOf(R)]
      BY <1>3 DEF Parts
    <3>2. call' = [call EXCEPT ![c] = w] /\ UNCHANGED <<session, sitting>>
      BY <2>3
    <3>3. /\ w \in CallOf(R) /\ w.at = "appending" /\ w.at \in Working /\ w.base = call[c].base
          /\ w.before = call[c].before /\ w.unwritten = call[c].unwritten
          /\ w.written = call[c].written
      BY <3>1 DEF CallOf, Working
    <3> HIDE DEF w
    <3>4. Held(w) \in SessionOf(R) /\ Held(w) = line[call[c].base]
      BY <1>4, <3>3, HeldTypes DEF Held
    <3>5. Shape(sitting', session', call') /\ Moves(line, line', call[c].base, call[c].base, Held(w))
      BY <1>2, <1>3, <3>2, <3>3, WorkMoves
    <3>6. Steady(w, log, refusals)
      BY <1>4, <2>3, <3>3 DEF Steady, InLog
    <3>7. \A k \in Calls : call'[k] = IF k = c THEN w ELSE call[k]
      BY <3>1, <3>2
    <3> QED
      BY <1>4, <3>4, <3>5, <3>6, <3>7 DEF Went
  <2> QED
    BY <2>1, <2>2, <2>3 DEF Checks
<1>6. Lines'
  <2>1. Touches(R, Number(line[call[c].base]))
    BY <1>1, <1>2 DEF Of, Files, Touches
  <2>2. Went(c, R, log', open', resolved', refusals')
    BY <1>2, <1>5
  <2> QED
    BY <1>1, <1>2, <2>1, <2>2, CallStep
<1> QED
  BY <1>2, <1>6, SameOrders

-----------------------------------------------------------------------------
(* A record that lands. *)

\* Where record r may go into the log: its session begins with it or is there, and it is later
\* than those of its session there, and earlier than those of the journal.
MayLand(r, lg, op) ==
  /\ \A n \in DOMAIN lg : lg[n].session = r.session => lg[n].id <= r.id
  /\ r.id = r.session \/ \E n \in DOMAIN lg : lg[n].id = r.session
  /\ \A n \in DOMAIN op :
       op[n].session = r.session /\ ~Contains(lg, op[n]) /\ op[n] # r => r.id < op[n].id

LEMMA LandedOrders ==
  ASSUME NEW R \in SUBSET Record, NEW lg \in Seq(R), NEW op \in Seq(R), NEW r \in R,
         ~Contains(lg, r), Once(lg)
  PROVE  /\ Once(Append(lg, r))
         /\ LogInOrder(lg) /\ JournalInOrder(lg, op) /\ MayLand(r, lg, op) =>
              LogInOrder(Append(lg, r)) /\ JournalInOrder(Append(lg, r), op)
<1> DEFINE lg2 == Append(lg, r)
           l == Len(lg) + 1
<1>1. /\ DOMAIN lg2 = 1..l /\ DOMAIN lg = 1..Len(lg) /\ Len(lg) \in Nat
      /\ \A i \in DOMAIN lg : lg2[i] = lg[i]
      /\ lg2[l] = r
      /\ \A q : Contains(lg2, q) <=> Contains(lg, q) \/ q = r
  BY Appended
<1>2. /\ \A i \in DOMAIN lg2 : (i \in DOMAIN lg /\ lg2[i] = lg[i]) \/ (i = l /\ lg2[i] = r)
      /\ \A i \in DOMAIN lg : i \in DOMAIN lg2 /\ lg2[i] = lg[i] /\ i < l /\ lg[i] \in R /\ lg[i] # r
      /\ l \in DOMAIN lg2 /\ l \in Nat
  <2>1. ASSUME NEW i \in DOMAIN lg2
        PROVE  (i \in DOMAIN lg /\ lg2[i] = lg[i]) \/ (i = l /\ lg2[i] = r)
    <3>1. i \in DOMAIN lg \/ i = l
      BY <1>1
    <3> QED
      BY <1>1, <3>1
  <2>2. \A i \in DOMAIN lg : i \in DOMAIN lg2 /\ lg2[i] = lg[i] /\ i < l
    BY <1>1
  <2>3. \A i \in DOMAIN lg : lg[i] \in R /\ lg[i] # r
    BY Holdings
  <2> QED
    BY <1>1, <2>1, <2>2, <2>3
<1>3. \A q : Contains(lg2, q) <=> Contains(lg, q) \/ q = r
  BY <1>1
<1> HIDE DEF lg2, l
<1>4. Once(lg2)
  BY <1>2 DEF Once
<1>5. ASSUME LogInOrder(lg), JournalInOrder(lg, op), MayLand(r, lg, op)
      PROVE  LogInOrder(lg2)
  <2>1. ASSUME NEW k \in DOMAIN lg2, NEW i \in DOMAIN lg2,
               lg2[i].session = lg2[k].session, lg2[i].id < lg2[k].id
        PROVE  i < k
    <3>1. CASE i \in DOMAIN lg /\ k \in DOMAIN lg
      BY <1>2, <1>5, <2>1, <3>1 DEF LogInOrder
    <3>2. CASE i \in DOMAIN lg /\ k = l
      BY <1>2, <3>2
    <3>3. CASE i = l /\ k \in DOMAIN lg
      <4>1. lg[k].id <= r.id /\ r.id < lg[k].id
        BY <1>2, <1>5, <2>1, <3>3 DEF MayLand
      <4>2. lg[k].id \in Nat /\ r.id \in Nat
        BY <1>2, <3>3, NaturalIds
      <4> QED
        BY <4>1, <4>2
    <3>4. CASE i = l /\ k = l
      BY <2>1, <3>4, <1>2, NaturalIds
    <3> QED
      BY <1>2, <3>1, <3>2, <3>3, <3>4
  <2>2. ASSUME NEW k \in DOMAIN lg2
        PROVE  \E i \in DOMAIN lg2 : lg2[i].id = lg2[k].session
    <3>1. CASE k \in DOMAIN lg
      <4>1. PICK i \in DOMAIN lg : lg[i].id = lg[k].session
        BY <1>5, <3>1 DEF LogInOrder
      <4> QED
        BY <1>2, <3>1, <4>1
    <3>2. CASE k = l
      BY <1>2, <1>5, <3>2 DEF MayLand
    <3> QED
      BY <1>2, <3>1, <3>2
  <2> QED
    BY <2>1, <2>2 DEF LogInOrder
<1>6. ASSUME JournalInOrder(lg, op), MayLand(r, lg, op)
      PROVE  JournalInOrder(lg2, op)
  <2>1. ASSUME NEW n \in DOMAIN op, ~Contains(lg2, op[n])
        PROVE  /\ \A i \in DOMAIN lg2 : lg2[i].session = op[n].session => lg2[i].id < op[n].id
               /\ \/ \E i \in DOMAIN lg2 : lg2[i].id = op[n].session
                  \/ \E i \in DOMAIN op : op[i].id = op[n].session /\ op[i].session = op[n].session
    <3>1. ~Contains(lg, op[n]) /\ op[n] # r
      BY <1>3, <2>1
    <3>2. \A i \in DOMAIN lg2 : lg2[i].session = op[n].session => lg2[i].id < op[n].id
      BY <1>2, <1>6, <3>1 DEF JournalInOrder, MayLand
    <3>3. \/ \E i \in DOMAIN lg : lg[i].id = op[n].session
          \/ \E i \in DOMAIN op : op[i].id = op[n].session /\ op[i].session = op[n].session
      BY <1>6, <3>1 DEF JournalInOrder
    <3> QED
      BY <1>2, <3>2, <3>3
  <2> QED
    BY <1>6, <2>1 DEF JournalInOrder
<1> QED
  BY <1>4, <1>5, <1>6 DEF lg2

\* The first record of a line that has lost no journal line may land.
LEMMA FirstMayLand ==
  ASSUME NEW R \in SUBSET Record, NEW lg \in Seq(R), NEW op \in Seq(R), NEW marked,
         NEW x \in SessionOf(R), Good(x, lg, op, marked, 0), 1 \in DOMAIN x.unwritten.records,
         LogInOrder(lg)
  PROVE  MayLand(x.unwritten.records[1], lg, op)
<1> DEFINE rs == x.unwritten.records
           r == rs[1]
<1>1. Chain(x) /\ Unlanded(x, lg, op, marked) /\ InLine(x, lg, op)
  BY DEF Good
<1>2. DOMAIN rs \subseteq Nat \ {0} /\ \A i \in DOMAIN rs : rs[i] \in R
  BY RecordsOf
<1>3. r.session = Number(x) /\ r \in R
  BY <1>1, <1>2 DEF Chain
<1>4. \A n \in DOMAIN lg : lg[n].session = r.session => lg[n].id <= r.id
  BY <1>1, <1>3 DEF InLine
<1>5. r.id = r.session \/ \E n \in DOMAIN lg : lg[n].id = r.session
  <2>1. CASE x.record = NoRecord
    <3>1. rs # <<>>
      BY Empties
    <3> QED
      BY <1>1, <2>1, <3>1 DEF Chain
  <2>2. CASE x.record # NoRecord
    <3>1. Contains(lg, x.record) /\ x.record.session = r.session
      BY <1>1, <1>3, <2>2 DEF Unlanded, Chain
    <3>2. PICK n \in DOMAIN lg : lg[n] = x.record
      BY <3>1, Holdings
    <3> QED
      BY <3>1, <3>2 DEF LogInOrder
  <2> QED
    BY <2>1, <2>2
<1>6. ASSUME NEW n \in DOMAIN op, op[n].session = r.session, ~Contains(lg, op[n]), op[n] # r
      PROVE  r.id < op[n].id
  <2>1. Contains(rs, op[n])
    BY <1>1, <1>3, <1>6 DEF InLine
  <2>2. PICK i \in DOMAIN rs : rs[i] = op[n]
    BY <2>1, RecordsOf
  <2>3. i # 1 /\ i \in Nat \ {0}
    BY <1>2, <1>6, <2>2
  <2>4. 1 < i
    BY <2>3
  <2> QED
    BY <1>1, <2>2, <2>4 DEF Chain
<1> QED
  BY <1>4, <1>5, <1>6 DEF MayLand

LEMMA AppendsLines ==
  ASSUME JInv, Lines, Orders, NEW c \in Calls, Appends(c)
  PROVE  Lines' /\ Orders'
<1>1. PICK R \in SUBSET Record : Of(R)
  BY DEF JInv
<1> DEFINE b == call[c].base
           r == Current(c)
<1>2. /\ UNCHANGED <<open, resolved, pass, refusals>> /\ up'
      /\ call[c].at = "appending" /\ call[c].at \in {"checking", "appending"} /\ call[c].at \in Working
  BY AllWorking DEF Appends, counted, FailsToWrite, Fails
<1>3. /\ Parts(R, call, session, sitting, stamped, log, open) /\ Shape(sitting, session, call)
      /\ log \in Seq(R) /\ open \in Seq(R)
  BY <1>1 DEF Of, Lines, Files
<1>4. /\ b \in Object /\ line[b] = Held(call[c])
      /\ line[b].unwritten.records = call[c].unwritten.records
      /\ 1 \in DOMAIN line[b].unwritten.records /\ line[b].unwritten.records # <<>>
      /\ r = line[b].unwritten.records[1] /\ r \in R /\ r.session = Number(line[b])
      /\ line[b] \in SessionOf(R)
      /\ \A n \in DOMAIN pass.todo : pass.todo[n].session # r.session
  BY <1>1, <1>2, WorkFacts
<1>5. Good(line[b], log, open, resolved, refusals) /\ ~Contains(log, r)
  <2>1. Steady(call[c], log, refusals)
    BY DEF Lines
  <2> QED
    BY <1>2, <1>4, <2>1 DEF Lines, Steady
<1>6. CASE log' = log /\ FailsToWrite(c)
  <2>1. Went(c, R, log, open, resolved, refusals)
    BY <1>2, <1>3, <1>5, <1>6, FailsGood
  <2>2. Touches(R, Number(line[call[c].base]))
    BY <1>2, <1>3, <1>6 DEF Touches
  <2>3. Went(c, R, log', open', resolved', refusals')
    BY <1>2, <1>6, <2>1
  <2> QED
    BY <1>1, <1>2, <1>6, <2>2, <2>3, CallStep, SameOrders
<1>7. CASE /\ log' = Append(log, r)
           /\ (Free # {} /\ Landed(c)) \/ FailsToWrite(c)
  <2>1. PICK lg \in Seq(R) : lg = Append(log, r)
    BY <1>3, <1>4, Appended
  <2>2. \A q : Contains(lg, q) <=> Contains(log, q) \/ q = r
    BY <1>3, <1>4, <2>1, Appended
  <2>3. Good(line[b], lg, open, resolved, refusals)
    BY <1>3, <1>4, <1>5, <2>1, AppendGood
  <2>4. Went(c, R, lg, open, resolved, refusals)
    <3>1. CASE Free # {} /\ Landed(c)
      <4>1. Contains(lg, Current(c))
        BY <2>2
      <4> QED
        BY <1>2, <1>3, <2>3, <3>1, <4>1, LandedGood
    <3>2. CASE FailsToWrite(c)
      BY <1>2, <1>3, <2>3, <3>2, FailsGood
    <3> QED
      BY <1>7, <3>1, <3>2
  <2>5. Lines'
    <3>1. Touches(R, Number(line[call[c].base]))
      BY <1>2, <1>3, <1>4, <1>7, <2>1, <2>2 DEF Touches
    <3>2. Went(c, R, log', open', resolved', refusals')
      BY <1>2, <1>7, <2>1, <2>4
    <3> QED
      BY <1>1, <1>2, <3>1, <3>2, CallStep
  <2>6. PassSteady(pass, lg)
    <3>1. pass.todo \in Seq(R) /\ PassSteady(pass, log)
      BY <1>1 DEF Of, Passes, Orders
    <3>2. ASSUME pass.todo # <<>> PROVE pass.todo[1] # r
      <4>1. 1 \in DOMAIN pass.todo
        BY <3>1, <3>2
      <4> QED
        BY <1>4, <4>1
    <3> QED
      BY <2>2, <3>1, <3>2 DEF PassSteady
  <2>7. Once(lg)
    BY <1>3, <1>4, <1>5, <2>1, LandedOrders DEF Orders
  <2>8. ASSUME refusals = 0
        PROVE  LogInOrder(lg) /\ JournalInOrder(lg, open) /\ TodoInOrder(pass, lg, open)
    <3>1. LogInOrder(log) /\ JournalInOrder(log, open) /\ TodoInOrder(pass, log, open)
      BY <2>8 DEF Orders
    <3>2. PICK x \in SessionOf(R) : x = line[b]
      BY <1>4
    <3>3. MayLand(r, log, open)
      BY <1>3, <1>4, <1>5, <2>8, <3>1, <3>2, FirstMayLand
    <3>4. LogInOrder(lg) /\ JournalInOrder(lg, open)
      BY <1>3, <1>4, <1>5, <2>1, <3>1, <3>3, LandedOrders DEF Orders
    <3>5. TodoInOrder(pass, lg, open)
      BY <2>2, <3>1 DEF TodoInOrder
    <3> QED
      BY <3>4, <3>5
  <2>9. Orders'
    BY <1>2, <1>7, <2>1, <2>6, <2>7, <2>8 DEF Orders
  <2> QED
    BY <2>5, <2>9
<1> QED
  BY <1>6, <1>7 DEF Appends

-----------------------------------------------------------------------------
(* A record marked resolved. *)

LEMMA ResolvedOrders ==
  ASSUME NEW R \in SUBSET Record, NEW lg \in Seq(R), NEW op \in Seq(R), NEW r \in R,
         Contains(lg, r), JournalInOrder(lg, op), NEW op2, op2 = RemoveFirst(op, r)
  PROVE  JournalInOrder(lg, op2)
<1>1. /\ op2 \in Seq(R) /\ DOMAIN op2 \subseteq Nat
      /\ \A i \in DOMAIN op2 : \E m \in DOMAIN op : op[m] = op2[i]
      /\ \A i, k \in DOMAIN op2 : i < k =>
           \E m, n \in DOMAIN op : m < n /\ op[m] = op2[i] /\ op[n] = op2[k]
      /\ \A q : q # r => (Contains(op2, q) <=> Contains(op, q))
  BY Removed
<1>2. ASSUME NEW i \in DOMAIN op2, NEW k \in DOMAIN op2, i < k, op2[i].session = op2[k].session
      PROVE  op2[i].id < op2[k].id
  BY <1>1, <1>2 DEF JournalInOrder
<1>3. ASSUME NEW n \in DOMAIN op2, ~Contains(lg, op2[n])
      PROVE  /\ \A i \in DOMAIN lg : lg[i].session = op2[n].session => lg[i].id < op2[n].id
             /\ \/ \E i \in DOMAIN lg : lg[i].id = op2[n].session
                \/ \E i \in DOMAIN op2 : op2[i].id = op2[n].session /\ op2[i].session = op2[n].session
  <2>1. PICK m \in DOMAIN op : op[m] = op2[n]
    BY <1>1
  <2>2. /\ \A i \in DOMAIN lg : lg[i].session = op2[n].session => lg[i].id < op2[n].id
        /\ \/ \E i \in DOMAIN lg : lg[i].id = op2[n].session
           \/ \E i \in DOMAIN op : op[i].id = op2[n].session /\ op[i].session = op2[n].session
    BY <1>3, <2>1 DEF JournalInOrder
  <2>3. ASSUME NEW i \in DOMAIN op, op[i].id = op2[n].session, op[i].session = op2[n].session
        PROVE  \/ \E k \in DOMAIN lg : lg[k].id = op2[n].session
               \/ \E k \in DOMAIN op2 : op2[k].id = op2[n].session /\ op2[k].session = op2[n].session
    <3>1. CASE op[i] = r
      BY <2>3, <3>1, Holdings
    <3>2. CASE op[i] # r
      <4>1. Contains(op2, op[i])
        BY <1>1, <3>2, Holdings
      <4>2. PICK k \in DOMAIN op2 : op2[k] = op[i]
        BY <1>1, <4>1, Holdings
      <4> QED
        BY <2>3, <4>2
    <3> QED
      BY <3>1, <3>2
  <2> QED
    BY <2>2, <2>3
<1> QED
  BY <1>2, <1>3 DEF JournalInOrder

\* What the journal holds of others once r is marked.
LEMMA ResolvedFiles ==
  ASSUME NEW R \in SUBSET Record, NEW m, Built(R, m), open \in Seq(R), NEW r \in R,
         Line(JournalsResolved(r)), refusals \in Nat
  PROVE  /\ open' \in Seq(R) /\ (refusals' = 0 => refusals = 0)
         /\ \A q \in R : q # r =>
              /\ Contains(open', q) <=> Contains(open, q)
              /\ q.id \in resolved' <=> q.id \in resolved
         /\ \A q : Contains(open', q) => Contains(open, q)
         /\ refusals' = 0 => open' = RemoveFirst(open, r)
<1>1. \A q \in R : q # r => q.id # r.id
  BY DEF Built
<1>2. CASE JournalsResolved(r) /\ UNCHANGED refusals
  <2>1. resolved' = resolved \cup {r.id} /\ open' = RemoveFirst(open, r)
    BY <1>2 DEF JournalsResolved
  <2>2. /\ open' \in Seq(R)
        /\ \A q : q # r => (Contains(open', q) <=> Contains(open, q))
        /\ \A i \in DOMAIN open' : \E k \in DOMAIN open : open[k] = open'[i]
    BY <2>1, Removed
  <2>3. \A q : Contains(open', q) => Contains(open, q)
    BY <2>2 DEF Contains
  <2> QED
    BY <1>1, <1>2, <2>1, <2>2, <2>3
<1>3. CASE refusals' = refusals + 1 /\ UNCHANGED <<open, resolved>>
  BY <1>3
<1> QED
  BY <1>2, <1>3 DEF Line

\* What reconciliation has to write is in order after a step that does it no wrong.
LEMMA TodoAfter ==
  ASSUME NEW R \in SUBSET Record, NEW p, NEW lg, NEW op \in Seq(R), TodoInOrder(p, lg, op),
         NEW p2, NEW lg2, NEW op2 \in Seq(R), p.todo \in Seq(R),
         \A n \in DOMAIN p2.todo :
           Contains(op2, p2.todo[n]) /\ \E k \in DOMAIN p.todo : p.todo[k] = p2.todo[n],
         \A i, k \in DOMAIN p2.todo :
           i < k /\ p2.todo[i].session = p2.todo[k].session => p2.todo[i].id < p2.todo[k].id,
         \A q : Contains(op2, q) => Contains(op, q),
         \A q : Contains(lg, q) => Contains(lg2, q),
         p.held \subseteq p2.held,
         \A q : /\ Contains(p.todo, q) /\ ~Contains(lg2, q) /\ q.session \notin p2.held
                => Contains(p2.todo, q)
  PROVE  TodoInOrder(p2, lg2, op2)
<1>1. ASSUME NEW n \in DOMAIN p2.todo, NEW k \in DOMAIN op2,
             op2[k].session = p2.todo[n].session, p2.todo[n].session \notin p2.held,
             ~Contains(lg2, op2[k])
      PROVE  Contains(p2.todo, op2[k])
  <2>1. PICK m \in DOMAIN p.todo : p.todo[m] = p2.todo[n]
    OBVIOUS
  <2>2. Contains(op, op2[k]) /\ ~Contains(lg, op2[k])
    BY <1>1, Holdings
  <2>3. PICK i \in DOMAIN op : op[i] = op2[k]
    BY <2>2, Holdings
  <2>4. Contains(p.todo, op2[k])
    BY <1>1, <2>1, <2>2, <2>3 DEF TodoInOrder
  <2> QED
    BY <1>1, <2>4
<1> QED
  BY <1>1 DEF TodoInOrder

LEMMA MarksLines ==
  ASSUME JInv, Lines, Orders, NEW c \in Calls, MarksResolved(c)
  PROVE  Lines' /\ Orders'
<1>1. PICK R \in SUBSET Record : Of(R)
  BY DEF JInv
<1> DEFINE b == call[c].base
           rs == call[c].unwritten.records
           r == Current(c)
<1>2. /\ UNCHANGED <<log, pass>> /\ up' /\ Free # {} /\ Written(c) /\ Line(JournalsResolved(r))
      /\ call[c].at = "marking" /\ call[c].at \in Working \ {"journaling"} /\ call[c].at \in Working
  BY AllWorking DEF MarksResolved
<1>3. /\ Parts(R, call, session, sitting, stamped, log, open) /\ Shape(sitting, session, call)
      /\ log \in Seq(R) /\ open \in Seq(R) /\ pass.todo \in Seq(R) /\ Built(R, minted)
      /\ refusals \in Nat
  BY <1>1 DEF Of, Lines, Files, Passes, Counters
<1>4. /\ b \in Object /\ line[b] = Held(call[c]) /\ rs \in Seq(R) /\ 1 \in DOMAIN rs
      /\ Held(call[c]).unwritten = call[c].unwritten
      /\ \A i \in DOMAIN rs : rs[i] \in R
      /\ r = rs[1] /\ r \in R /\ r.session = Number(line[b])
      /\ \A n \in DOMAIN pass.todo : pass.todo[n].session # r.session
  BY <1>1, <1>2, WorkFacts
<1>5. Good(line[b], log, open, resolved, refusals) /\ Contains(log, r)
  <2>1. CallFits(call[c], log, open)
    BY <1>3 DEF Parts
  <2> QED
    BY <1>2, <1>4, <2>1 DEF Lines, CallFits
<1>6. /\ Shape(sitting', session', call')
      /\ \A k \in Calls : k # c => call'[k] = call[k]
      /\ WroteFirst(c, R, log, open, resolved, refusals)
      /\ Steady(call'[c], log, refusals)
  BY <1>2, <1>3, <1>5, WrittenGood
<1>7. /\ open' \in Seq(R) /\ (refusals' = 0 => refusals = 0)
      /\ \A q \in R : q # r =>
           /\ Contains(open', q) <=> Contains(open, q)
           /\ q.id \in resolved' <=> q.id \in resolved
      /\ \A q : Contains(open', q) => Contains(open, q)
      /\ refusals' = 0 => open' = RemoveFirst(open, r)
  BY <1>2, <1>3, <1>4, ResolvedFiles
<1>8. Went(c, R, log', open', resolved', refusals')
  <2>1. PICK t \in Object, x \in SessionOf(R) :
          /\ Moves(line, line', b, t, x)
          /\ Good(x, log, open, resolved, refusals) /\ Untried(x, log)
          /\ Number(x) = Number(line[b]) /\ x.unwritten.records = Tail(rs)
    BY <1>6 DEF WroteFirst
  <2>2. \A q : Contains(Tail(rs), q) => q # r
    <3>1. /\ DOMAIN Tail(rs) = 1..(Len(rs) - 1) /\ Len(rs) \in Nat /\ DOMAIN rs = 1..Len(rs)
          /\ Tail(rs) \in Seq(R)
          /\ \A i \in DOMAIN Tail(rs) : Tail(rs)[i] = rs[i + 1]
      BY <1>4
    <3>2. ASSUME NEW i \in DOMAIN Tail(rs) PROVE Tail(rs)[i] # r
      <4>1. i + 1 \in DOMAIN rs /\ 1 < i + 1 /\ Tail(rs)[i] = rs[i + 1]
        BY <3>1
      <4>2. Chain(line[b])
        BY <1>5 DEF Good
      <4>3. rs[1].id < rs[i + 1].id
        BY <1>4, <4>1, <4>2 DEF Chain
      <4>4. rs[1].id \in Nat
        BY <1>4, NaturalIds
      <4> QED
        BY <1>4, <4>1, <4>3, <4>4
    <3> QED
      BY <3>1, <3>2, Holdings
  <2>3. PICK op, marked, lost :
          op = open' /\ marked = resolved' /\ lost = refusals' /\ op \in Seq(R)
    BY <1>7
  <2>4. SameFor(R, x, log, open, resolved, log, op, marked)
    BY <1>7, <2>1, <2>2, <2>3 DEF SameFor
  <2>5. lost = 0 => refusals = 0
    BY <1>7, <2>3
  <2>6. Good(x, log, op, marked, lost)
    BY <1>3, <2>1, <2>3, <2>4, <2>5, GoodKept
  <2>7. Steady(call'[c], log, lost)
    BY <1>6, <2>5 DEF Steady
  <2>8. Went(c, R, log, op, marked, lost)
    BY <1>6, <2>1, <2>6, <2>7 DEF Went
  <2> QED
    BY <1>2, <2>3, <2>8
<1>9. Lines'
  <2>1. Touches(R, Number(line[call[c].base]))
    BY <1>2, <1>3, <1>4, <1>7 DEF Touches
  <2> QED
    BY <1>1, <1>2, <1>8, <2>1, CallStep
<1>10. ASSUME refusals' = 0
       PROVE  LogInOrder(log) /\ JournalInOrder(log, open') /\ TodoInOrder(pass, log, open')
  <2>1. LogInOrder(log) /\ JournalInOrder(log, open) /\ TodoInOrder(pass, log, open)
    BY <1>7, <1>10 DEF Orders
  <2>2. PICK op : op = open' /\ op \in Seq(R) /\ op = RemoveFirst(open, r)
    BY <1>7, <1>10
  <2>3. JournalInOrder(log, op)
    BY <1>3, <1>4, <1>5, <2>1, <2>2, ResolvedOrders
  <2>4. /\ \A n \in DOMAIN pass.todo :
             Contains(op, pass.todo[n]) /\ \E k \in DOMAIN pass.todo : pass.todo[k] = pass.todo[n]
        /\ \A q : Contains(op, q) => Contains(open, q)
        /\ \A i, k \in DOMAIN pass.todo :
             i < k /\ pass.todo[i].session = pass.todo[k].session => pass.todo[i].id < pass.todo[k].id
    <3>1. \A n \in DOMAIN pass.todo : Contains(open, pass.todo[n]) /\ pass.todo[n] # r /\ pass.todo[n] \in R
      BY <1>3, <1>4, <2>1, Holdings DEF TodoInOrder
    <3> QED
      BY <1>7, <2>1, <2>2, <3>1 DEF TodoInOrder
  <2>5. TodoInOrder(pass, log, op)
    BY <1>3, <2>1, <2>2, <2>4, TodoAfter
  <2> QED
    BY <2>1, <2>2, <2>3, <2>5
<1>11. Orders'
  BY <1>2, <1>10 DEF Orders
<1> QED
  BY <1>9, <1>11

-----------------------------------------------------------------------------
(* A record journaled. *)

\* Record i of a line that has lost no journal line, those before it journaled, may be journaled.
LEMMA JournaledOrders ==
  ASSUME NEW R \in SUBSET Record, NEW m, Built(R, m), NEW lg \in Seq(R), NEW op \in Seq(R),
         NEW marked, NEW x \in SessionOf(R), Good(x, lg, op, marked, 0),
         NEW i \in DOMAIN x.unwritten.records, NEW r, r = x.unwritten.records[i],
         TakenTo(x, i), LogInOrder(lg), JournalInOrder(lg, op), ~Contains(op, r)
  PROVE  JournalInOrder(lg, Append(op, r))
<1> DEFINE rs == x.unwritten.records
           j == x.unwritten.journaled
<1>1. Chain(x) /\ Unlanded(x, lg, op, marked) /\ InLine(x, lg, op)
  BY DEF Good
<1>2. /\ DOMAIN rs \subseteq Nat \ {0} /\ \A k \in DOMAIN rs : rs[k] \in R
      /\ r \in R /\ r.session = Number(x)
  <2>1. DOMAIN rs \subseteq Nat \ {0} /\ \A k \in DOMAIN rs : rs[k] \in R
    BY RecordsOf
  <2> QED
    BY <1>1, <2>1 DEF Chain
<1>3. \A q \in R : q.id \in Nat /\ (q # r => q.id # r.id)
  BY <1>2, NaturalIds DEF Built
<1>4. PICK op2 : op2 = Append(op, r)
  OBVIOUS
<1>5. PICK l : l = Len(op) + 1
  OBVIOUS
<1>6. /\ op2 \in Seq(R) /\ l \in DOMAIN op2 /\ op2[l] = r /\ l \in Nat /\ DOMAIN op2 = 1..l
      /\ \A n \in DOMAIN op : n \in DOMAIN op2 /\ op2[n] = op[n] /\ n < l /\ op[n] \in R /\ op[n] # r
      /\ \A q : Contains(op2, q) <=> Contains(op, q) \/ q = r
  <2>1. /\ op2 \in Seq(R) /\ DOMAIN op2 = 1..l /\ DOMAIN op = 1..Len(op) /\ Len(op) \in Nat
        /\ \A n \in DOMAIN op : op2[n] = op[n]
        /\ op2[l] = r
        /\ \A q : Contains(op2, q) <=> Contains(op, q) \/ q = r
    BY <1>2, <1>4, <1>5, Appended
  <2>2. l \in DOMAIN op2 /\ l \in Nat /\ \A n \in DOMAIN op : n \in DOMAIN op2 /\ n < l
    BY <1>5, <2>1
  <2>3. \A n \in DOMAIN op : op[n] \in R /\ op[n] # r
    BY Holdings
  <2> QED
    BY <2>1, <2>2, <2>3
<1>7. \A n \in DOMAIN op2 : n \in DOMAIN op \/ n = l
  BY <1>5, <1>6
<1>8. ASSUME NEW n \in DOMAIN op, op[n].session = r.session
      PROVE  op[n].id < r.id
  <2>1. CASE Contains(lg, op[n])
    <3>1. PICK k \in DOMAIN lg : lg[k] = op[n]
      BY <2>1, Holdings
    <3>2. op[n].id <= r.id
      BY <1>1, <1>2, <1>8, <3>1 DEF InLine
    <3> QED
      BY <1>2, <1>3, <1>6, <3>2
  <2>2. CASE ~Contains(lg, op[n])
    <3>1. Contains(rs, op[n]) /\ Contains(op, op[n])
      BY <1>1, <1>2, <1>8, <2>2, Holdings DEF InLine
    <3>2. PICK k \in DOMAIN rs : rs[k] = op[n]
      BY <3>1, RecordsOf
    <3>3. j[rs[k].id] # "none" /\ ~(j[rs[i].id] # "none")
      BY <1>1, <3>1, <3>2 DEF Unlanded
    <3>4. ~(i < k)
      BY <1>1, <3>3 DEF InLine
    <3>5. k # i /\ k \in Nat /\ i \in Nat
      BY <1>2, <3>3
    <3>6. k < i
      BY <3>4, <3>5
    <3> QED
      BY <1>1, <3>2, <3>6 DEF Chain
  <2> QED
    BY <2>1, <2>2
<1>9. ASSUME NEW n \in DOMAIN op2, NEW k \in DOMAIN op2, n < k, op2[n].session = op2[k].session
      PROVE  op2[n].id < op2[k].id
  <2>1. CASE n \in DOMAIN op /\ k \in DOMAIN op
    BY <1>6, <1>9, <2>1 DEF JournalInOrder
  <2>2. CASE n \in DOMAIN op /\ k = l
    BY <1>6, <1>8, <1>9, <2>2
  <2>3. CASE n = l
    <3>1. k \in 1..l /\ l < k /\ l \in Nat
      BY <1>6, <1>9, <2>3
    <3> QED
      BY <3>1
  <2> QED
    BY <1>7, <2>1, <2>2, <2>3
<1>10. ASSUME NEW n \in DOMAIN op2, ~Contains(lg, op2[n])
       PROVE  /\ \A k \in DOMAIN lg : lg[k].session = op2[n].session => lg[k].id < op2[n].id
              /\ \/ \E k \in DOMAIN lg : lg[k].id = op2[n].session
                 \/ \E k \in DOMAIN op2 : op2[k].id = op2[n].session /\ op2[k].session = op2[n].session
  <2>1. CASE n \in DOMAIN op
    <3>1. /\ \A k \in DOMAIN lg : lg[k].session = op[n].session => lg[k].id < op[n].id
          /\ \/ \E k \in DOMAIN lg : lg[k].id = op[n].session
             \/ \E k \in DOMAIN op : op[k].id = op[n].session /\ op[k].session = op[n].session
      BY <1>6, <1>10, <2>1 DEF JournalInOrder
    <3> QED
      BY <1>6, <2>1, <3>1
  <2>2. CASE n = l
    <3>1. ~Contains(lg, r) /\ op2[n] = r
      BY <1>6, <1>10, <2>2
    <3>2. ASSUME NEW k \in DOMAIN lg, lg[k].session = r.session PROVE lg[k].id < r.id
      <4>1. lg[k].id <= r.id
        BY <1>1, <1>2, <3>2 DEF InLine
      <4>2. lg[k] \in R /\ lg[k] # r
        BY <3>1, Holdings
      <4> QED
        BY <1>2, <1>3, <4>1, <4>2
    <3>3. \/ \E k \in DOMAIN lg : lg[k].id = r.session
          \/ \E k \in DOMAIN op2 : op2[k].id = r.session /\ op2[k].session = r.session
      <4>1. CASE x.record # NoRecord
        <5>1. Contains(lg, x.record) /\ x.record.session = r.session
          BY <1>1, <1>2, <4>1 DEF Unlanded, Chain
        <5>2. PICK k \in DOMAIN lg : lg[k] = x.record
          BY <5>1, Holdings
        <5> QED
          BY <5>1, <5>2 DEF LogInOrder
      <4>2. CASE x.record = NoRecord
        <5>1. 1 \in DOMAIN rs /\ rs # <<>>
          <6>1. rs \in Seq(R)
            BY RecordsOf
          <6> QED
            BY <6>1
        <5>2. rs[1].id = r.session /\ rs[1].session = r.session
          BY <1>1, <1>2, <4>2, <5>1 DEF Chain
        <5>3. CASE i = 1
          BY <1>6, <5>2, <5>3
        <5>4. CASE i # 1
          <6>1. 1 < i
            BY <1>2, <5>4
          <6>2. Contains(op, rs[1])
            BY <1>1, <5>1, <6>1 DEF Unlanded, TakenTo
          <6>3. PICK k \in DOMAIN op : op[k] = rs[1]
            BY <6>2, Holdings
          <6> QED
            BY <1>6, <5>2, <6>3
        <5> QED
          BY <5>3, <5>4
      <4> QED
        BY <4>1, <4>2
    <3> QED
      BY <3>1, <3>2, <3>3
  <2> QED
    BY <1>7, <2>1, <2>2
<1> QED
  BY <1>4, <1>9, <1>10 DEF JournalInOrder

\* Call v as w, its i-th record journaled.
Journaled(v, w, i) ==
  /\ w.at = "journaling" /\ w.next = i + 1
  /\ w.base = v.base /\ w.before = v.before /\ w.written = v.written
  /\ w.unwritten.records = v.unwritten.records /\ w.unwritten.failed = v.unwritten.failed
  /\ w.unwritten.journaled = [v.unwritten.journaled EXCEPT
                                ![v.unwritten.records[i].id] = ExhaustedState(v.unwritten.failed)]

\* A journal line landed, for the record of the call at which its journaling stands.
LEMMA LandsLine ==
  ASSUME NEW R \in SUBSET Record, Of(R), Lines, Orders,
         NEW c \in Calls, call[c].at = "journaling",
         NEW i \in ToJournal(c), \A k \in ToJournal(c) : i <= k,
         JournalsUnresolved(call[c].unwritten.records[i]),
         UNCHANGED <<log, resolved, refusals, pass, session, sitting>>, up',
         NEW w \in CallOf(R), call' = [call EXCEPT ![c] = w], Journaled(call[c], w, i)
  PROVE  Lines' /\ Orders'
<1> DEFINE b == call[c].base
           u == call[c].unwritten
           rs == u.records
           e == ExhaustedState(u.failed)
           r == rs[i]
<1>1. call[c].at \in Working
  BY AllWorking
<1>2. /\ Parts(R, call, session, sitting, stamped, log, open) /\ Shape(sitting, session, call)
      /\ log \in Seq(R) /\ open \in Seq(R) /\ pass.todo \in Seq(R) /\ Built(R, minted)
      /\ Files(R, log, open, resolved)
  BY DEF Of, Lines, Files, Passes
<1>3. /\ b \in Object /\ line[b] = Held(call[c]) /\ rs \in Seq(R)
      /\ Held(call[c]) \in SessionOf(R) /\ Held(call[c]).unwritten = u
      /\ \A k \in DOMAIN rs : rs[k] \in R /\ rs[k].session = Number(line[b])
      /\ \A n \in DOMAIN pass.todo : pass.todo[n].session # Number(line[b])
      /\ call \in [Calls -> CallOf(R)] /\ call[c] \in CallOf(R)
  BY <1>1, <1>2, WorkFacts DEF Parts
<1>4. /\ i \in DOMAIN rs /\ r \in R /\ r.session = Number(line[b]) /\ call[c].next \in Nat \ {0}
      /\ DOMAIN rs = 1..Len(rs) /\ Len(rs) \in Nat /\ i \in Nat
  <2>1. call[c].next \in Nat \ {0}
    BY <1>3, Fields
  <2>2. DOMAIN rs = 1..Len(rs) /\ Len(rs) \in Nat /\ i \in call[c].next..Len(rs)
    BY <1>3 DEF ToJournal
  <2>3. i \in DOMAIN rs /\ i \in Nat
    BY <2>1, <2>2
  <2> QED
    BY <1>3, <2>1, <2>2, <2>3
<1>5. Good(line[b], log, open, resolved, refusals) /\ Steady(call[c], log, refusals)
  BY <1>3 DEF Lines
<1>6. refusals = 0 => \A k \in DOMAIN rs : k < i => u.journaled[rs[k].id] # "none"
  <2> SUFFICES ASSUME refusals = 0, NEW k \in DOMAIN rs, k < i PROVE u.journaled[rs[k].id] # "none"
    OBVIOUS
  <2>1. CASE k < call[c].next
    BY <1>5, <2>1 DEF Steady
  <2>2. CASE ~(k < call[c].next)
    <3>1. k \in call[c].next..Len(rs) /\ ~(i <= k)
      BY <1>4, <2>2
    <3>2. u.journaled[rs[k].id] = e
      BY <3>1 DEF ToJournal
    <3> QED
      BY <3>2 DEF ExhaustedState
  <2> QED
    BY <2>1, <2>2
<1>7. /\ w.at = "journaling" /\ w.next = i + 1 /\ e # "none"
      /\ w.base = b /\ w.before = call[c].before /\ w.written = call[c].written
      /\ w.unwritten.records = rs /\ w.unwritten.failed = u.failed
      /\ w.unwritten.journaled = [u.journaled EXCEPT ![r.id] = e]
  BY DEF ExhaustedState, Journaled
<1>8. r.id \notin resolved /\ u.failed > 0
  <2>1. Unlanded(line[b], log, open, resolved)
    BY <1>5 DEF Good
  <2> QED
    BY <1>3, <1>4, <1>5, <2>1 DEF Unlanded, Steady
<1>9. /\ open' \in Seq(R) /\ \A q : Contains(open', q) <=> Contains(open, q) \/ q = r
      /\ open' = open \/ (open' = Append(open, r) /\ ~Contains(open, r))
  <2>1. CASE Contains(open, r)
    BY <1>2, <2>1 DEF JournalsUnresolved
  <2>2. CASE ~Contains(open, r)
    <3>1. open' = Append(open, r)
      BY <1>8, <2>2 DEF JournalsUnresolved
    <3> QED
      BY <1>2, <1>4, <2>2, <3>1, Appended
  <2> QED
    BY <2>1, <2>2
<1>10. PICK op \in Seq(R) : op = open'
  BY <1>9
<1>11. /\ Held(w) \in SessionOf(R) /\ Held(w).record = w.written /\ Held(w).unwritten = w.unwritten
       /\ Held(call[c]).record = call[c].written
  BY <1>3, <1>7, HeldTypes
<1>12. Good(Held(w), log, op, resolved, refusals) /\ Untried(Held(w), log) /\ Number(Held(w)) = Number(line[b])
  <2>1. PICK x \in SessionOf(R) : x = Held(call[c])
    BY <1>3
  <2>2. /\ Good(x, log, open, resolved, refusals) /\ i \in DOMAIN x.unwritten.records
        /\ r = x.unwritten.records[i] /\ (refusals = 0 => TakenTo(x, i))
        /\ x.unwritten = u /\ x.record = call[c].written /\ Number(x) = Number(line[b])
    BY <1>3, <1>4, <1>5, <1>6, <1>11, <2>1 DEF TakenTo
  <2>3. Gains(open, op, x.unwritten.records[i])
    BY <1>9, <1>10, <2>2 DEF Gains
  <2>4. Takes(x, Held(w), x.unwritten.records[i])
    <3>1. u.failed # 0
      BY <1>8
    <3> QED
      BY <1>7, <1>11, <2>2, <3>1 DEF Takes
  <2>5. Built(R, minted) /\ open \in Seq(R)
    BY <1>2
  <2>6. PICK y, m, lg, marked, lost :
          y = Held(w) /\ m = minted /\ lg = log /\ marked = resolved /\ lost = refusals
    OBVIOUS
  <2>7. /\ Good(x, lg, open, marked, lost) /\ Built(R, m) /\ i \in DOMAIN x.unwritten.records
        /\ lost = 0 => TakenTo(x, i)
        /\ Takes(x, y, x.unwritten.records[i])
    BY <2>2, <2>4, <2>5, <2>6
  <2>8. Good(y, lg, op, marked, lost)
    BY <2>3, <2>5, <2>7, JournaledGood
  <2>9. Untried(y, lg) /\ Number(y) = Number(x)
    BY <2>4, <2>6 DEF Takes, Untried, Number, Latest
  <2> QED
    BY <2>2, <2>6, <2>8, <2>9
<1>13. Shape(sitting', session', call') /\ Moves(line, line', b, b, Held(w))
  <2>1. w.at \in Working
    BY <1>7, AllWorking
  <2> QED
    BY <1>1, <1>2, <1>7, <2>1, WorkMoves
<1>14. Steady(w, log, refusals)
  <2>1. ASSUME refusals = 0, NEW k \in DOMAIN rs, k < i + 1
        PROVE  w.unwritten.journaled[rs[k].id] # "none"
    <3>1. w.unwritten.journaled[rs[k].id] = IF rs[k].id = r.id THEN e ELSE u.journaled[rs[k].id]
      <4>1. u.journaled \in [Ids -> JournalStates] /\ rs[k].id \in Ids
        <5>1. call[c].unwritten \in UnwrittenOf(R)
          BY <1>3, Fields
        <5> QED
          BY <1>3, <5>1, Fields, RecordOfR
      <4> QED
        BY <1>7, <4>1
    <3>2. k = i \/ k < i
      BY <1>4, <2>1
    <3>3. k = i => rs[k].id = r.id
      OBVIOUS
    <3>4. k < i => u.journaled[rs[k].id] # "none"
      BY <1>6, <2>1
    <3> QED
      BY <1>7, <3>1, <3>2, <3>3, <3>4
  <2> QED
    BY <1>7, <1>8, <2>1 DEF Steady
<1>15. Lines'
  <2>1. Went(c, R, log, op, resolved, refusals)
    <3>1. \A k \in Calls : call'[k] = IF k = c THEN w ELSE call[k]
      BY <1>3, <1>7
    <3> QED
      BY <1>3, <1>11, <1>12, <1>13, <1>14, <3>1 DEF Went
  <2>2. Touches(R, Number(line[call[c].base]))
    BY <1>2, <1>4, <1>9 DEF Touches
  <2>3. Went(c, R, log', open', resolved', refusals')
    BY <1>10, <2>1
  <2> QED
    BY <1>1, <2>2, <2>3, CallStep
<1>16. ASSUME refusals = 0 PROVE JournalInOrder(log, op) /\ TodoInOrder(pass, log, op)
  <2>1. LogInOrder(log) /\ JournalInOrder(log, open) /\ TodoInOrder(pass, log, open)
    BY <1>16 DEF Orders
  <2>2. JournalInOrder(log, op)
    <3>1. CASE ~Contains(open, r) /\ op = Append(open, r)
      <4>1. PICK x \in SessionOf(R) : x = Held(call[c])
        BY <1>3
      <4>2. /\ Good(x, log, open, resolved, 0) /\ i \in DOMAIN x.unwritten.records
            /\ r = x.unwritten.records[i] /\ TakenTo(x, i)
        BY <1>3, <1>4, <1>5, <1>6, <1>16, <4>1 DEF TakenTo
      <4> HIDE DEF e, u, rs, b
      <4> QED
        BY <1>2, <2>1, <3>1, <4>2, JournaledOrders
    <3> QED
      BY <1>9, <1>10, <2>1, <3>1
  <2>3. TodoInOrder(pass, log, op)
    <3>1. \A n \in DOMAIN pass.todo : Contains(op, pass.todo[n])
      BY <1>9, <1>10, <2>1 DEF TodoInOrder
    <3>2. ASSUME NEW n \in DOMAIN pass.todo, NEW k \in DOMAIN op,
                 op[k].session = pass.todo[n].session, pass.todo[n].session \notin pass.held,
                 ~Contains(log, op[k])
          PROVE  Contains(pass.todo, op[k])
      <4>1. op[k] # r
        BY <1>3, <1>4, <3>2
      <4>2. Contains(open, op[k])
        BY <1>9, <1>10, <4>1, Holdings
      <4>3. PICK m \in DOMAIN open : open[m] = op[k]
        BY <1>2, <4>2, Holdings
      <4> QED
        BY <2>1, <3>2, <4>3 DEF TodoInOrder
    <3> QED
      BY <2>1, <3>1, <3>2 DEF TodoInOrder
  <2> QED
    BY <2>2, <2>3
<1>17. Orders'
  BY <1>10, <1>16 DEF Orders
<1> QED
  BY <1>15, <1>17

\* The line refused.
LEMMA LosesLine ==
  ASSUME NEW R \in SUBSET Record, Of(R), Lines, Orders,
         NEW c \in Calls, call[c].at = "journaling",
         UNCHANGED <<log, open, resolved, pass, session, sitting>>, refusals' # 0, up',
         NEW w \in CallOf(R), call' = [call EXCEPT ![c] = w], w.at = "journaling",
         w.base = call[c].base, w.before = call[c].before, w.written = call[c].written,
         w.unwritten = call[c].unwritten
  PROVE  Lines' /\ Orders'
<1>1. call[c].at \in Working /\ w.at \in Working
  BY AllWorking
<1>2. /\ Parts(R, call, session, sitting, stamped, log, open) /\ Shape(sitting, session, call)
      /\ log \in Seq(R) /\ open \in Seq(R)
  BY DEF Of, Lines, Files
<1>3. /\ call[c].base \in Object /\ line[call[c].base] = Held(call[c])
      /\ call \in [Calls -> CallOf(R)]
  BY <1>1, <1>2, WorkFacts DEF Parts
<1>4. Held(w) = line[call[c].base] /\ Held(w) \in SessionOf(R)
  BY <1>3, HeldTypes DEF Held
<1>5. Shape(sitting', session', call') /\ Moves(line, line', call[c].base, call[c].base, Held(w))
  BY <1>1, <1>2, WorkMoves
<1>6. Good(Held(w), log, open, resolved, refusals') /\ Untried(Held(w), log)
  BY <1>3, <1>4 DEF Lines, Good
<1>7. Steady(w, log, refusals')
  <2>1. Steady(call[c], log, refusals)
    BY DEF Lines
  <2> QED
    BY <2>1 DEF Steady
<1>8. Went(c, R, log', open', resolved', refusals')
  <2>1. \A k \in Calls : call'[k] = IF k = c THEN w ELSE call[k]
    BY <1>3
  <2> QED
    BY <1>3, <1>4, <1>5, <1>6, <1>7, <2>1 DEF Went
<1>9. Touches(R, Number(line[call[c].base]))
  BY <1>2 DEF Touches
<1> QED
  BY <1>1, <1>8, <1>9, CallStep, SameOrders

LEMMA JournalsLineLines ==
  ASSUME JInv, Lines, Orders, NEW c \in Calls, JournalsLine(c)
  PROVE  Lines' /\ Orders'
<1>1. PICK R \in SUBSET Record : Of(R)
  BY DEF JInv
<1>2. /\ UNCHANGED <<log, stamped, sitting, session, pass, up, minted, failures, crashes>> /\ up'
      /\ call[c].at = "journaling" /\ call[c].at \in Working
      /\ Parts(R, call, session, sitting, stamped, log, open) /\ refusals \in Nat
  BY <1>1 DEF JournalsLine, Of, Working, Counters
<1>3. PICK i \in ToJournal(c) :
        /\ \A k \in ToJournal(c) : i <= k
        /\ LET r == call[c].unwritten.records[i] IN
           \/ /\ JournalsUnresolved(r)
              /\ call' = [call EXCEPT ![c].next = i + 1,
                            ![c].unwritten.journaled[r.id] = ExhaustedState(call[c].unwritten.failed)]
              /\ UNCHANGED <<resolved, refusals>>
           \/ /\ Line(FALSE)
              /\ call' = [call EXCEPT ![c].next = i + 1]
  BY DEF JournalsLine
<1>4. call[c].unwritten.records \in Seq(R) /\ call[c] \in CallOf(R)
  BY <1>2, AtWork
<1>5. i \in DOMAIN call[c].unwritten.records
  <2>1. call[c].next \in Nat \ {0}
    BY <1>4, Fields
  <2>2. i \in call[c].next..Len(call[c].unwritten.records)
    BY DEF ToJournal
  <2>3. Len(call[c].unwritten.records) \in Nat
    BY <1>4
  <2>4. i \in 1..Len(call[c].unwritten.records)
    BY <2>1, <2>2, <2>3
  <2> QED
    BY <1>4, <2>4
<1> DEFINE r == call[c].unwritten.records[i]
           e == ExhaustedState(call[c].unwritten.failed)
           u == [call[c].unwritten EXCEPT !.journaled = [@ EXCEPT ![r.id] = e]]
           w == [call[c] EXCEPT !.next = i + 1, !.unwritten = u]
           x == [call[c] EXCEPT !.next = i + 1]
<1>6. /\ r \in R /\ i \in Nat
      /\ e \in {"retrying", "exhausted"}
      /\ u \in UnwrittenOf(R) /\ u.records = call[c].unwritten.records
      /\ u.failed = call[c].unwritten.failed
      /\ u.journaled = [call[c].unwritten.journaled EXCEPT ![r.id] = e]
      /\ w \in CallOf(R) /\ w.unwritten = u /\ w.at = "journaling" /\ w.next = i + 1
      /\ w.base = call[c].base /\ w.before = call[c].before /\ w.written = call[c].written
      /\ x \in CallOf(R) /\ x.unwritten = call[c].unwritten /\ x.at = "journaling"
      /\ x.next = i + 1
      /\ x.base = call[c].base /\ x.before = call[c].before /\ x.written = call[c].written
      /\ [call EXCEPT ![c].next = i + 1, ![c].unwritten.journaled[r.id] = e] = [call EXCEPT ![c] = w]
      /\ [call EXCEPT ![c].next = i + 1] = [call EXCEPT ![c] = x]
  BY <1>2, <1>5, JournalsFields, Zenon
<1>7. \/ JournalsUnresolved(r) /\ UNCHANGED <<resolved, refusals>> /\ call' = [call EXCEPT ![c] = w]
      \/ Line(FALSE) /\ call' = [call EXCEPT ![c] = x]
  <2>1. \/ /\ JournalsUnresolved(r)
           /\ call' = [call EXCEPT ![c].next = i + 1, ![c].unwritten.journaled[r.id] = e]
           /\ UNCHANGED <<resolved, refusals>>
        \/ /\ Line(FALSE)
           /\ call' = [call EXCEPT ![c].next = i + 1]
    BY <1>3
  <2>2. /\ [call EXCEPT ![c].next = i + 1, ![c].unwritten.journaled[r.id] = e] = [call EXCEPT ![c] = w]
        /\ [call EXCEPT ![c].next = i + 1] = [call EXCEPT ![c] = x]
    BY <1>6
  <2> HIDE DEF r, e, w, x
  <2> QED
    BY <2>1, <2>2
<1>8. Journaled(call[c], w, i)
  <2> HIDE DEF w, u
  <2> QED
    BY <1>6 DEF Journaled
<1>9. CASE JournalsUnresolved(r) /\ UNCHANGED <<resolved, refusals>> /\ call' = [call EXCEPT ![c] = w]
  <2> HIDE DEF w
  <2>1. w \in CallOf(R) /\ UNCHANGED <<log, resolved, refusals, pass, session, sitting>>
    BY <1>2, <1>6, <1>9
  <2>2. /\ call' = [call EXCEPT ![c] = w] /\ JournalsUnresolved(call[c].unwritten.records[i])
        /\ \A k \in ToJournal(c) : i <= k
    BY <1>3, <1>9
  <2> QED
    BY <1>1, <1>2, <1>8, <2>1, <2>2, LandsLine
<1>10. CASE Line(FALSE) /\ call' = [call EXCEPT ![c] = x]
  <2> HIDE DEF x
  <2>1. UNCHANGED <<log, open, resolved, pass, session, sitting>> /\ refusals' # 0
    BY <1>2, <1>10 DEF Line
  <2> QED
    BY <1>1, <1>2, <1>6, <1>10, <2>1, LosesLine
<1> QED
  BY <1>7, <1>9, <1>10

-----------------------------------------------------------------------------
(* Reconciliation. *)

\* A step of reconciliation leaves the lines as they are.
LEMMA PassLines ==
  ASSUME NEW R \in SUBSET Record, Of(R), Lines, pass.todo # <<>>, UNCHANGED <<sitting, session, call>>,
         up', Touches(R, Write.session),
         \A n \in DOMAIN pass'.todo : \E k \in DOMAIN pass.todo : pass'.todo[n] = pass.todo[k]
  PROVE  Lines'
<1>1. \A o \in Object : line'[o] = line[o]
  BY DEF line
<1>2. \A o \in Object : Number(line[o]) # Write.session
  <2>1. Write = pass.todo[1] /\ pass.todo \in Seq(R)
    BY PassTypes
  <2>2. 1 \in DOMAIN pass.todo
    BY <2>1
  <2> QED
    BY <2>1, <2>2 DEF Lines, Apart
<1>3. \A o \in Object : Good(line'[o], log', open', resolved', refusals') /\ Untried(line'[o], log')
  BY <1>1, <1>2, OtherLines
<1>4. \A k \in Calls : Steady(call'[k], log', refusals')
  BY <1>2, WorkFacts, OtherLines
<1>5. Apart(line', pass'.todo)
  BY <1>1 DEF Lines, Apart
<1>6. Shape(sitting', session', call')
  BY DEF Lines, Shape, Referenced
<1> QED
  BY <1>3, <1>4, <1>5, <1>6 DEF Lines

\* A step of reconciliation that is done with its write, which is in the log or held back.
LEMMA TodoTail ==
  ASSUME NEW R \in SUBSET Record, NEW p, NEW lg, NEW op \in Seq(R), TodoInOrder(p, lg, op),
         p.todo \in Seq(R), p.todo # <<>>,
         NEW p2, p2.todo = Tail(p.todo), p.held \subseteq p2.held,
         NEW lg2, NEW op2 \in Seq(R),
         \A q : Contains(op2, q) => Contains(op, q),
         \A q \in R : q # p.todo[1] /\ Contains(op, q) => Contains(op2, q),
         \A q : Contains(lg, q) => Contains(lg2, q),
         p.todo[1].session \in p2.held \/ Contains(lg2, p.todo[1])
  PROVE  TodoInOrder(p2, lg2, op2)
<1> DEFINE ts == p.todo
           t2 == p2.todo
<1>1. /\ t2 \in Seq(R) /\ ts[1] \in R /\ 1 \in DOMAIN ts /\ DOMAIN ts = 1..Len(ts) /\ Len(ts) \in Nat
      /\ DOMAIN t2 = 1..(Len(ts) - 1)
      /\ \A i \in DOMAIN t2 : i + 1 \in DOMAIN ts /\ t2[i] = ts[i + 1]
      /\ \A q : Contains(ts, q) <=> q = ts[1] \/ Contains(t2, q)
  BY Tailed
<1>2. ASSUME NEW n \in DOMAIN t2
      PROVE  Contains(op2, t2[n]) /\ \E k \in DOMAIN ts : ts[k] = t2[n]
  <2>1. n + 1 \in DOMAIN ts /\ 1 < n + 1 /\ t2[n] = ts[n + 1] /\ ts[n + 1] \in R
    BY <1>1, Holdings
  <2>2. ts[n + 1] # ts[1]
    <3>1. ts[n + 1].session = ts[1].session => ts[1].id < ts[n + 1].id
      BY <1>1, <2>1 DEF TodoInOrder
    <3>2. ts[1].id \in Nat
      BY <1>1, NaturalIds
    <3> QED
      BY <3>1, <3>2
  <2>3. Contains(op, ts[n + 1])
    BY <2>1 DEF TodoInOrder
  <2> QED
    BY <2>1, <2>2, <2>3
<1>3. ASSUME NEW i \in DOMAIN t2, NEW k \in DOMAIN t2, i < k, t2[i].session = t2[k].session
      PROVE  t2[i].id < t2[k].id
  <2>1. /\ i + 1 \in DOMAIN ts /\ k + 1 \in DOMAIN ts /\ i + 1 < k + 1
        /\ t2[i] = ts[i + 1] /\ t2[k] = ts[k + 1]
    BY <1>1, <1>3
  <2> QED
    BY <1>3, <2>1 DEF TodoInOrder
<1>4. ASSUME NEW q, Contains(ts, q), ~Contains(lg2, q), q.session \notin p2.held
      PROVE  Contains(t2, q)
  BY <1>1, <1>4
<1> QED
  BY <1>2, <1>3, <1>4, TodoAfter

LEMMA RestartsLines ==
  ASSUME JInv, Lines, Orders, Restarts
  PROVE  Lines' /\ Orders'
<1>1. PICK R \in SUBSET Record : Of(R)
  BY DEF JInv
<1>2. /\ UNCHANGED <<log, open, resolved, sitting, session, call, refusals>> /\ up' /\ ~up
      /\ pass' = NoPass \/ pass' = [NoPass EXCEPT !.todo = open]
  BY DEF Restarts, durable, counted, Fails
<1>3. pass'.at = "checking" /\ pass'.todo \in {<<>>, open}
  BY <1>2 DEF NoPass
<1>4. \A o \in Object : line'[o] = line[o] /\ line[o] = Unrecorded
  BY <1>2 DEF line, Lines
<1>5. open \in Seq(R)
  BY <1>1 DEF Of, Files
<1>6. Lines'
  <2>1. Apart(line', pass'.todo)
    <3>1. Number(Unrecorded) = 0
      BY <1>5, UnrecordedGood
    <3>2. \A n \in DOMAIN open : open[n].session # 0
      BY <1>5, Holdings, NaturalIds
    <3> QED
      BY <1>3, <1>4, <3>1, <3>2, Empties DEF Apart
  <2>2. Shape(sitting', session', call')
    BY <1>2 DEF Lines, Shape, Referenced
  <2>3. \A o \in Object : Good(line'[o], log, open, resolved, refusals) /\ Untried(line'[o], log)
    BY <1>4 DEF Lines
  <2>4. \A k \in Calls : Steady(call'[k], log, refusals)
    BY <1>2 DEF Lines
  <2> QED
    BY <1>2, <2>1, <2>2, <2>3, <2>4 DEF Lines
<1>7. Orders'
  <2>1. ASSUME JournalInOrder(log, open) PROVE TodoInOrder(pass', log, open)
    <3>1. CASE pass'.todo = <<>>
      BY <3>1 DEF TodoInOrder
    <3>2. CASE pass'.todo = open
      BY <1>5, <2>1, <3>2, Holdings DEF TodoInOrder, JournalInOrder
    <3> QED
      BY <1>3, <3>1, <3>2
  <2> QED
    BY <1>2, <1>3, <2>1 DEF Orders, PassSteady
<1> QED
  BY <1>6, <1>7

\* Of reconciliation, what these proofs need.
LEMMA PassFacts ==
  ASSUME NEW R \in SUBSET Record, Of(R), pass.todo # <<>>
  PROVE  /\ log \in Seq(R) /\ open \in Seq(R) /\ pass.todo \in Seq(R) /\ Built(R, minted)
         /\ refusals \in Nat /\ pass.held \subseteq Ids
         /\ Write \in R /\ Write = pass.todo[1] /\ Contains(pass.todo, Write) /\ 1 \in DOMAIN pass.todo
         /\ \A n \in DOMAIN Tail(pass.todo) : \E k \in DOMAIN pass.todo : Tail(pass.todo)[n] = pass.todo[k]
<1>1. /\ log \in Seq(R) /\ open \in Seq(R) /\ pass.todo \in Seq(R) /\ Built(R, minted)
      /\ refusals \in Nat /\ pass.held \subseteq Ids /\ Write \in R /\ Write = pass.todo[1]
  BY PassTypes DEF Of, Files, Counters
<1> QED
  BY <1>1, Tailed, Holdings

\* Done with a write whose session is held back, the files as they were; or now held back, the
\* record in the log or not.
LEMMA HeldOrders ==
  ASSUME NEW R \in SUBSET Record, Of(R), Orders, pass.todo # <<>>,
         UNCHANGED <<open, refusals>>, NEW lg \in Seq(R), \A q : Contains(log, q) => Contains(lg, q),
         pass'.at = "checking", pass'.todo = Tail(pass.todo),
         pass.held \subseteq pass'.held, Write.session \in pass'.held
  PROVE  /\ PassSteady(pass', lg)
         /\ refusals = 0 => TodoInOrder(pass', lg, open)
<1>1. PassSteady(pass', lg)
  BY DEF PassSteady
<1>2. ASSUME refusals = 0 PROVE TodoInOrder(pass', lg, open)
  <2>1. TodoInOrder(pass, log, open)
    BY <1>2 DEF Orders
  <2>2. /\ open \in Seq(R) /\ pass.todo \in Seq(R) /\ Write = pass.todo[1]
    BY PassFacts
  <2>3. PICK p : p = pass'
    OBVIOUS
  <2>4. TodoInOrder(p, lg, open)
    BY <2>1, <2>2, <2>3, TodoTail
  <2> QED
    BY <2>3, <2>4
<1> QED
  BY <1>1, <1>2

LEMMA ReconcileSkipsLines ==
  ASSUME JInv, Lines, Orders, ReconcileSkips
  PROVE  Lines' /\ Orders'
<1>1. PICK R \in SUBSET Record : Of(R)
  BY DEF JInv
<1>2. /\ UNCHANGED <<log, open, resolved, sitting, session, call, refusals>> /\ up'
      /\ pass.todo # <<>> /\ Write.session \in pass.held
      /\ pass' = [pass EXCEPT !.at = "checking", !.todo = Tail(@)]
  BY DEF ReconcileSkips, Reconciling, Done, durable, counted
<1>3. pass'.at = "checking" /\ pass'.todo = Tail(pass.todo) /\ pass'.held = pass.held
  BY <1>1, <1>2, PassTypes
<1>4. Lines'
  <2>1. Touches(R, Write.session)
    BY <1>1, <1>2, PassFacts DEF Touches
  <2> QED
    BY <1>1, <1>2, <1>3, <2>1, PassFacts, PassLines
<1>5. Orders'
  <2>1. log \in Seq(R)
    BY <1>1, <1>2, PassFacts
  <2>2. PassSteady(pass', log) /\ (refusals = 0 => TodoInOrder(pass', log, open))
    BY <1>1, <1>2, <1>3, <2>1, HeldOrders
  <2> QED
    BY <1>2, <2>2 DEF Orders
<1> QED
  BY <1>4, <1>5

LEMMA HoldsFacts ==
  ASSUME NEW R \in SUBSET Record, Of(R), Holds
  PROVE  /\ pass'.at = "checking" /\ pass'.todo = Tail(pass.todo)
         /\ pass.held \subseteq pass'.held /\ Write.session \in pass'.held
BY PassTypes DEF Holds

LEMMA ReconcileChecksLines ==
  ASSUME JInv, Lines, Orders, ReconcileChecks
  PROVE  Lines' /\ Orders'
<1>1. PICK R \in SUBSET Record : Of(R)
  BY DEF JInv
<1>2. /\ UNCHANGED <<log, open, resolved, sitting, session, call, refusals>> /\ up'
      /\ pass.todo # <<>> /\ Write.session \notin pass.held
  BY DEF ReconcileChecks, Reconciling, durable, counted, Fails
<1>3. Touches(R, Write.session)
  BY <1>1, <1>2, PassFacts DEF Touches
<1>4. log \in Seq(R) /\ Write = pass.todo[1]
  BY <1>1, <1>2, PassFacts
<1>5. CASE Holds
  <2>1. Lines'
    BY <1>1, <1>2, <1>3, <1>5, HoldsFacts, PassFacts, PassLines
  <2>2. PassSteady(pass', log) /\ (refusals = 0 => TodoInOrder(pass', log, open))
    BY <1>1, <1>2, <1>4, <1>5, HoldsFacts, HeldOrders
  <2> QED
    BY <1>2, <2>1, <2>2 DEF Orders
<1>6. CASE pass' = [pass EXCEPT !.at = IF InLog(Write) THEN "marking" ELSE "appending"]
  <2>1. /\ pass'.todo = pass.todo /\ pass'.held = pass.held
        /\ pass'.at = IF InLog(Write) THEN "marking" ELSE "appending"
    BY <1>1, <1>6, PassTypes
  <2>2. Lines'
    BY <1>1, <1>2, <1>3, <2>1, PassLines
  <2>3. PassSteady(pass', log)
    BY <1>2, <1>4, <2>1 DEF PassSteady, InLog
  <2>4. TodoInOrder(pass, log, open) => TodoInOrder(pass', log, open)
    BY <2>1 DEF TodoInOrder
  <2> QED
    BY <1>2, <2>2, <2>3, <2>4 DEF Orders
<1> QED
  BY <1>5, <1>6 DEF ReconcileChecks

\* The write reconciliation is at may land, the journal having taken every line.
LEMMA WriteMayLand ==
  ASSUME NEW R \in SUBSET Record, Of(R), pass.todo # <<>>, ~Contains(log, Write),
         Write.session \notin pass.held,
         LogInOrder(log), JournalInOrder(log, open), TodoInOrder(pass, log, open)
  PROVE  MayLand(Write, log, open)
<1>1. /\ log \in Seq(R) /\ open \in Seq(R) /\ pass.todo \in Seq(R) /\ Built(R, minted)
      /\ Write \in R /\ Write = pass.todo[1] /\ 1 \in DOMAIN pass.todo
  BY PassFacts
<1>2. DOMAIN pass.todo \subseteq Nat \ {0}
  BY <1>1
<1>3. PICK w \in DOMAIN open : open[w] = Write
  BY <1>1, Holdings DEF TodoInOrder
<1>4. ASSUME NEW n \in DOMAIN open, open[n].session = Write.session, ~Contains(log, open[n]),
             open[n] # Write
      PROVE  Write.id < open[n].id
  <2>1. Contains(pass.todo, open[n])
    BY <1>1, <1>4 DEF TodoInOrder
  <2>2. PICK k \in DOMAIN pass.todo : pass.todo[k] = open[n]
    BY <1>1, <2>1, Holdings
  <2>3. k # 1 /\ k \in Nat \ {0}
    BY <1>1, <1>2, <1>4, <2>2
  <2>4. 1 < k
    BY <2>3
  <2> QED
    BY <1>1, <1>4, <2>2, <2>4 DEF TodoInOrder
<1>5. ASSUME NEW n \in DOMAIN log, log[n].session = Write.session
      PROVE  log[n].id <= Write.id
  <2>1. log[n].id < Write.id
    BY <1>3, <1>5 DEF JournalInOrder
  <2>2. log[n].id \in Nat /\ Write.id \in Nat
    BY <1>1, Holdings, NaturalIds
  <2> QED
    BY <2>1, <2>2
<1>6. Write.id = Write.session \/ \E n \in DOMAIN log : log[n].id = Write.session
  <2>1. CASE \E n \in DOMAIN log : log[n].id = Write.session
    BY <2>1
  <2>2. CASE \E n \in DOMAIN open : open[n].id = Write.session /\ open[n].session = Write.session
    <3>1. PICK n \in DOMAIN open : open[n].id = Write.session /\ open[n].session = Write.session
      BY <2>2
    <3>2. CASE Contains(log, open[n])
      BY <1>1, <3>1, <3>2, Holdings
    <3>3. CASE open[n] = Write
      BY <3>1, <3>3
    <3>4. CASE ~Contains(log, open[n]) /\ open[n] # Write
      <4>1. Write.id < Write.session
        BY <1>4, <3>1, <3>4
      <4>2. Write.session <= Write.id /\ Write.id \in Nat /\ Write.session \in Nat
        BY <1>1, NaturalIds DEF Built
      <4> QED
        BY <4>1, <4>2
    <3> QED
      BY <3>2, <3>3, <3>4
  <2> QED
    BY <1>3, <2>1, <2>2 DEF JournalInOrder
<1> QED
  BY <1>4, <1>5, <1>6 DEF MayLand

LEMMA ReconcileAppendsLines ==
  ASSUME JInv, Lines, Orders, ReconcileAppends
  PROVE  Lines' /\ Orders'
<1>1. PICK R \in SUBSET Record : Of(R)
  BY DEF JInv
<1>2. /\ UNCHANGED <<open, resolved, sitting, session, call, refusals>> /\ up'
      /\ pass.todo # <<>> /\ pass.at = "appending"
  BY DEF ReconcileAppends, Reconciling, counted, Fails
<1>3. /\ log \in Seq(R) /\ open \in Seq(R) /\ Write \in R /\ Write = pass.todo[1]
  BY <1>1, <1>2, PassFacts
<1>4. ~Contains(log, Write) /\ Write.session \notin pass.held
  BY <1>2, <1>3 DEF Orders, PassSteady
<1>5. CASE log' = log /\ Holds
  <2>1. Touches(R, Write.session)
    BY <1>2, <1>3, <1>5 DEF Touches
  <2>2. Lines'
    BY <1>1, <1>2, <1>5, <2>1, HoldsFacts, PassFacts, PassLines
  <2>3. PassSteady(pass', log) /\ (refusals = 0 => TodoInOrder(pass', log, open))
    BY <1>1, <1>2, <1>3, <1>5, HoldsFacts, HeldOrders
  <2> QED
    BY <1>2, <1>5, <2>2, <2>3 DEF Orders
<1>6. CASE log' = Append(log, Write) /\ (pass' = [pass EXCEPT !.at = "marking"] \/ Holds)
  <2>a. Append(log, Write) \in Seq(R)
    BY <1>3, Appended
  <2>1. PICK lg \in Seq(R) : lg = Append(log, Write)
    BY <2>a
  <2>2. \A q : Contains(lg, q) <=> Contains(log, q) \/ q = Write
    BY <1>3, <2>1, Appended
  <2>3. Touches(R, Write.session)
    BY <1>2, <1>3, <1>6, <2>1, <2>2 DEF Touches
  <2>4. Once(lg)
    BY <1>3, <1>4, <2>1, LandedOrders DEF Orders
  <2>5. ASSUME refusals = 0 PROVE LogInOrder(lg) /\ JournalInOrder(lg, open)
    <3>1. LogInOrder(log) /\ JournalInOrder(log, open) /\ TodoInOrder(pass, log, open)
      BY <2>5 DEF Orders
    <3>2. MayLand(Write, log, open)
      BY <1>1, <1>2, <1>4, <3>1, WriteMayLand
    <3> QED
      BY <1>3, <1>4, <2>1, <3>1, <3>2, LandedOrders DEF Orders
  <2>6. Lines' /\ PassSteady(pass', lg) /\ (refusals = 0 => TodoInOrder(pass', lg, open))
    <3>1. CASE Holds
      <4>1. Lines'
        BY <1>1, <1>2, <2>3, <3>1, HoldsFacts, PassFacts, PassLines
      <4>2. PassSteady(pass', lg) /\ (refusals = 0 => TodoInOrder(pass', lg, open))
        BY <1>1, <1>2, <2>2, <3>1, HoldsFacts, HeldOrders
      <4> QED
        BY <4>1, <4>2
    <3>2. CASE pass' = [pass EXCEPT !.at = "marking"]
      <4>1. /\ pass'.todo = pass.todo /\ pass'.held = pass.held /\ pass'.at = "marking"
        BY <1>1, <3>2, PassTypes
      <4>2. Lines'
        BY <1>1, <1>2, <2>3, <4>1, PassLines
      <4>3. PassSteady(pass', lg)
        BY <1>3, <1>4, <4>1 DEF PassSteady
      <4>4. TodoInOrder(pass, log, open) => TodoInOrder(pass', lg, open)
        BY <2>2, <4>1 DEF TodoInOrder
      <4> QED
        BY <4>2, <4>3, <4>4 DEF Orders
    <3> QED
      BY <1>6, <3>1, <3>2
  <2>7. log' = lg
    BY <1>6, <2>1
  <2> QED
    BY <1>2, <2>4, <2>5, <2>6, <2>7 DEF Orders
<1> QED
  BY <1>5, <1>6 DEF ReconcileAppends

LEMMA ReconcileMarksLines ==
  ASSUME JInv, Lines, Orders, ReconcileMarks
  PROVE  Lines' /\ Orders'
<1>1. PICK R \in SUBSET Record : Of(R)
  BY DEF JInv
<1>2. /\ UNCHANGED <<log, sitting, session, call>> /\ up'
      /\ pass.todo # <<>> /\ pass.at = "marking" /\ Line(JournalsResolved(Write))
      /\ pass' = [pass EXCEPT !.at = "checking", !.todo = Tail(@)]
  BY DEF ReconcileMarks, Reconciling, Done
<1>3. /\ log \in Seq(R) /\ open \in Seq(R) /\ pass.todo \in Seq(R) /\ Built(R, minted)
      /\ Write \in R /\ Write = pass.todo[1] /\ refusals \in Nat
  BY <1>1, <1>2, PassFacts
<1>4. pass'.at = "checking" /\ pass'.todo = Tail(pass.todo) /\ pass'.held = pass.held
  BY <1>1, <1>2, PassTypes
<1>5. Contains(log, Write)
  BY <1>1, <1>2, <1>3 DEF Of, Passes
<1>6. /\ open' \in Seq(R) /\ (refusals' = 0 => refusals = 0)
      /\ \A q \in R : q # Write =>
           /\ Contains(open', q) <=> Contains(open, q)
           /\ q.id \in resolved' <=> q.id \in resolved
      /\ \A q : Contains(open', q) => Contains(open, q)
      /\ refusals' = 0 => open' = RemoveFirst(open, Write)
  BY <1>2, <1>3, ResolvedFiles
<1>7. Lines'
  <2>1. Touches(R, Write.session)
    BY <1>2, <1>3, <1>6 DEF Touches
  <2> QED
    BY <1>1, <1>2, <1>4, <2>1, PassFacts, PassLines
<1>8. ASSUME refusals' = 0
      PROVE  JournalInOrder(log, open') /\ TodoInOrder(pass', log, open')
  <2>1. LogInOrder(log) /\ JournalInOrder(log, open) /\ TodoInOrder(pass, log, open)
    BY <1>6, <1>8 DEF Orders
  <2>2. PICK op, p : op = open' /\ op \in Seq(R) /\ op = RemoveFirst(open, Write) /\ p = pass'
    BY <1>6, <1>8
  <2>3. JournalInOrder(log, op)
    BY <1>3, <1>5, <2>1, <2>2, ResolvedOrders
  <2>4. /\ \A q : Contains(op, q) => Contains(open, q)
        /\ \A q \in R : q # pass.todo[1] /\ Contains(open, q) => Contains(op, q)
        /\ p.todo = Tail(pass.todo) /\ pass.held \subseteq p.held /\ Contains(log, pass.todo[1])
    BY <1>3, <1>4, <1>5, <1>6, <2>2
  <2>5. TodoInOrder(p, log, op)
    BY <1>2, <1>3, <2>1, <2>2, <2>4, TodoTail
  <2> QED
    BY <2>2, <2>3, <2>5
<1>9. Orders'
  <2>1. PassSteady(pass', log)
    BY <1>4 DEF PassSteady
  <2> QED
    BY <1>2, <1>6, <1>8, <2>1 DEF Orders
<1> QED
  BY <1>7, <1>9

-----------------------------------------------------------------------------
(* What lands, over any behaviour. *)

LEMMA LinesInitially == Init => Lines /\ Orders
<1> SUFFICES ASSUME Init PROVE Lines /\ Orders
  OBVIOUS
<1>1. /\ log = <<>> /\ open = <<>> /\ resolved = {} /\ refusals = 0 /\ up = TRUE
      /\ sitting = NoObject /\ session = [o \in Object |-> Unrecorded]
      /\ call = [k \in Calls |-> Idle] /\ pass.todo = <<>> /\ DOMAIN <<>> = {}
  BY DEF Init, NoPass
<1>2. \A k \in Calls : call[k] = Idle /\ call[k].at \notin Working /\ call[k].before = NoObject
  BY <1>1, Empties, AtStates
<1>3. \A o \in Object : line[o] = Unrecorded
  BY <1>1, <1>2 DEF line, LineOf
<1>4. Shape(sitting, session, call)
  BY <1>1, <1>2 DEF Shape
<1>5. \A o \in Object : Good(line[o], log, open, resolved, refusals) /\ Untried(line[o], log)
                        /\ Number(line[o]) = 0
  <2>1. open \in Seq({})
    BY <1>1
  <2> QED
    BY <1>3, <2>1, UnrecordedGood
<1>6. Apart(line, pass.todo)
  BY <1>1, <1>5 DEF Apart
<1>7. \A k \in Calls : Steady(call[k], log, refusals)
  BY <1>2, IdleSteady
<1>8. Lines
  BY <1>3, <1>4, <1>5, <1>6, <1>7 DEF Lines
<1>9. Orders
  BY <1>1 DEF Orders, PassSteady, Once, LogInOrder, JournalInOrder, TodoInOrder
<1> QED
  BY <1>8, <1>9

LEMMA StepKeepsLines ==
  ASSUME Alone, IInv, [Next]_vars
  PROVE  Lines' /\ Orders'
<1>1. JInv /\ Lines /\ Orders
  BY DEF IInv
<1>2. ASSUME NEW c \in Calls, Opens(c) PROVE Lines' /\ Orders'
  BY <1>1, <1>2, OpensLines
<1>3. ASSUME NEW c \in Calls, KeepsGoing(c) PROVE Lines' /\ Orders'
  BY <1>1, <1>3, KeepsGoingLines
<1>4. ASSUME NEW c \in Calls, Extends(c) PROVE Lines' /\ Orders'
  BY <1>1, <1>4, ExtendsLines
<1>5. ASSUME NEW c \in Calls, Checks(c) PROVE Lines' /\ Orders'
  BY <1>1, <1>5, ChecksLines
<1>6. ASSUME NEW c \in Calls, Appends(c) PROVE Lines' /\ Orders'
  BY <1>1, <1>6, AppendsLines
<1>7. ASSUME NEW c \in Calls, MarksResolved(c) PROVE Lines' /\ Orders'
  BY <1>1, <1>7, MarksLines
<1>8. ASSUME NEW c \in Calls, JournalsLine(c) PROVE Lines' /\ Orders'
  BY <1>1, <1>8, JournalsLineLines
<1>9. ASSUME NEW c \in Calls, GivesUp(c) PROVE Lines' /\ Orders'
  BY <1>1, <1>9, GivesUpLines
<1>10. ASSUME Enters \/ Exits PROVE Lines' /\ Orders'
  BY <1>1, <1>10, EntersLines, ExitsLines
<1>11. ASSUME Crashes \/ Restarts PROVE Lines' /\ Orders'
  BY <1>1, <1>11, CrashesLines, RestartsLines
<1>12. ASSUME ReconcileSkips \/ ReconcileChecks \/ ReconcileAppends \/ ReconcileMarks
       PROVE  Lines' /\ Orders'
  BY <1>1, <1>12, ReconcileSkipsLines, ReconcileChecksLines, ReconcileAppendsLines,
     ReconcileMarksLines
<1>13. CASE UNCHANGED vars
  <2>1. UNCHANGED <<log, open, resolved, sitting, session, call, pass, up, refusals>>
    BY <1>13 DEF vars
  <2>2. line' = line
    BY <2>1 DEF line
  <2>3. Lines'
    BY <1>1, <2>1, <2>2 DEF Lines
  <2>4. Orders'
    BY <1>1, <2>1 DEF Orders
  <2> QED
    BY <2>3, <2>4
<1> QED
  BY <1>2, <1>3, <1>4, <1>5, <1>6, <1>7, <1>8, <1>9, <1>10, <1>11, <1>12, <1>13 DEF Next

\* IInv holds at first and after every step, when "keep going" overlaps no other call.
THEOREM Invariance ==
  ASSUME Alone
  PROVE  Spec => []IInv
<1>1. Init => IInv
  BY JInitially, LinesInitially DEF IInv
<1>2. IInv /\ [Next]_vars => IInv'
  BY StepKeepsJ, StepKeepsLines DEF IInv
<1> QED
  BY <1>1, <1>2, PTL DEF Spec

\* Over any failed and reported-failed writes, refused journal lines, crashes and reconciliations,
\* no record lands in the composition log twice, provided "keep going" overlaps no other call.
THEOREM NoneLandsTwice ==
  ASSUME Alone
  PROVE  Spec => []LandsOnce
<1>1. IInv => LandsOnce
  BY DEF IInv, Orders, Once, LandsOnce
<1> QED
  BY <1>1, Invariance, PTL

\* While the journal takes every line, the records of a session land in the order they were
\* built and never without the first, provided "keep going" overlaps no other call.
THEOREM LandInOrder ==
  ASSUME Alone
  PROVE  Spec => []InOrder
<1>1. IInv => InOrder
  BY DEF IInv, Orders, LogInOrder, InOrder
<1> QED
  BY <1>1, Invariance, PTL

=============================================================================
