------------------------------ MODULE UnitManifest ------------------------------
(***************************************************************************)
(* The unit manifest of one document: the records of its log               *)
(* (core/src/ingestion/unit-manifest/records.ts), what their fold says of  *)
(* each version of it (projection.ts, enumerate.ts), and when a version's  *)
(* outcomes have been read in full (core/src/outcome/                      *)
(* retire-on-revision.ts).                                                 *)
(*                                                                         *)
(* A version is a digest, for the bytes it names.  A log is a sequence:    *)
(* the place of a record in it is its Lamport clock, so the records are    *)
(* one device's.                                                           *)
(*                                                                         *)
(* Left out: transcripts, concept extraction, documents without pages.     *)
(***************************************************************************)
EXTENDS Integers, Sequences, FiniteSets, SequencesExt, FiniteSetsExt

CONSTANTS
  Versions,
  None,   \* no version: nothing is listed, or the file is gone
  Route   \* Route[v][p]: who reads page p of version v; its domain is the pages of v

Pages == UNION {DOMAIN Route[v] : v \in Versions}

\* `RouteDecision`; a "furniture" page has a text layer with nothing worth reading.
Routes == {"text", "furniture", "image", "both"}

ASSUME UnitManifestAssumption ==
  /\ None \notin Versions
  /\ DOMAIN Route = Versions
  /\ Pages \subseteq Nat \ {0}
  /\ \A v \in Versions :
       IsFiniteSet(DOMAIN Route[v]) /\ \A p \in DOMAIN Route[v] : Route[v][p] \in Routes

\* `UnitReadingState`: read in full from the text layer or the image, read in part or not
\* legible, or nothing there; and the version whose page was read (a reading's provenance
\* holds the digest of its image).
Readings == [how : {"text", "image", "partial", "nothing"}, bytes : Versions]

InFull(reading) == reading.how \in {"text", "image"}

Listing(v) == [kind |-> "enumerated", of |-> v]
Retirement(v) == [kind |-> "retired", of |-> v]
Unit(v, p, reading, marked) ==
  [kind |-> "unit", of |-> v, page |-> p, reading |-> reading, marked |-> marked]

Records ==
  [kind : {"enumerated", "retired"}, of : Versions]
  \cup [kind : {"unit"}, of : Versions, page : Pages, reading : Readings, marked : BOOLEAN]

\* The pages the text layer settles.
Settled(v) == {p \in DOMAIN Route[v] : Route[v][p] \in {"text", "furniture"}}

SettledAs(v, p) ==
  [how |-> IF Route[v][p] = "furniture" THEN "nothing" ELSE "text", bytes |-> v]

\* `enumerationOfExtraction`: the records that list a version, the pages in some order.
Enumeration(v) ==
  LET pages == SetToSeq(Settled(v)) IN
  <<Listing(v)>> \o
    [n \in 1..Cardinality(Settled(v)) |-> Unit(v, pages[n], SettledAs(v, pages[n]), FALSE)]

-----------------------------------------------------------------------------
(* The fold. *)

Of(log, kind, v) == {n \in DOMAIN log : log[n].kind = kind /\ log[n].of = v}

Listings(log, v) == Of(log, "enumerated", v)

\* `isLive`, of the listings: those of a version not retired since.
LiveListings(log) ==
  {n \in DOMAIN log : /\ log[n].kind = "enumerated"
                      /\ \A m \in (n + 1)..Len(log) : log[m] # Retirement(log[n].of)}

\* `liveRevision`: of the live versions, the one listed last.
Live(log) ==
  IF LiveListings(log) = {} THEN None ELSE log[Max(LiveListings(log))].of

\* Bug: only the version that is live is known.
KnownLive(log) == {Live(log)}

\* `knownRevisions`: every version ever listed.
Known(log) == {v \in Versions : Listings(log, v) # {}}

\* Bug: a mark counts from the first listing of its version.
ThresholdOfFirst(log, v) == Min(Listings(log, v))

\* `markThreshold`: the first listing of a version since any other was listed.
Threshold(log, v) ==
  LET others == Max({0} \cup UNION {Listings(log, w) : w \in Versions \ {v}})
      own == {n \in Listings(log, v) : n > others}
  IN IF own = {} THEN others ELSE Min(own)

\* The latest record of a page up to a clock; 0 when there is none.
Latest(log, v, p, upTo) ==
  Max({0} \cup {n \in Of(log, "unit", v) : log[n].page = p /\ n <= upTo})

\* The pages a version's listing or any record of it names.
Named(log, v) == DOMAIN Route[v] \cup {log[n].page : n \in Of(log, "unit", v)}

\* The mark of a record counts.
Counts(log, v, n) == n > Threshold(log, v) /\ log[n].marked

\* `manifestOfRevision`, one entry: what the last record of the page says; its reading is not
\* there while the page waits.
Entry(log, v, p) ==
  LET n == Latest(log, v, p, Len(log)) IN
  IF n = 0 THEN [reading |-> {}, marked |-> FALSE]
  ELSE [reading |-> {log[n].reading}, marked |-> Counts(log, v, n)]

\* `outcomeHistoryOf`: the record that stands for a page at a moment of the replay. Records
\* older than the listing stand only for a page that has no newer one.
StandsAt(log, v, p, moment) ==
  LET n == Latest(log, v, p, moment) IN
  IF n <= Threshold(log, v) /\ n # Latest(log, v, p, Len(log)) THEN 0 ELSE n

\* `isPageSettledForOutcomes`.
NeedsNothing(log, v, p, moment) ==
  LET n == StandsAt(log, v, p, moment) IN
  /\ n > 0
  /\ \/ log[n].reading.how = "nothing"
     \/ InFull(log[n].reading) /\ Counts(log, v, n)

\* `settled`: every page named needs nothing more, and outcomes were extracted from one.
FullAt(log, v, moment) ==
  /\ \A p \in Named(log, v) : NeedsNothing(log, v, p, moment)
  /\ \E p \in Named(log, v) : InFull(log[StandsAt(log, v, p, moment)].reading)

\* Bug: only the last state of the pages is looked at.
FullNow(log, v) == FullAt(log, v, Len(log))

\* `outcomeRevisionReadInFull`: at some moment since its listing the version was read in full.
ReadInFull(log, v) == \E moment \in Threshold(log, v)..Len(log) : FullAt(log, v, moment)
=================================================================================
