-------------------------- MODULE MCIngestionQueue --------------------------
(* The ingestion queue on small instances. *)
EXTENDS IngestionQueue

CONSTANTS a, b, v1, u1, t1, t2

In(hash, version, unit) == [hash |-> hash, version |-> version, unit |-> unit]

Says(kind, band) == [kind |-> kind, headroom |-> band]

\* Two unrelated jobs.
TwoJobs == {In(a, NoVersion, NoUnit), In(b, NoVersion, NoUnit)}
\* Two revisions of one source.
Revisions == {In(a, NoVersion, u1), In(b, NoVersion, u1)}
\* Versioned and unversioned revisions of one source.
Mixed == {In(a, NoVersion, u1), In(a, v1, u1), In(b, NoVersion, u1)}

SameRank == [h \in Hash |-> 0]
SecondFirst == [h \in Hash |-> IF h = a THEN 1 ELSE 0]

\* A failing service, no budget involved.
Failing == {Says("ok", "none"), Says("retryable", "none"), Says("not-attempted", "none")}
\* A metered service: every band, with successes and failures.
Metered == {Says("ok", "exhausted"), Says("ok", "low"), Says("ok", "ample"),
            Says("retryable", "exhausted"), Says("permanent", "none"),
            Says("not-attempted", "none")}
\* A service that is reached in the end.
Reached == {Says("ok", "none"), Says("ok", "exhausted"), Says("ok", "low"),
            Says("retryable", "none"), Says("retryable", "exhausted"),
            Says("permanent", "none"), Says("unrecognised", "none")}
=============================================================================
