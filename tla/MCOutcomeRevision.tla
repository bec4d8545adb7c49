--------------------------- MODULE MCOutcomeRevision ---------------------------
(* Two versions of a document of a text page and a page with a figure. *)
EXTENDS OutcomeRevision, TLC

CONSTANTS A, B, c1, c2, written, drawn, dropped

MCRoute == (A :> <<"text", "image">>) @@ (B :> <<"text", "both">>)

MCStates ==
  (A :> [d \in 0..2 |-> IF d = 0 THEN {written, dropped} ELSE {}]) @@
  (B :> [d \in 0..2 |-> CASE d = 0 -> {written} [] d = 1 -> {} [] d = 2 -> {drawn}])

Symmetry == Permutations({c1, c2})
================================================================================
