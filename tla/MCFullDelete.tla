----------------------------- MODULE MCFullDelete -----------------------------
(* FullDelete with one key of each kind, a draft and a log. *)
EXTENDS FullDelete
=============================================================================
