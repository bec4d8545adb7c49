----------------------------- MODULE MCDraftAccept -----------------------------
(* One draft of an ordinary note or of a home note. *)
EXTENDS DraftAccept
================================================================================
