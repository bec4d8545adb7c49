----------------------------- MODULE MCSpendLedger -----------------------------
(* Two scope reads of one part on a device, and an outcome extraction on another. *)
EXTENDS SpendLedger

CONSTANTS d1, d2, c1, c2, c3, part

OnePart == [c \in Calls |-> part]
HoldOf == [c \in Calls |-> IF c = c3 THEN 3 ELSE 2]
Device == [c \in Calls |-> IF c = c3 THEN d2 ELSE d1]
================================================================================
