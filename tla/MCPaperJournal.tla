--------------------------- MODULE MCPaperJournal ---------------------------
(* Papers of two parts of one task; in a structured paper the second is built on the first. *)
EXTENDS PaperJournal

CONSTANTS flat, short

MCPlan == (flat :> <<1, 2>>) @@ (short :> <<1, 2>>)
MCNeeds == [s \in Slot |-> IF s = 2 THEN {1} ELSE {}]
MCTask == [s \in Slot |-> "quiz"]
=============================================================================
