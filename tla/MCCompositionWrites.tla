------------------------ MODULE MCCompositionWrites ------------------------
(* The writing of composition records on small instances. *)
EXTENDS CompositionWrites

CONSTANTS o1, o2, o3, o4, o5, c1, c2

=============================================================================
