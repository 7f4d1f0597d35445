--------------------------- MODULE MCIntegration ---------------------------
(* Small instances of Integration for TLC. *)
EXTENDS Integration

MCOneProject  == [j \in Jobs |-> CHOOSE p \in Projects : TRUE]
MCSymmetry    == Permutations(Requests) \cup Permutations(Principals)
MCJobSymmetry == Permutations(Requests) \cup Permutations(Jobs)
=============================================================================
