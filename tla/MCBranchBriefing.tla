--------------------------- MODULE MCBranchBriefing ---------------------------
(* Instances of BranchBriefing for TLC. *)
EXTENDS BranchBriefing

MCOneProject  == [j \in Jobs |-> CHOOSE p \in Projects : TRUE]
MCSymmetry    == Permutations(Requests) \cup Permutations(Principals)
=============================================================================
