--------------------------- MODULE MCManagerLoop ---------------------------
(* Instances of ManagerLoop for TLC. *)
EXTENDS ManagerLoop, TLC

Symmetry == Permutations(Managers)
=============================================================================
