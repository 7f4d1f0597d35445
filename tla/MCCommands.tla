----------------------------- MODULE MCCommands -----------------------------
(***************************************************************************)
(* Small instances for TLC of the commands of the Control API.  The same    *)
(* model values serve in all: no two of them are exercised in one behaviour. *)
(***************************************************************************)
EXTENDS Commands, TLC

Symmetry == Permutations(Calls) \cup Permutations(Goals) \cup Permutations(Bindings)
=============================================================================
