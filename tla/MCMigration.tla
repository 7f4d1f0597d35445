----------------------------- MODULE MCMigration -----------------------------
(***************************************************************************)
(* Instances of Migration for TLC.                                         *)
(***************************************************************************)
EXTENDS Migration, TLC

Symmetry == Permutations(Processes) \cup Permutations(Receipts) \cup Permutations(Columns)
=============================================================================
