------------------------------- MODULE MCHost -------------------------------
(***************************************************************************)
(* Small instances for TLC of what runs on the host.  The same model values *)
(* serve in all the components: no two of them are exercised in one         *)
(* behaviour.                                                               *)
(***************************************************************************)
EXTENDS Host, TLC

\* A call that only answers, and one that also reasons.
MCCosts == {[visible |-> 1, reasoning |-> 0], [visible |-> 1, reasoning |-> 1]}

Symmetry == Permutations(Turns) \cup Permutations(Values) \cup Permutations(Cmds)
=============================================================================
