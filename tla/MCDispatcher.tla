---------------------------- MODULE MCDispatcher ----------------------------
(* Small instances of Dispatcher for TLC. *)
EXTENDS DispatcherInvariant, TLC

CONSTANTS d1, d2, m0, x1, x2
MCParent    == [x \in Explorations |-> m0]
MCServerSymmetry == Permutations(Servers)
MCChildSymmetry  == Permutations(Explorations)
MCTwice     == [j \in Jobs |-> 2]
MCOnce      == [j \in Jobs |-> 1]
MCNoCeiling == [j \in Roots |-> Unlimited]
MCCeiling   == [j \in Roots |-> 2]
=============================================================================
