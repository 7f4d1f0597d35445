---------------------------- MODULE MCJobBriefing ----------------------------
(***************************************************************************)
(* Instances of JobBriefing, and with it of Dispatcher, for TLC.  What is   *)
(* said of a job adds one variable that Dispatcher does not read, so that   *)
(* the invariants of Dispatcher are checked here as well.                   *)
(***************************************************************************)
EXTENDS JobBriefing, DispatcherInvariant, TLC

MCParent          == [x \in Explorations |-> x]
MCServerSymmetry  == Permutations(Servers)
MCTwice           == [j \in Jobs |-> 2]
MCCeiling         == [j \in Roots |-> 2]
=============================================================================
