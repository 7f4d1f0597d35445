---------------------------- MODULE BranchBriefing ----------------------------
(***************************************************************************)
(* What briefing (src/src/service.js) says of finished work while           *)
(* Integration moves the branch: the candidates that await a decision, the  *)
(* work that is done and the work that was taken back.  Everything is       *)
(* derived from records, since a proposal's row is never changed.  Projects *)
(* are not retired here, and no list is long enough to be cut.              *)
(***************************************************************************)
EXTENDS Integration

\* Mutant: the column of the proposal, which lags.
OpenProposals == {j \in Jobs : expected[j] # None}

Awaiting == {j \in Jobs : expected[j] # None /\ ~Integrated(j) /\ j \notin declined}

Done     == {j \in Jobs : jobs[j] = "SUCCEEDED" /\ rollbacks[j] = 0}
Reverted == {j \in Jobs : rollbacks[j] > 0}

\* The part of doctor that speaks of integrations.
Healthy == Unresolved = {}
-----------------------------------------------------------------------------
\* briefing: not to "ask the operator to approve work that already landed": in a briefing that says all is
\* well, no candidate that awaits a decision is on the branch, whatever became of pushes and servers.
AskedHasNotLanded ==
  Healthy => \A j \in Awaiting : \A o \in OpsOf(j) : ~OnBranch(o)

\* briefing: the change of a job that is told as done has moved the branch, and the change of one that
\* is told as taken back is on it no more, nor comes back.
AccountIsTrue ==
  /\ \A j \in Done : Landed(j)
  /\ \A j \in Reverted : \A o \in OpsOf(j) : ~OnBranch(o)

\* The branch goes from the commit of operation o back to the head its proposal recorded.
TakesBack(j, o) == branch[Project[j]] = NewHead(o) /\ branch'[Project[j]] = expected[j]

\* briefing: while a job is told as done its change leaves the branch in two ways only: a developer takes
\* it off, or a rollback of it, which takes off nothing else.  No push that was thought lost, no other
\* integration and no other rollback does.
DoneIsKept ==
  [][\A j \in Done : \A o \in OpsOf(j) :
        OnBranch(o) /\ ~OnBranch(o)' => TakesBack(j, o) \/ outsideLeft' < outsideLeft]_vars

\* briefing: what is said of finished work agrees with the branch.  That a job whose change a rollback took
\* off ceases to be done is not said: it needs the receipt, which may be lost (LostReceiptIsCompleted).
ToldTruly == [](AskedHasNotLanded /\ AccountIsTrue) /\ DoneIsKept
-----------------------------------------------------------------------------
(* Promises of the repository that the code does not keep: section 8 of the  *)
(* README has the behaviour that contradicts each.                           *)

\* briefing: what was integrated must not appear "nowhere at all", with "no statement that its change is
\* no longer present".  Done asks for the status of the job, which a decline during the push has closed.
NothingVanishes == \A j \in Jobs : Integrated(j) => j \in Done \cup Reverted
=============================================================================
