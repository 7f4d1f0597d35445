------------------------------ MODULE Commands ------------------------------
(***************************************************************************)
(* What the Control API's commands do beside running jobs: requests, work  *)
(* proposals, backup and restore.  A behaviour exercises one of them: they  *)
(* share no state here, so that the steps of another would change nothing a *)
(* property of this one can see.                                            *)
(***************************************************************************)
EXTENDS Naturals

CONSTANTS
    Calls,       \* HTTP calls
    Requests,    \* request ids
    Bindings,    \* what a request id is bound to
    Plain,       \* another such binding,
    Restoring,   \* and a restore
    Keys, Goals, Window, MaxAttempts, MaxJobs, MaxHead, MaxTime,   \* WorkProposals
    Repos, MaxOps, MaxRetirings, MaxCommits,                              \* Recovery
    None

VARIABLES
    part,                                                              \* the component that is exercised
    up, open, intents, results, saved, inFlight, call, effects,        \* ControlRequests
    time, head, jobs, proposals, decisions, project, req, changes,     \* WorkProposals
    server, db, branch, backups, marker, op, commits, ops, retirings, owed   \* Recovery

requestVars  == <<up, open, intents, results, saved, inFlight, call, effects>>
workVars     == <<time, head, jobs, proposals, decisions, project, req, changes>>
recoveryVars == <<server, db, branch, backups, marker, op, commits, ops, retirings, owed>>
vars == <<part, requestVars, workVars, recoveryVars>>

\* Requests that are retried and mixed up while receipts fail; and a restore among them.
Retried  == INSTANCE ControlRequests WITH Restore <- None, Crashing <- TRUE, Failing <- TRUE
Restored == INSTANCE ControlRequests WITH
    Bindings <- {Plain, Restoring}, Restore <- Restoring, Crashing <- TRUE, Failing <- FALSE

\* Overlapping calls about several goals, with the branch, the clock and other jobs of the project.
Proposed == INSTANCE WorkProposals WITH Requests <- Calls

\* A server that lives, while handlers write, projects are retired, and developers move branches.
Recovered == INSTANCE Recovery WITH up <- server, Crashing <- FALSE

ASSUME CommandsAssumption ==
    /\ Retried!RequestsAssumption /\ Restored!RequestsAssumption /\ Proposed!WorkAssumption
    /\ Recovered!RecoveryAssumption

\* A component that is not exercised starts in one of its initial states.
Init ==
    /\ part \in {"requests", "restores", "work", "recovery"}
    /\ Retried!Init /\ Proposed!Init /\ Recovered!Init
    /\ part # "recovery" => backups = {}

Next ==
    \/ /\ \/ part = "requests" /\ Retried!Next
          \/ part = "restores" /\ Restored!Next
       /\ UNCHANGED <<part, workVars, recoveryVars>>
    \/ /\ part = "work" /\ Proposed!Next
       /\ UNCHANGED <<part, requestVars, recoveryVars>>
    \/ /\ part = "recovery" /\ Recovered!Next
       /\ UNCHANGED <<part, requestVars, workVars>>

Spec == Init /\ [][Next]_vars

(***************************************************************************)
(* What is checked: properties of the components, stated there.             *)
(***************************************************************************)
\* mutate, waitForResult: the work of a request is done once at most, and only as it was bound, and the calls
\* of one request that are told an outcome are told the same, and a true one.
AtMostOnce ==
    /\ part = "requests" => Retried!AtMostOnce
    /\ part = "restores" => Restored!TypeOK

\* reinstateIntent: a restore that takes its own intent away is reported as what it was.
RestoreIsReported == Restored!RestoreIsReported

\* proposeWork, authorizeWorkProposal, rejectWorkProposal: an idempotency key is one action; a proposal has one
\* decision and at most one job; the job that is run is the one that was proposed, and its investigations
\* describe the world it works in.
DecidedAsProposed ==
    /\ Proposed!TypeOK
    /\ Proposed!KeyIsOneAction
    /\ Proposed!OneDecisionOneJob
    /\ Proposed!AsProposed
    /\ Proposed!OneWorld

\* authorizeWorkProposal: nothing that has expired or been superseded is authorized.
AuthorizedInTime == Proposed!AuthorizedInTime

\* restoreBackup: a database whose repositories did not follow is marked.
DividedIsMarked == Recovered!TypeOK /\ Recovered!DividedIsMarked

\* restoreBackup, resolveRestoreRequirements: what a restore replaces is in a backup, and only branches of
\* projects that the restored database tracks, or the project list of its backup, are moved.
RestoreIsSafe == Recovered!ReplacedIsKept /\ Recovered!OnlyListedMoves
=============================================================================
