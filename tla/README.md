# delegate-wave: a TLA+ verification of the dispatcher and what surrounds it

delegate-wave runs coding agents on a repository under human authority: a person authorizes a
piece of work, workers attempt it in detached git worktrees, deterministic checks judge each
candidate, and a person approves the exact commit that may move the integration branch.  The
state of all of it is one SQLite database, shared by several operating-system processes, and one
git repository per project.  This directory models that machinery in TLA+, model-checks it with
TLC and proves its central invariants with TLAPS.  Paths such as `service.js` are under
`src/src/`.

Contents: 1 inventory, 2 how the parts interact, 3 plan, 4 modules, 5 runs and bounds, 6 fairness,
7 proofs, 8 findings, 9 what is not modelled, 10 running it.

## 1. Inventory

| Component | State it keeps | Operations | Hard behaviour | Correct when | Module |
|---|---|---|---|---|---|
| Dispatcher, `service.js` | `jobs`, `attempts`, scheduler epoch, usage receipts, cancellation intents and results | `runJob`, `validate`, `failAttempt`, `cancelJob`, `reconcile` | several processes on one database, awaits between transactions, children that outlive their parent | one attempt at a time, nothing wedged, a verdict is final, no ceiling exceeded as far as receipts tell, receipts of cancels true | `Dispatcher` |
| Child processes, `process.js` | running processes | spawn, record pid, close, kill, timeout | a crash between spawn and record | no verdict over a live child, no recovery of live work | `Dispatcher` |
| Integration, `service.js`, `recovery.js`, `git.js` | proposals, approvals, operations and their records, rollbacks, the branch | `proposeIntegration`, `grantApproval`, `declineIntegration`, `runIntegration`, `rollbackIntegration`, `reconcileRollbacks` | a `git push` whose reply is lost, developers on the same branch, crashes around the compare-and-swap | one open operation, an approval spent once, records true of the branch, a candidate lands once | `Integration`, `BranchAuthority` |
| Work proposals and jobs, `service.js` | `work_proposals`, decisions, `jobs`, `projects.retired_at` | propose, authorize, reject, create, start, retire | read of the branch head outside the transaction, two decisions at once, the clock | one decision, one job per authorized proposal, the job that was proposed | `WorkProposals` |
| Everyday status, `service.js` | none: derived | `briefing`, `jobOutcome`, `budgetObstacle` | sentences derived from rows that crashes and cancels have left | what a person is told is what happened | `Outcome`, `JobBriefing`, `BranchBriefing` |
| Manager loop, `manager/service.js` | `manager_runs`, `manager_turns`, briefs and plans on disk | plan, explore, synthesize, implement, review, accept, revise, halt, reconcile | a paid call whose answer may be lost, writes that ignore a concurrent cancel, a crash between a row and a file | a turn is paid once, bounded turns, what is offered was reviewed, a worker is told the last decision | `ManagerLoop` |
| Manager transport, `manager/codex-app-server.js` | turns in flight, one per thread | `runTurn`, `request`, `route`, timers | answers late, inline, of another turn, or never; the server exits | an answer is the turn's own; a turn that failed was not paid for, unless the server exited | `ManagerTransport` |
| Control requests, `control/service.js` | request intents and results, `inFlight` | `mutate`, wait, reinstate after a restore | retry while running, after a failure, after a crash, across a restore | a request runs at most once, one answer for ever | `ControlRequests` |
| Backup and restore, `recovery.js` | database files, restore marker, branches | backup, preflight, restore, resolve | one repository of several that fails, a branch that moves meanwhile | database and branches agree, or a marker says they do not; nothing replaced is lost | `Recovery` |
| Supervisor, `supervisor.js` | scheduled task, runtime PID file | install, start, stop, uninstall | stop and start overlap, a runtime that dies slowly | stopped means stopped, enabled means served | `Supervisor` |
| Credential store, `supervisor.js` | the sealed records, the user's environment | provision, add-role, migrate | a crash in the write, overlapping commands | no role is lost; a cleared value is stored, or add-role found the role | `SecretStore` |
| Database, `db.js` | tables, `schema_version` | `openDatabase`, `migrate` | processes that race through a migration or die in it | no evidence is lost, the version is true, the database opens | `Migration` |
| Executors, `backend.js`, `harness/`, `usage.js` | `harnessDisabled`; logs, receipts, verdicts | select, run, parse, classify, judge | an executor killed with its log half written | an unknown cost is never zero, nothing counted twice, the bill of a success is whole | `Executors` |
| Manager usage, `manager/usage.js`, `manager/service.js` | receipts of turns | observe, record, report | counts that fit several readings, turns that have no receipt | a complete receipt has the counts that were used, no sum is more than was used | `CodexUsage` |
| Git helpers, `git.js` | worktrees, refs | compare-and-swap, cherry-pick, snapshot | see Integration | see Integration | within `Integration`, `Recovery` |
| Evidence, fence, provenance, MCP server, HTTP, command line | none that another step reads | translate | - | - | not modelled (section 9) |

`PROJECT.json` lists the same parts with their status, and the forty hazards that matter most, each at
its line.

## 2. How the parts interact

One Control API server (it owns a port) serves the operator's commands and runs direct jobs;
`delegate-wave manage` processes run the manager loop of managed jobs and their investigations.
All of them open the same SQLite file.  SQLite is called synchronously and `transaction` is
`BEGIN IMMEDIATE`, so a transaction, or a single statement, is atomic, and the code between two
`await`s is undisturbed by its own process but not by the others.  That fixes the grain of the
models: one action per transaction, per statement outside one, or per awaited call.

Dispatcher ends a successful write job in READY_FOR_INTEGRATION, where Integration takes it up;
Integration and `reconcile` meet again in `reconcileRollbacks`, which runs at the end of a recovery
of attempts.  The manager loop claims attempts of a managed root through Dispatcher, and writes job
states of its own. ManagerLoop sees an attempt as a
claim and an end.  WorkProposals makes the jobs that Dispatcher runs.  ControlRequests stands in
front of all of them: a command is the body of one of its requests.  Recovery replaces the database
under everything, ControlRequests included, and Migration brings a database up to date before
anything else touches it.  Supervisor decides when there is a server at all, SecretStore whether it
can start.  JobBriefing and BranchBriefing read the state of Dispatcher and Integration.

## 3. Plan

All models of the plan are built, in this order of importance: `Dispatcher`, `Integration` (with
`BranchAuthority`), `ManagerLoop`, `WorkProposals`, `ControlRequests`, `Recovery`, `Supervisor`,
`SecretStore`, `ManagerTransport`, `Migration`, `Executors`, `CodexUsage`, and `Outcome` with `JobBriefing`
and `BranchBriefing`, which compose what the operator is told with the two components it is told of.

The proofs stand in modules of their own:

| Module | Proves |
|---|---|
| `TotalsProofs` | facts about sums over finite sets (`Totals`), which the ceilings need |
| `DispatcherProofs` | Dispatcher: its invariant, which `DispatcherInvariant` states; the money, the statuses and receipts, and what `JobBriefing` says of a job |
| `IntegrationProofs` | Integration: the ledger, the branches; what implements `BranchAuthority` and what `BranchBriefing` says |
| `ManagerLoopProofs` | ManagerLoop |
| `ControlRequestsProofs` | ControlRequests, without restores and with them |
| `WorkProposalsProofs` | WorkProposals |
| `CommandsProofs` | Recovery; and of what `Commands` composes, the properties as its run states them |
| `HostProofs` | Supervisor, SecretStore, ManagerTransport, Migration, Executors, CodexUsage; and of what `Host` composes, the properties as its run states them |

With these, every safety property that a passing run checks is a theorem.  What is open is liveness (below), what
the findings and section 8 say the code does not promise, and the parts of section 9.

None of these modules declares a RECURSIVE operator, and their constants are constrained by one named
assumption each.

## 4. Modules

### Dispatcher

State: `jobs` is `jobs.status`; `attempts` the rows of the attempts table, one per job and ordinal
(`made` counts them); `receipt` the usage receipts; `generation` the scheduler epoch; `stage` and
`left` the program counter of the `runJob` call that made an attempt; `executor` and `validator` the
children; `spend` what an executor bought and `logged` what its log prices of that, which may be
less; `alive` and `fresh` the processes; `cancel` the `cancelJob`
call in progress; `openIntents` and `outcomes` the two cancellation tables.

| Action | Code |
|---|---|
| `Claim` | the claim transaction of `runJob`, with `assertAdmissible` and `admitAttempt` |
| `WorktreeFails`, `IntendExecutor`, `SpawnExecutor`, `RecordExecutorPid`, `RecordUsage`, `JudgeExecutor`, `ExecutorSucceeded` | the rest of `runJob` up to its checks |
| `IntendCheck`, `SpawnCheck`, `RecordValidationPid`, `RecordCheck` | `validate` |
| `SettleBudget`, `PassValidation`, `FailAttempt` | `settleBudget`, the promotion, `failAttempt` |
| `CancelReads` ... `SettleCancel` | `cancelJob` and `cancelFamilyAttempt`, one action per statement |
| `Reconcile` | the transaction of `reconcile({apply: true})` |
| `StartProcess`, `Crash`, `ExecutorCloses`, `ValidatorCloses` | the environment |

`Accepts` is the fence of `acceptAttemptEvent`; a refused event sends the call to `failAttempt`, as
the thrown error does.  Three writes go round the fence: the usage receipt, and the two papers a row
names, `instruction` (`service.js:823`, after the worktree was awaited) and `report` (`:877`, after the
executor was).  They may reach a row that a cancel has closed meanwhile, and `ClosedAttemptIsFinal`
says that they reach no other.  Abstractions:

- One server runs at a time; a restarted server is another member of `Servers`.  `manage` processes
  run beside it.  `cancelJob` has no `await`, so its own process does nothing else meanwhile
  (`CanStep`), but other processes act between its statements.
- PIDs and intent ids are unique to one run, so a column is modelled by whether it is set.
- `SELECT SUM` is `Total` of the module `Totals`, a sum over the rows of a family.
- A receipt is COMPLETE and priced, or UNKNOWN.  PARTIAL and a receipt without a price count as
  UNKNOWN (the budget treats them alike), NO_PROVIDER_CONTACT as COMPLETE at cost 0.  A COMPLETE
  receipt prices the log, and an OpenCode log that stops between two lines is COMPLETE
  (`usage.js:113`); why it is less than what was bought, is in `Executors`.
- A managed root's own attempts are not claimed here; the root is the open parent of its
  investigations.  The status FAILED is never written to a job by this code.
- `assertAuthorizedBaseIntact`, the backend selection and the policy on changed files refuse or
  fail an attempt; they are part of the alternatives "no claim" and "failing".

### Integration and BranchAuthority

State: `expected` the head recorded in a job's proposal; `receipts`, `operations`, `rollbacks` the
tables of those names, terminal records folded into the operation; `declined` the
INTEGRATION_DECLINED events; `requests` the calls in progress, each at one of its awaits; `branch`,
`checkedOut`, `pushes` git's side.  A commit is the sequence of what was applied since the start:
the number of the operation that cherry-picked a candidate, 0 for a developer's work.  `reflog`
remembers every operation whose commit the branch was ever moved to.

| Action | Code |
|---|---|
| `Propose`, `RecordProposal` | `proposeIntegration`, before and after it reads the head |
| `GrantApproval`, `Expire`, `DeclineIntegration` | the functions of those names; time |
| `Claim` | the checks and the claim transaction of `runIntegration` |
| `ListWorktrees`, `CheckHead`, `PrepareCandidate`, `SendAdvance` | its awaits, `assertIntegrationHeadUnchanged` twice |
| `RecordSuccess`, `InspectHead`, `RecordFailure` | its three ways to end; a record that cannot be written leaves the operation open |
| `Rollback`, `SendRollback`, `RecordRollback` | `rollbackIntegration` of both files |
| `Reconcile`, `ReconcileRow`, `ReadHead`, `RepairReceipt` | the tail of `reconcile`, `reconcileRollbacks` |
| `PushEnds`, `Outside`, `Crash`, `Restart`, `AttemptLost` | `git push --force-with-lease`, developers, crashes, an attempt that dies |

A push is a process: it moves the branch if its lease still holds and the branch is nowhere checked
out, reports success if the branch is already where it should be, may be killed at its timeout after
or before it moved anything, and goes on when the server dies.  A push that was reported killed does
not move the branch later.  `advanceJob` and `approveAndIntegrate` are sequences of these calls.
A job has one candidate; which one it is, is `ResultIsOnePassedAttempt` of Dispatcher.

`BranchAuthority` is what an owner is promised about a branch: apart from outsiders, it moves only
to apply the candidate of the one open integration, once per approval and not after it was reported
integrated, or to take an integrated candidate that is the last thing on it off again; an
integration is given up only when its candidate is not on the branch.  `AuthoritySpec` in
`Integration` is the refinement: labels become jobs, the open operation is the holder, spendable
approvals are mandates.

### ManagerLoop

State: `job`, `run`, `turns`, `attempts`, `children` the rows; `plans` and `briefs` the files of a
run, by round and by slot; `intact` whether the branch is where the job was authorized; `my` what
each `manage` process holds in memory, with the phase of `advance` it is in.

| Action | Code |
|---|---|
| `Start`, `EnsureRun`, `LoopStops`, `LoopThinks`, `LoopReviews` | `manage`, `ensureRun`, the head of the loop of `advance`, `plan`, `review` |
| `Ask`, `Intend`, `Call`, `Answers`, `AnswersBadly`, `StaleThread`, `AnswerRefused` | `runTurn`, with `finishTurn` as `FinishTurn` |
| `DecideImplement`, `DecideExplore`, `DecideRevise`, `Replan`, `Accept`, `RefuseAccept` | what `plan`, `synthesize` and `review` do with a decision |
| `EnterImplementing`, `EnterExploring`, `StoreRevisedBrief`, `EnterReviewing` | the write that follows the file, or the file that follows the write |
| `Explore`, `CreateChild`, `LaunchRound`, `RoundUnfunded`, `ChildEnds`, `Synthesize` | `explore`, `readRoundPlan`, `collectReports` |
| `Implement`, `Release`, `ClaimAttempt`, `ClaimThrows`, `WorkerPasses`, `WorkerFails` | `implement`: the brief, the statement that makes the job PENDING whatever it has become, and `runJob` from outside |
| `Halt` | `halt` |
| `ReconcileReads`, `ReconcileTurn` | `ManagerService.reconcile` |
| `CancelJob`, `WorkerLost`, `BranchMoves`, `Crash` | the server's `cancelJob` and `reconcile`, developers, a process that dies |

What the manager decides is any decision `parseManagerDecision` lets through.  A turn's billing is
history: it becomes true when the call is on its way.  A brief is a model value; `Digest` keeps what
`renderBrief` puts into the instruction beside it, the ordinal of a revision.  Threads are data: a
stale one is an outcome of a call.

### WorkProposals

State: `time`, `head`; `jobs`, `proposals`, `decisions` the tables; `project` whether it is retired;
`req` the calls, each suspended at most once, while git resolves the branch; `changes`, history,
counts what the state version is meant to notice.

| Action | Code |
|---|---|
| `ProposeBegins`, `ProposeCommits` | `proposeWork` around its await |
| `AuthorizeBegins`, `AuthorizeCommits` | `authorizeWorkProposal`; its advance becomes the same call's start |
| `Reject` | `rejectWorkProposal`, which awaits nothing |
| `CreateBegins`, `CreateCommits`, `CreateChild` | `createJob` of a root and of an investigation |
| `RunBegins`, `RunClaims`, `AttemptEnds` | `advanceJob` with `assertAuthorizedBaseIntact`, the claim of `runJob`, how it ends |
| `RetireChecks`, `RetireCommits`, `RestoreProject` | `retireProject`, `restoreProject` |
| `ResolveRevision`, `BranchMoves`, `Tick` | git, developers, time |

A goal stands for everything that is asked for; an action digest is the record of what is hashed.

### ControlRequests

State: `up`, `open` the server and its database handle; `intents`, `results` the two tables and
`saved` their copy in the newest backup; `inFlight`; `call` the HTTP calls; `effects`, history, the
work that was done and as what it was bound.

| Action | Code |
|---|---|
| `Mutate`, `MutateClosed` | `mutate` up to its first await: claim, conflict, stored answer, or wait |
| `Effect`, `CommandEnds`, `RecordFails`, `Finish` | `executeClaimed`, with a command that does its work and fails, does nothing and fails, does not know, or ends well; and a receipt that cannot be written |
| `WaitFinds`, `WaitSleeps`, `WaitThrows`, `WaitEnds` | `waitForResult` |
| `TakeBackup`, `RestoreCloses`, `RestoreReplaces`, `RestoreEnds` | a backup and a restore, as the ledger sees them; `Reinstated` is `reinstateIntent` |
| `Crash`, `Restart` | the server |

### Recovery

State: `db` the live database (its heads are what it was told of integrations), `branch`, `backups`,
`marker`, `op` the backup or restore under way; `owed`, history, the repositories that a replaced
database still needs moved.

| Action | Code |
|---|---|
| `BackupCreate`, `ListProjects`, `ReadHead`, `WriteManifest` | `createBackup`: the snapshot, the list, each head, the manifest |
| `BackupRestore`, `Preflight`, `Refuse` | `Dispatcher.restore`, whose safety backup comes first, and `preflightRepositories` |
| `Remove`, `Copy`, `ReadBranch`, `MoveBranch`, `MoveFails`, `Finish` | `restoreBackup` |
| `Throws`, `CopyThrows` | a call of either that throws before the database is removed, or when the other one is copied: `Dispatcher.restore` then opens an empty one |
| `ResolveRestore` | `resolveRestore`, which removes the marker before it writes the event; during another restore the event fails and the marker is gone |
| `Integrate`, `RetireProject`, `Outside`, `Crash`, `Restart` | other handlers, developers, the server |

`runIntegration` is one step here; its inside is Integration.  A copy is whole or not there, and the marker
file can be written; a torn copy is not modelled.

### Supervisor

State: `task`, `instance` (what the Task Scheduler takes for the task's process), `proc`, `pidFile`,
`port`, `op` the operator's command with the step it is at, `report`.

| Action | Code |
|---|---|
| `Trigger`, `Runtime`, `StartFails`, `Killed` | the Task Scheduler, and `supervisor run`: load, record the PID, take the port, serve, end |
| `Command`, `Fails` | a command begins; a `schtasks` call fails |
| `Creates`, `Enables`, `Runs` | `install`, `start` |
| `Disables`, `EndsTask`, `ReadsPid`, `Stopped`, `TimesOut`, `Deletes` | `stopSupervisedRuntime`, `waitForRuntimeExit`, `stop`, `uninstall` |

### SecretStore

State: `format` and `records` of the file, `env` the user's environment, `cmd` the commands.  A
record is the value it was sealed from.

| Action | Code |
|---|---|
| `Provision`, `AddRole`, `Migrate` | a command reads the file and the environment; an add-role that finds the role in the file (kind `present`) goes on to clear it |
| `Seals`, `WritesTemporary`, `Renames`, `Clears`, `Fails` | DPAPI, `writeStore`, the cleanup; a failure or a death at any of them |
| `Supply` | the user sets a credential |

### ManagerTransport

State: the app server and the manager's process, `active` the turn of each thread, `turn` what the
client knows of a turn, `work` what the server knows of it, `wire` the messages under way.

| Action | Code |
|---|---|
| `Ask` | `runTurn`: the door, the request |
| `Read` | `consume`, `route` and the listener: a response, an item, an error, a completion |
| `Timers` | the timer of a request and that of an accepted turn |
| `Serve`, `ServerErrors`, `Exit` | the app server, which is external |

### Migration

State: `results` and `aside` are `cancellation_results` and the table it is rebuilt into, `usage` is
`manager_usage_receipts`, `columns` and `version` the rest of the schema, `proc` the processes, each
at a statement of `openDatabase`.  `recorded` and `priced`, history, are the rows that were written.

| Action | Code |
|---|---|
| `Open` | the next statement of `openDatabase`: `RunsSchema`, `ReadsCheck`, the `Rebuild` script, `ReadsColumns`, `AddsColumn`, `ReadsConstraints`, `RebuildsConstrained`, `Stamps` |
| `RecordsResult`, `RecordsUsage`, `Closes`, `Crashes` | what a process does with the database, and its end |

Two tables stand for the rebuilt ones, because there are two ways of rebuilding: a script whose
statements commit one by one, and a transaction.

### Executors

State: `disabled` the router's memory, `run` the attempt under way with its executor's log and what
the provider was paid, `ledger` the receipts and verdicts of those that are over.

| Action | Code |
|---|---|
| `Select`, `ComposeFails`, `SpawnRefused`, `Spawn` | `BackendRouter.select`, `HarnessBackend.run` and its refusals, `onSpawn` |
| `Executor`, `TimesOut` | the executor, which is external, and the timer of `runProcess` |
| `Judge` | `Parsed` (`parseOpenCodeUsage`, `parseHarnessUsage`), `PreProvider` (`classifyPreProviderFailure`), `Receipt` (`recordAttemptUsage`), `Verdict` (`assessOpenCodeTranscript`, `runJob`) |

### CodexUsage

State: `turns`, each with what it used (history) and its receipt, if it has one.  `Turn` is `finishTurn` with
`observeCodexUsage` on any report the provider can make; a turn that was lost, interrupted or failed by an
error is written without a receipt (`manager/service.js:203`, `:229`, `:313`).  `Components`, `TotalTokens` and
`TotalComplete` are `summarize` of `manager/service.js`, over the receipts that `report` finds (`Receipted`).

### Outcome, JobBriefing, BranchBriefing

`Outcome` is `jobOutcome` with `budgetObstacle`, a pure function of a job and its last attempt.
`JobBriefing` extends Dispatcher with the one record Dispatcher does not need, the BUDGET_EXCEEDED
event, and `BranchBriefing` extends Integration with the lists of `briefing`.

### Commands, Host and the MC modules

`Commands` composes ControlRequests, WorkProposals and Recovery; `Host` composes Supervisor, SecretStore,
ManagerTransport, Migration, Executors and CodexUsage.  The components of one such module share no state, and
a variable `part` says which of them a behaviour exercises, while the others stay in an initial state.  Its
properties are conjunctions of those stated in the modules of the components, for the behaviours of their
parts.  Two instances of one component with different switches (a race and an orderly opening of the database,
say) are two parts over the same variables.  The two modules leave every set and bound open and carry the
assumptions of the components, so that what the runs check of them is what the theorems say of them.

Each MC module gives the constants of one module values; `MCProgress` composes as `Host` does, under the
fairness of section 6.

Operators with the name of a slip (`HeadroomUnspent`, `MayStartBeside`, ...) stand next to the
definition they distort and are used by no action; replacing the definition by one of them makes a
property fail.  A property of several parts has such a slip for most of its parts; `PROJECT.json`
names one for each property.

## 5. Runs

| Run | Instance | Question |
|---|---|---|
| `job` | one write job, 2 attempts, 1 check, ceiling 2, 2 server incarnations, 2 cancels | can a job be wedged or completed twice (`JobAgreesWithAttempts`, `LiveAttemptIsDriven`), brought back after a cancel (`CancelReceiptIsTrue`), given another verdict after its end, or a paper or receipt late unless it was cancelled (`ClosedAttemptIsFinal`), recovered or judged while its child runs (`RecoveryFindsNobody`, `ClosedAttemptHasNoChild`); and is what the operator is told of it what happened (`ToldAsItWas`) |
| `two_jobs` | two jobs, 1 attempt each, 2 incarnations, 1 cancel, `RecoverySpec` | attempts exclude each other (`ExclusiveAttempts`); the inductive invariant holds (`IInv`); every attempt ends (`AttemptsSettle`), and recovery is not refused for good (`RecoveryCompletes`) |
| `family_budget` | a managed root with two investigations, ceiling 2, costs up to 1, a `manage` process and a server, 1 cancel | the ceiling of a family over every order of claims, receipts, cancels and losses, as far as receipts tell what was spent (`CeilingHolds`) |
| `integrate` | one candidate, 2 principals, 2 requests, 2 approvals, a crash, a developer's step, a recovery | records and branch agree (`RecordsAgree`: a verdict is true, a candidate lands once, a decline is final); an approval is spent once (`ApprovalSpentOnce`); implements `BranchAuthority` (`AuthoritySpec`); what the operator is told of the candidate is true of the branch, and a change that is told as done leaves it by a rollback of it or a developer only (`ToldTruly`) |
| `stacked` | two candidates on one branch, 2 requests, 2 approvals, a crash, a recovery | one open operation (`SerialIntegration`); rollback receipts are true (`RollbackReceiptIsTrue`) |
| `managed_run` | one manager, two starts, 2 attempts, 1 round of 1 question, 2 briefs, 3 turns, a cancel, `FairSpec` | wherever a process dies, the row it leaves has what it asks for: a round its questions, an implementation the brief decided last (but that of a REVISE), a review its candidate, and what is offered was reviewed (`Resumable`); a worker is told the last decision (`WorkerIsToldTheDecision`); nothing is paid twice by one process (`PaidOncePerProcess`); a process ends (`ManageEnds`) |
| `manage_twice` | two managers, two starts between them (`StartLimit` counts those of all), recovery of turns, 2 turns, a ceiling | the ceiling on turns (`TurnsWithinCeiling`) and the fence of late answers (`LateAnswerRefused`) |
| `commands` | ControlRequests: 3 calls, 2 ids, 2 bindings, crashes and failing receipts, or a restore among the bindings; WorkProposals: 1 key, 2 goals, 3 calls, 2 jobs, a window of 1 in 2 ticks, 1 movement of the branch; Recovery: 2 repositories, 2 operations, 1 commit, 1 retirement, developers | a request runs once and answers once, unless a restore erases it (`AtMostOnce`), a restore that erases itself says so (`RestoreIsReported`); one decision, one job, as it was proposed (`DecidedAsProposed`) and in time (`AuthorizedInTime`); a restore that stopped half-way is marked (`DividedIsMarked`), loses nothing and moves only what the restored database tracks or its backup lists (`RestoreIsSafe`) |
| `host` | Supervisor: 3 PIDs, 2 kills, any call failing; SecretStore: 4 roles, 2 values, 2 commands, any step failing; ManagerTransport: 3 turns, 2 threads, 3 messages, a server that exits; Migration: 2 processes, racing or one after the other, with a death either way; Executors: 2 attempts, 2 calls, 2 records; CodexUsage: 2 turns, counts up to 1 | one formula for each component, the conjunction of its properties: `TaskIsObeyed`, `CredentialsAreKept`, `AnswersAreTrue`, `DatabaseIsKept`, `ReceiptsAreHonest`, `SplitsAreTrue` |
| `progress` | ControlRequests: 3 calls of one id; Supervisor: 2 kills, slow deaths; ManagerTransport: 2 turns, an app server that exits; Migration: 2 processes that race | a call is answered (`CallsAreAnswered`), an enabled task serves again (`ServesAgain`), a turn ends (`TurnsEnd`), a database opens (`Opens`) |
| `revived_job`, `half_dropped` | minimal | the findings of section 8 |

Why these bounds are enough to be interesting.  Two attempts let a second one start while the
leftovers of the first (a running child, a late event, an open intent) are still there; two
incarnations allow one crash and recovery in the middle of anything.  Two cancels let one start
after another died between its intent and its result.  A ceiling of 2 with costs up to 1, or less in the
log, lets one attempt be granted all of it or a share, and two reach it.  In Integration, two approvals let a
candidate be tried again after a failure or a lost reply, two requests let every pair of calls
overlap (the server serialises nothing), and one crash and one outside step fall anywhere.  Two
candidates on one branch are needed for a rollback that would take later work off.  In ManagerLoop,
three turns reach a review and what follows it, a second start resumes whatever a crash has left, and
two briefs tell the last decision from the one before.  Three calls of two request ids make a first
call, its retry and a stranger; two repositories let one be moved and the other not; a window of one
tick in a run of two lets a proposal expire between any two steps of its authorization.  Three turns
on two threads put two of them on one thread and one beside them; two processes are a race.  In
CodexUsage counts of 0 and 1 make every pair of readings coincide somewhere, which is where the
splits are ambiguous.

Some promises hold only while something does not happen, and the constants say what: a stop tells the truth
while a process that is ended is gone before the stop gives up (`Impatient`), roles are kept while commands do
not overlap (`Concurrent`), prices are kept while the database is opened by one process after the other
(`Together`), a divided restore is marked while the server lives (`Crashing`).  Others carry the condition in
the formula: a failed turn is unpaid unless the app server has exited (`FailedIsUnpaid`), receipts of cancels
can be read unless a process died in the rebuild (`NoReceiptIsDestroyed`; that they are all in one of the two
tables is unconditional), a cleared value is in the store unless add-role found the role there
(`ClearedIsStored`), a ceiling holds of what the receipts price (`CeilingHolds`).  What happens otherwise is in
section 8.  `OfferedWasReviewed` and `WorkerIsToldTheDecision` are checked for one manager at a time, which may
die and be started again: two managers of one job can offer a candidate while the other has returned the run to
review, and nothing in the code claims otherwise.

`IInv` of Dispatcher is checked as an invariant because the proofs of section 7 rest on it.  The other
inductive invariants were checked on the instances above before they were proved; they stand in the modules
of the proofs, and no run repeats them.

`CHECK_DEADLOCK FALSE` throughout: with its jobs finished, its cancels used and its processes
stopped, the system may stop.  An operation with an uncertain outcome also stops integration for
good (section 8).

`OutcomeIsTrue` and `LandsOnce` tolerate one history: the push moved the branch, its reply was
lost, and a developer put the branch back to the expected head before the server looked.  The
operation is then recorded as failed, and nothing in git tells it from one that never moved.

## 6. Fairness

Weak fairness everywhere, of steps that nothing but their own process can hold up.

- Dispatcher, `FairSpec`: of each `runJob` call (a running process goes on), of the closing of a child
  somebody waits for (`runProcess` and `runCommand` kill at a timeout), of `cancelJob`.  Nothing is
  assumed of children whose process died, nor that anything is started.  `RecoverySpec` adds that a
  server is started again, which the scheduled task does, and that an operator keeps asking to
  reconcile; `RecoveryCompletes` allows for a start left unrecorded and for a child left running,
  which reconcile rightly refuses.  A child that is killed is taken to close, though a descendant that
  holds its pipes can delay that (`process.js:216`).
- Integration, `FairSpec`: requests go on, a push ends, the server is restarted, the operator
  reconciles whenever there is an attempt to recover.
- ManagerLoop: each step of a `manage` process that runs.  Its calls end because the transport's
  timers end them (`TurnsEnd`), its workers because attempts settle (`AttemptsSettle`).  A crash is a
  step of its own and never forced.
- ControlRequests: the steps of the server on behalf of a call (`Serve`); that the command itself ends
  is assumed.  Not fair: calls, crashes, restarts.  A crash answers whoever waits, with nothing.
- ManagerTransport: its two timers.  Nothing is assumed of the app server.
- Supervisor: the trigger, which fires every minute, and a runtime that goes on starting or dying.
  Nothing is assumed of commands.  `ServesAgain` holds with kills that are bounded: under a runtime
  that is killed for ever, nothing serves.
- Migration: a process goes on with its statements, and a command that lost a race is given again.

## 7. Proofs

All of it is for every number of jobs, attempts, processes, requests and so on; liveness is not in it.

### Dispatcher

The inductive invariant of `DispatcherProofs`
is `IInv == TypeOK /\ ProcsOK /\ CancelOK /\ \A a : AttemptOK(a)`, checked in `two_jobs`, and `AttemptOK` has
four parts:
an unclaimed row is blank and has no child (`Untouched`); an unfinished call belongs to a live
process and a live attempt to the current generation (`Driven`); what the row says at each stage of
its call (`Tracked`); where row and stage leave room for a running child (`Contained`).  None of the
safety properties is inductive alone: that a verdict is never given over a running child needs that
an executor runs only under an intent in the row, which needs the stage of the call, which needs
that a crash, a cancel or a recovery of another process cannot move them apart.  `NextStep` has one
lemma per group of actions: steps of a `runJob` call (which touch one row, `OtherAttempt` carries
the rest), processes, children, claims, recovery and cancellation.

| Theorem | Says |
|---|---|
| `Invariant`, `TypeCorrect` | `IInv`, and `TypeOK` with it |
| `Drive` | a returned call leaves no live attempt |
| `Verdicts` | no verdict or ORPHANED mark over a live child |
| `Exclusion` | live attempts exclude one another, except investigations of one root |
| `Finality` | `ClosedAttemptIsFinal`: the verdict on a finished attempt is never written again, and papers and receipts come late only under a cancelled one |
| `SafeRecovery` | recovery takes over nothing that has a process |
| `Metering` | a receipt has a price only once its executor is gone, and never prices more than was bought |
| `Ceilings` | `CeilingHolds`: what the receipts of a family price, what closed without one cost, and the authority of whatever may run on, are within its ceiling |
| `Results` | `JobAgreesWithAttempts` |
| `Receipts` | `CancelReceiptIsTrue` |
| `ToldAsItHappened` | `ToldAsItWas`: what `jobOutcome` and `budgetObstacle` say of a direct job |

*The money.*  A ceiling is a bound on a sum, and the sum a fold of the library over
a set of rows.  Induction over the set is out of reach, so `TotalsProofs` goes by a least counterexample
(`LeastSet`): a sum is the share of any one element and the sum of the rest, hence monotone in the
shares and in the set.  `Metered` is what makes the shares move in one direction only: there is no
receipt before the executor has been started, and an executor whose receipt has a price is gone.  So every step but a
claim leaves what each attempt owes as it is or lowers it (`OwedShrinks`, `CeilingStay`), and a claim adds
one grant, which `admitAttempt` takes from what is left of the ceiling (`CeilingClaim`).  That an executor
spends no more than it was granted is the condition of `CeilingHolds`, since nothing in the code enforces it.

The sum takes a priced attempt at `logged`, which is at most its `spend` (`Metered`), and the difference is what
`TrueSpendWithinCeiling` of section 8 is about.

*What comes late.*  `Stands` says of each action what it may write to a row that is over: nothing, or a paper
(`Filed`) if a cancel closed it.  That a cancel did is `Tracked`: a call at the await of its worktree or its
executor has a row that is live, or was cancelled, since recovery takes no attempt whose scheduler runs and
no other verdict is given before those stages.  For the receipt the same follows from `Metered`.

*Statuses.*  `RInv` says of each job which statuses its live and its passed attempts
leave it.  The part that is not obvious: a job that passed its checks can be in NEEDS_ATTENTION, where
a claim is allowed, when `settleBudget` found the ceiling reached.  A second attempt of it is kept out
by the ceiling alone, and stays kept out because what a family has spent never falls (`OverspentOK`,
`Blocked`).

*Receipts.*  `FrameOK` says, for each statement of `cancelJob` of a direct job, what it knows of the job.
It holds because there is one server, which owns the attempts of direct jobs and does nothing else
during the call (`ServerOK`).  A job that is cancelled and idle stays so (`ShutStays`): no claim takes it.

*What is told of a job.*  `jobOutcome` looks at the status and the last attempt only, so what it says is
true of the job if nothing older matters.  `TInv` says so: what is live or has passed is the last attempt
(`Latest`); a cancelled attempt has shut its job (`Cancelled`), since nothing but a cancel that closes the
job cancels an attempt (`NewlyCancelled`); attention is asked for what was tried (`Attended`); a job that
went over its ceiling has passed its checks (`Overspent`); and a verdict on a row is that of a check that
gave it (`VerdictOK`).  With `RInv` and the ceiling, which blocks every further claim once it is reached,
`ToldAsItWas` follows from the text of `jobOutcome` case by case (`ToldTrue`).

### Integration

`LedgerInv`: every step writes the ledger in one of four ways (`LedgerStep`: a grant, an
expiry, a claim, a verdict) or not at all; the types of the two tables and that an
operation names an existing approval are preserved by each together with the two properties.

`BInv` adds the branches.  `History`: whatever is on a branch, or on the head in a proposal, moved that
branch once and is older than the operation that would be applied to it (`Traced`, `OpOK`); of the
operations of a job at most one has not failed; what failed is off the branch, and no push of it runs.
`PushesOK`: a push under way either advances to an open operation that has not landed, or takes off one
that succeeded, and the request that waits for it, if there still is one, is at that await.  `RequestsOK`:
what each request may rely on at each of its awaits.  The hard case is an open operation whose push
moved the branch and lost its reply: nothing may be applied on it, nor may it be given up, before a look
at the branch; `Unsent` and `reflog` say what such a look establishes.

| Theorem | Says |
|---|---|
| `Serial` | one open operation of all projects |
| `SpentOnce` | an approval is spent by one operation, of its own job |
| `BranchInvariant` | `BInv` |
| `Records` | `RecordsAgree`: verdicts are true, a candidate lands once, a decline is final |
| `RollbackReceipts` | `RollbackReceiptIsTrue` |
| `Refines` | `AuthoritySpec`: the refinement of `BranchAuthority` |
| `Briefed` | `ToldTruly`: what `briefing` says of candidates and finished work |

In the refinement, a claim becomes a holder, a push that lands an application or a removal, a verdict
the end of the hold; everything else stutters.  `Briefed` needs two facts beside `BInv`: a job is closed, or
its rollback recorded, only after an integration of it succeeded (`ClosedTruly`), and a change whose rollback
is recorded is off its branch (`TakenBack`), which no push that is still under way undoes.  That nothing but a
rollback or a developer takes off what is told as done is `PushLabels`: a push adds the one candidate of an
open operation, or takes off the one label it was sent for.

### ManagerLoop

`LInv` is `Typed`, what the run row says of attempts and rounds (`RowOK`), and for each process what
its memory has to do with the tables at each of its steps (`MindOK`).  It holds for any number of
processes: an entry of `turns` a process is about to settle is its own (`Own`), although others may
settle it first.  Three properties need more.

- `AcceptedWasEarned` states the part of `OfferedWasReviewed` that holds with several processes: what a
  run accepted is a validated attempt with a commit, which a completed review accepted.
- `PaidOncePerProcess` is proved with `PInv`: no two processes share a life (`Lives`), and a process that
  has paid for the question it is at has moved past the call (`PaidFor`).
- `Resumable` and `WorkerIsToldTheDecision` hold of one process, which may die and be started again any
  number of times.  `Alone` says what that process can rely on when nobody writes beside it: what is
  offered was accepted and nothing is under way (`Offers`); its copy of the row is the row (`Current`);
  the brief it is about to pass on is of the last decision (`Passes`); and so is the one in the file of
  an implementation that is due, or that decision was a REVISE (`Revises`) and the file was not written
  (`Files`).  The exception is real: `revise` moves the row (`manager/service.js:879`) before it writes the
  brief (`:886`), and after a death between them the next process stops for a person with NO_BRIEF.

| Theorem | Says |
|---|---|
| `LoopInvariant`, `LoopTyped` | `LInv`; `TypeOK`, and that an opened round has its questions |
| `TurnCeiling` | `TurnsWithinCeiling`: turns are counted in one statement and inserted in another, and the ordinal keeps one of two that counted the same out |
| `LateAnswers` | `LateAnswerRefused` |
| `AcceptedWasEarned` | what was accepted had passed, and its own review |
| `PaidOnce` | `PaidOncePerProcess` |
| `AloneInvariant` | `Alone`, of one process |
| `Resumed`, `ToldTheDecision` | `Resumable`, `WorkerIsToldTheDecision`, of one process |

### ControlRequests

Without a restore among the commands, `RInv`: a request comes to nothing without an intent; its work has
been done as it was bound or not at all; one call executes it, and has its intent but no receipt; whoever
waits, or was told an outcome, has the binding of the intent.  The first `DoneOnce` follows: a request is
done once, for every number of calls, with crashes and receipts that cannot be written.

A restore takes the two tables back to an earlier state, and with them the intent of a request that has run
since: `OneOwner` in section 8 shows what is lost then.  What stays is `GInv`, whatever is backed up and
restored when: the rows are of their tables, and no receipt is without its intent, also in the backup.  From
it follows `Reported`: while receipts can be written (`Failing = FALSE`), a restore that takes the intent
of its own request away puts it back and is reported as what it was.

| Theorem | Says |
|---|---|
| `RequestsInvariant`, `DoneOnce` | without restores: `RInv`; a request is done once and answered once |
| `TypeCorrect` | `GInv` and `TypeOK`, with any restores |
| `Reported` | `RestoreIsReported`, of one component |

### WorkProposals

`WInv` has a part for each kind of row.  `KeyOK` ties a proposal to its decision and both to the job:
a decision is of a proposal that exists, an authorized one has a job, that job and no other names the
proposal, and its goal and base are those that were proposed.  A decision and its job are written in one
transaction, so no crash comes between them.  `JobOK`: an investigation has the base of its root.  `FrameOK` is
what a call still knows after it awaited git: an authorization holds a proposal that nobody can have changed
or removed since, although others may have decided it; the transaction therefore looks at the decision,
the clock and the state version again, and `InTimeStep` is about those.

| Theorem | Says |
|---|---|
| `WorkInvariant` | `WInv` |
| `ProposalsAreKept` | a key is one action (`KeyIsOneAction`), one decision and one job (`OneDecisionOneJob`), as proposed (`AsProposed`), and a family describes one world (`OneWorld`) |
| `InTime` | `AuthorizedInTime`, of one component |

### Recovery

There is one instance, in which handlers write, projects are retired and taken up, and developers move branches
beside every backup and restore.  `RecoveryInv` says what the operation under way has at each of its phases,
that what a database that was put back still needs is still to be done or has failed (`Accounted`), and that a
restore at work on the branches has put back the database of its backup and has no repository to do that the
manifest does not ask for (`Tracked`).  The manifest may ask for more than the snapshot tracks, see
`OnlyTrackedMoves` in section 8.  `DividedIsMarked` alone is not inductive: between the copy of the database and
the last branch, `owed` has repositories and there is no marker; what saves it is that each of them is in `todo`
or in `failed`, and that `Finish` writes the marker when there is anything in `failed`.  The server does not die
here (`Crashing <- FALSE`); section 8 says what happens when it does.

### What the run `commands` states

`CommandsProofs` carries the results of ControlRequests and WorkProposals to the behaviours of `Commands`.
`part` never changes, and a component does a step of its own specification or none; hence each behaviour is
one of `ControlRequests` or `WorkProposals`, and the theorems of that component apply to the instance.

| Theorem | Says |
|---|---|
| `DoneOnce` | `AtMostOnce` |
| `Reported` | `RestoreIsReported` |
| `Decided` | `DecidedAsProposed` |
| `InTime` | `AuthorizedInTime` |
| `RecoveryInvariant` | `RecoveryInv` |
| `Marked` | `DividedIsMarked` |
| `RestoredSafely` | `RestoreIsSafe`: what is replaced is in a backup, and only branches move of projects that the restored database tracks or its backup lists |

### The host

`HostInv` is the conjunction of one inductive invariant for each component; a step of one component leaves the
others as they are (`SupervisorStays` and the like), so each is proved of its own component alone.

*Supervisor* (`SupervisorInv`).  `Held`: whatever runs under the task is the instance, has its PID in the file
once it may take the port, and a listener that is no longer the instance is the very process whose PID a stop
has read or is about to read.  This is what makes a stop that waits for one PID, read once, a stop of whatever listens.
`Halts` is what each step of `stop` and `uninstall` has achieved.

*SecretStore* (`StoreInv`).  `Prepared`: from the moment a command has read the file, what it will write is complete,
has everything the file has, and has the value of whatever it will clear; for this one command at a time is
needed (`OneCommand`, the switch `Concurrent`).  An add-role that finds its role in the file clears the
environment without comparing (`supervisor.js:424`): a new value set there is gone, and the record of before
stays.  `ClearedIsStored` names that case (`FoundStored`).

*ManagerTransport* (`TransportInv`).  `WireInv` orders what is on the wire for one turn: the acceptance is heard
before anything the turn has produced, nothing follows a refusal or a completion, and each message tells how far
the server has come with the turn.  `Alone`: the turn in play on a thread is the only one there that can still
produce messages, because `activeTurnByThread` is a door; hence a completion, which names a thread and no turn,
is of the turn that hears it.  The server may exit at any moment; what is on the wire then is still read, and a
turn fails that the server may have run, which is why `FailedIsUnpaid` asks that the server is up.

*Migration* (`RaceInv`, `OpeningInv`).  In a race, a new constraint and a new column stay, so what a process has
read about them stays true until it stamps the version (`Ready`), whoever else is at any statement.  In an
orderly opening the rows are in the one table or in the other after every statement (`Rebuilt`), also after a
death at any of them (`Preserved`); a process that opens the database next finds the new
constraint and skips the rebuild, or fails at its first statement, and drops nothing.  Each step of an orderly
opening is one of a race (`OpenedIsRaced`), so the first invariant holds there too.

*Executors* (`ExecutorsInv`).  `LogInv`: a record of a call that has its tokens has what was bought, a Harness log
has one record of each call, and a log with an end has them all.  That no token is counted twice is a
fact about two sums over different sets, records and calls: `TotalMatched` of `TotalsProofs` compares sums along an
injection, which the deduplication of `Counted` provides (`NotOverstated`), and the other way round for a
log that is whole (`BillWhole`): that of a Harness run that is COMPLETE, and of any run that succeeded.

*CodexUsage* (`ReportsInv`).  What a provider reports is the counts under one of the readings; if all readings that
fit agree, the true one is among them, so the split is the true one (`Observes`).  The report adds up what was measured,
of the turns that have a receipt: a subset of what was used, and of totals all that those turns used if none is
missing.

| Theorem | Says |
|---|---|
| `HostInvariant` | `HostInv` |
| `TaskObeyed` | `TaskIsObeyed` |
| `CredentialsKept` | `CredentialsAreKept`, one command at a time |
| `AnswersTrue` | `AnswersAreTrue`, with an app server that may exit |
| `DatabaseSafe` | `DatabaseIsKept`: no receipt is destroyed, whatever dies in turn; that they can be read again is not in it |
| `ReceiptsHonest` | `ReceiptsAreHonest`, for any number of calls and records |
| `SplitsTrue` | `SplitsAreTrue`, for any counts and number of turns, with receipts or without |

### Assumptions

The `ASSUME`s of the modules: in Dispatcher disjoint kinds of jobs and processes, at least
one attempt per job, and a None that is no process and no attempt; in Integration one project for each job,
bounds that are natural numbers, and a None that is no request and no job; in ManagerLoop
bounds that are natural numbers, and a None that is no number, brief, decision, row or set of questions;
in ControlRequests two switches that are Booleans, and a None that is neither a binding nor an outcome; in
WorkProposals bounds that are natural numbers, at least one tick of the clock, and a None that is no key, goal,
decision or answer; in Recovery bounds that are natural numbers, and a None that is no head and no database; in the
components of the host bounds and costs that are natural numbers, PIDs that are not 0, required roles that are roles,
and a None that is no value, turn, thread, outcome, count, table or set of receipts.  Nothing else is assumed: that
SQLite's transactions are atomic and a rename replaces a file at once is in the actions.  The runs evaluate all of
the assumptions.

### Model-checked only

All liveness, which is beyond this prover, as is ENABLED, on which fairness rests: `AttemptsSettle`,
`RecoveryCompletes`, `ManageEnds` and the run `progress` stay with TLC.  `OfferedWasReviewed` and
`WorkerIsToldTheDecision` are proved and checked for one process only.

## 8. Findings

Two runs end in a counterexample.

1. `revived_job`: "Cancelling means 'I do not want this job to continue'" (`service.js:2550`), and of a job
   that was cancelled a test says that "it will not run later" (`test/cancel.test.js:134`).  `halt`
   (`manager/service.js:414`) writes `jobs.status` without looking at it: a cancel that lands while the
   manager is about to stop is overwritten with NEEDS_ATTENTION.
2. `half_dropped`: `db.js:832` calls the rows of `cancellation_results` immutable evidence.  Their
   table is rebuilt by a script whose statements commit one by one: after a crash between DROP TABLE
   and RENAME, SCHEMA makes an empty table and nothing reads the other again (`ReceiptsAreKept`).

The modules state more promises that the code does not keep, under a heading of their own.  Each line
below names the definition, the line that promises, and what happens; "with" gives the constants
under which TLC finds it, the others as in the run of that component (a configuration with this
definition as its only INVARIANT or PROPERTY).

Dispatcher and Integration

- `ClosedOnlyWhenIdle` (`db.js:472`), as in `family_budget`: `cancelJob` reads the family's attempts and
  closes the job in a later statement; a `manage` process starts an investigation in between.
- `TrueSpendWithinCeiling` (`service.js:2358`), as in `family_budget`: a receipt that says COMPLETE of a log that
  stops between two lines prices less than was bought, and `admitAttempt` grants the difference again.
- `DeclinedStaysOff` (`service.js:1952`), one request, no crash: a declined candidate can be approved, or
  integrated with an approval granted before; its job then stays CANCELLED with its change on the branch.
- `LostReceiptIsCompleted` (`db.js:513`), under `FairSpec`: `reconcile` returns before it looks at
  rollbacks unless some attempt needs recovery too.  Until then a change that was taken off is told as done,
  which is what `ToldTruly` leaves out.

ManagerLoop

- `NeverReplayed` (`manager/service.js:101`): nothing calls `ManagerService.reconcile`; a `manage` started
  after a crash asks, and pays for, the same question again.
- `NoTurnOnWreckage` (`:373`): `explore` calls `synthesize` in the same iteration, without the check for a
  cancel that the loop makes.
- `ImplementStartsAtBase` (`manager/evidence.js:341`) with MaxAttempts 3, MaxTurns 5: after a revision, an
  IMPLEMENT starts from the candidate it abandons, since `revision_round` is not reset.
- `NoReroll` (`:773`): `renderBrief` writes the ordinal into the instruction of a revision, so that the
  digest of a repeated brief always differs.
- `BriefCanRun` (`:58`) with MaxAttempts 1, MaxTurns 5: only REVISE is capped; RETHINK and then IMPLEMENT
  buys a brief that `runJob` refuses.
- `TurnFinal` (`:277`) with two managers and Recovering: `reconcile` sets a turn to UNCERTAIN by id, whatever
  was recorded since it was read.

WorkProposals, one goal

- `RetryFindsProposal` (PROP-007): the action digest contains the state version and the head that
  `proposeWork` filled in, so that the same request, sent again after either moved, is refused as another.
- `NothingChanged` (`service.js:256`) with four calls: the state version is the number of jobs and the latest
  `updated_at` in milliseconds; two changes in one millisecond are one.
- `FirstAttemptOnItsBase` (`service.js:355`): the branch moves after git has answered and before the claim.
- `RetiredIsIdle` (`service.js:1358`): nothing asks for `retired_at` when work is started.

ControlRequests, four calls, no crashes

- `UncertainIsTrue` (CTL-REQ-005): `waitForResult` sleeps after its last look at the table; a request that
  finishes in that sleep has a receipt, and its retry is told that it is uncertain.
- `OneOwner` (CTL-REQ-005) with a restore among the bindings: a restore that ends while a slow command runs
  takes its intent away, and a retry of that command is dispatched beside it.

Recovery

- `DividedIsMarked` (`recovery.js:17`) with Crashing: the marker is written after the loop over the
  repositories; a server that dies before that starts again healthy, with the two divided.
- `EmptiedIsMarked` (`recovery.js:17`): `copyFileSync` throws after the database was removed; an empty one is
  opened in its place (`service.js:1916`) and nothing marks it.
- `OnlyTrackedMoves` (`recovery.js:319`): a project that is taken up between the snapshot (`:75`) and the list of
  projects (`:109`) is required by the manifest and retired in the database that comes with it; a restore
  moves its branch.
- `BackupAgrees` (`recovery.js:85`): an integration between the snapshot and the heads is in
  the heads only.
- `BackupHasHeads` (`recovery.js:61`): the safety backup that a failed restore names has no heads.

Around them

- Supervisor, `StopTellsTruth` (SUP-010) with Impatient: the PID is recorded before the port is taken and over
  whatever was recorded; after a stop that timed out, a start records a runtime that fails to listen, and
  the next stop reports success beside the old listener.
- SecretStore, `RolesAreKept` (SUP-012) with Concurrent: two add-role commands; the second writes the records
  of before the first, whose credential has left the environment.
- ManagerTransport, `FailedNeverRan` (`manager/codex-app-server.js:172`): the exit of the app server rejects a
  turn in flight as a plain failure.
- Migration, `Opens` (`db.js:1008`) with MaxCrashes 1: the script that rebuilds the table cannot be run twice.
- Migration, `Protected` (`test/migration-19.test.js:298`): the rebuilds drop the immutability triggers, and the
  process that migrated goes on without them.
- Migration, `CostsAreKept` (`db.js:689`) with Together: a process that decided on a rebuild before another
  migrated copies the old columns, and the prices written since are gone.
- Executors, `CompleteIsWhole` (WRK-007) with MaxLog 3: an OpenCode log that stops between two lines is COMPLETE.
- Executors, `CleanExitIsNotEnough` (`service.js:898`): Harness exits with 0 in mid-turn and has succeeded.
- Executors, `DisabledWillRecur` (`harness/select.js:126`): an attempt that was cancelled as its process started
  disables Harness for all that follow.
- CodexUsage, `TotalCoversEveryTurn` (`test/manager-usage.test.js:123`, "a turn with no total makes the run's total
  incomplete"): a turn that was lost or failed by an error has no receipt; `report` drops it
  (`manager/service.js:1066`) before it sums, and `total_complete` is true with a paid turn missing.
- JobBriefing, `RefusalIsTold` (`service.js:1732`): a ceiling that refuses a claim leaves the job PENDING, and the
  obstacle is looked for in NEEDS_ATTENTION only.
- BranchBriefing, `NothingVanishes` (`service.js:1416`): a candidate declined while it is pushed is on the branch
  and in none of the lists.

Two were found on a composition of ManagerLoop with `Outcome`, which is not kept: a manager that asks a
person before the first attempt is told of as a job that "has not started yet" and asks nothing
(`manager/service.js:406`, `service.js:1626`), and one that stops after an attempt that passed is told
of as one that could not be completed (`service.js:1695`).

Also reachable, without a line of the repository that denies it: an integration whose outcome is
uncertain stays open for ever and blocks all integrations of all projects, since nothing resolves
an operation; a candidate whose branch moved after it was proposed can neither be integrated nor
proposed again; a cancel that finds its family "still settling" leaves the root open.

## 9. Not modelled

- `manager/evidence.js` assembles the text of a pack from rows and git and keeps no state; what
  ManagerLoop takes from it is whether a review was given evidence it could read.  `runtime.js` wraps a
  backend.
- The fence (`fence.js`, `fenced-fs.js`), prompts and the launch of a command are functions of their input.
- The price tables, `repriceReceipts`, `provenance.js` and the usage report compute figures from stored rows
  that no other step reads.
- `mcp/server.js` translates a tool call to one call of the Control API; HTTP, tokens, scopes and argument
  parsing decide whether a modelled operation is called at all.
- Worktrees and snapshots are steps that succeed or fail.
- `briefing` for managed runs, retired projects and lists that are cut; `overview` and its byte limit.
- In ManagerTransport an `error` notification without a thread, which the client gives to every listener; in
  Recovery a copy that is torn, or a marker that cannot be written; in SecretStore a record that cannot be opened.
- PID reuse in Dispatcher, a file-system error between a claim and its `try` block, signals that fail with
  anything but ESRCH, and handles that other processes keep on a replaced database file are hazards no
  property covers.
- `src/experiments` holds records of measurements.

## 10. Running

    tlc -workers 2 -config MCJob.cfg MCJobBriefing.tla
    tlc -workers 2 -config MCTwoJobs.cfg MCDispatcher.tla
    tlc -workers 2 -config MCFamily.cfg MCDispatcher.tla
    tlc -workers 2 -config MCIntegrate.cfg MCBranchBriefing.tla
    tlc -workers 2 -config MCStacked.cfg MCIntegration.tla
    tlc -workers 2 -config MCManaged.cfg MCManagerLoop.tla
    tlc -workers 2 -config MCManagedTwice.cfg MCManagerLoop.tla
    tlc -workers 2 -config MCCommands.cfg MCCommands.tla
    tlc -workers 2 -config MCHost.cfg MCHost.tla
    tlc -workers 2 -config MCProgress.cfg MCProgress.tla
    tlc -workers 2 -config MCRevived.cfg MCManagerLoop.tla
    tlc -workers 2 -config MCHalfDropped.cfg MCMigration.tla
    tlapm TotalsProofs.tla
    tlapm DispatcherProofs.tla
    tlapm IntegrationProofs.tla
    tlapm ManagerLoopProofs.tla
    tlapm ControlRequestsProofs.tla
    tlapm WorkProposalsProofs.tla
    tlapm CommandsProofs.tla
    tlapm HostProofs.tla

Each takes from a second to a few minutes.
