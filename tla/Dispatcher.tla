----------------------------- MODULE Dispatcher -----------------------------
(***************************************************************************)
(* The dispatcher core (service.js): jobs, their attempts, the executor    *)
(* and check processes an attempt starts, operator cancellation, and the   *)
(* crash recovery that closes what a dead scheduler left behind.           *)
(*                                                                         *)
(* Several operating-system processes hold a Dispatcher over one SQLite    *)
(* database: incarnations of the Control API server, which runs direct     *)
(* jobs, cancels and reconciles, and `delegate-wave manage` processes,     *)
(* which run the investigations of managed jobs.  SQLite is called         *)
(* synchronously, so one statement or one transaction is one action; two   *)
(* statements of one handler are two actions, because a step of another    *)
(* process fits between them.                                              *)
(***************************************************************************)
EXTENDS Integers, Totals

CONSTANTS
  DirectJobs,       \* jobs run by the server from their goal
  ManagedJobs,      \* roots whose manager loop commissions investigations
  Explorations,     \* read-only children of managed roots
  WriteJobs,        \* the jobs whose mode is "write"
  Parent,           \* Explorations -> ManagedJobs
  MaxAttempts,      \* jobs.max_attempts
  Checks,           \* length of the validation plan of a write job
  Ceiling,          \* roots -> jobs.maximum_cost, or Unlimited
  Unlimited,
  MaxSpend,         \* bound on what one executor run can cost
  Reports,          \* whether a worker's run leaves a report: BOOLEAN, or less of it
  Servers,          \* incarnations of the Control API server
  Managers,         \* `manage` processes
  None,             \* no process, job or attempt
  MaxCancels        \* bound on cancel requests

Jobs  == DirectJobs \cup ManagedJobs \cup Explorations
Roots == DirectJobs \cup ManagedJobs
Procs == Servers \cup Managers

\* An attempt is named "<job>.<ordinal>".
AttemptIds == UNION {{j} \X (1..MaxAttempts[j]) : j \in Jobs}
JobOf(a)   == a[1]

ASSUME JobsAssumption ==
  /\ DirectJobs \cap ManagedJobs = {}
  /\ Explorations \cap Roots = {}
  /\ WriteJobs \subseteq Roots
  /\ Parent \in [Explorations -> ManagedJobs]
  /\ MaxAttempts \in [Jobs -> Nat \ {0}]
  /\ Checks \in Nat
  /\ Ceiling \in [Roots -> Nat \cup {Unlimited}] /\ Unlimited \notin Nat
  /\ MaxSpend \in Nat /\ Reports \subseteq BOOLEAN /\ MaxCancels \in Nat
ASSUME ProcsAssumption ==
  Servers \cap Managers = {} /\ None \notin Procs
ASSUME NoneAssumption == None \notin AttemptIds

JobStatus  == {"PENDING", "RUNNING", "NEEDS_ATTENTION", "READY_FOR_INTEGRATION",
               "SUCCEEDED", "CANCELLED"}
Terminal   == {"null", "SUCCEEDED", "FAILED", "CANCELLED", "ORPHANED"}
Validation == {"NOT_RUN", "PENDING", "PASSED", "FAILED"}

\* A row of the attempts table.  Intent and process ids are unique to one run
\* of one attempt, so a column is modelled by whether it is set; `intended' is
\* the EXECUTOR_INTENDED event, which is never cleared.  `instruction' and `report'
\* name the papers filed under the attempt (instruction_artifact, result_text_artifact).
AttemptRow ==
  [scheduler : Procs \cup {None}, epoch : Nat, terminal : Terminal,
   validation : Validation, executorIntent : BOOLEAN, executorPid : BOOLEAN,
   validationIntent : BOOLEAN, validationPid : BOOLEAN, intended : BOOLEAN,
   reservation : Nat, instruction : BOOLEAN, report : BOOLEAN]

Stages == {"idle", "claimed", "launching", "spawned", "running", "aborted",
           "metered", "captured", "checking", "checkLaunching", "checkSpawned",
           "checkRunning", "checkOver", "settled", "overspent",
           "failingSetup", "failing", "failingUnrun", "done", "dead"}
\* A child process: killed is not yet gone; the last three have closed.
Executors  == {"none", "running", "dying", "ok", "bad"}
Validators == Executors \cup {"unrun"}

CancelStages == {"idle", "read", "intend", "close", "kill", "mark", "family", "closeRoot", "settle"}
Outcomes     == {"CANCELLED", "CLOSED", "ALREADY_TERMINAL", "NOTHING_RUNNING"}

VARIABLES
  jobs,          \* jobs.status
  made,          \* number of attempt rows of each job
  attempts,      \* the attempt rows
  receipt,       \* attempt_usage_receipts: none, COMPLETE (priced), UNKNOWN
  generation,    \* metadata.scheduler_epoch
  stage,         \* where the runJob call that created an attempt stands
  left,          \* validation commands that call has still to run
  executor,      \* the attempt's executor process
  validator,     \* the attempt's current check process
  spend,         \* what the executor really cost, known once it has closed
  logged,        \* what the log it left prices of that
  alive, fresh,  \* processes running, and those not started yet
  cancel,        \* the cancelJob call in progress
  openIntents,   \* cancellation_intents without a result: <<job, epoch, request>>
  outcomes,      \* cancellation_results: <<job, outcome>>
  cancelsLeft

ledger     == <<jobs, made, attempts, receipt, generation>>
frames     == <<stage, left>>
children   == <<executor, validator, spend, logged>>
processes  == <<alive, fresh>>
cancelling == <<cancel, openIntents, outcomes, cancelsLeft>>
vars == <<jobs, made, attempts, receipt, generation, stage, left, executor,
          validator, spend, logged, alive, fresh, cancel, openIntents, outcomes, cancelsLeft>>
-----------------------------------------------------------------------------
(* Queries over the ledger *)

Exists(a)      == a[2] <= made[JobOf(a)]
Validating(a)  == attempts[a].terminal = "SUCCEEDED" /\ attempts[a].validation = "PENDING"
Live(a)        == Exists(a) /\ (attempts[a].terminal = "null" \/ Validating(a))
LiveAttempts   == {a \in AttemptIds : Live(a)}

RootOf(j)      == IF j \in Explorations THEN Parent[j] ELSE j
Family(j)      == {j} \cup {x \in Explorations : Parent[x] = j}
FamilyAttempts(j) == {a \in AttemptIds : JobOf(a) \in Family(j) /\ Exists(a)}

\* isParallelExploration of both, and one root for both.
Siblings(j, k) == j \in Explorations /\ k \in Explorations /\ RootOf(j) = RootOf(k)
\* Unused by Next: an operator named for a slip (AdmissibleByJob, ClaimableAgain,
\* RetryableOnceMore, AccountedIfReceived, HeadroomUnspent, HeadroomUnshared,
\* AcceptsAnyState, ReturnedIfExhausted, HoldsAnIntent, UncertainExecutor,
\* AbandonedByScheduler, AbandonedUnrecorded) is the definition after it with that slip.
AdmissibleByJob(j) == \A a \in LiveAttempts : JobOf(a) # j
Admissible(j)  == \A a \in LiveAttempts : Siblings(j, JobOf(a))
ClaimableAgain(j) == jobs[j] \in {"PENDING", "NEEDS_ATTENTION", "READY_FOR_INTEGRATION"}
Claimable(j)   == jobs[j] \in {"PENDING", "NEEDS_ATTENTION"}
RetryableOnceMore(j) == made[j] <= MaxAttempts[j]
Retryable(j)   == made[j] < MaxAttempts[j]

Priced(a)      == receipt[a] = "COMPLETE"
Spent(root)    == Total(logged, {a \in FamilyAttempts(root) : Priced(a)})
\* Every attempt that ran left a complete priced receipt.
AccountedIfReceived(root) ==
  \A a \in FamilyAttempts(root) : attempts[a].intended => receipt[a] # "none"
Accounted(root) == \A a \in FamilyAttempts(root) : attempts[a].intended => Priced(a)
Reservation    == [a \in AttemptIds |-> attempts[a].reservation]
Reserved(root) == Total(Reservation, {a \in FamilyAttempts(root) : Live(a)})
HeadroomUnspent(root)  == Ceiling[root] - Reserved(root)
HeadroomUnshared(root) == Ceiling[root] - Spent(root)
Headroom(root) == Ceiling[root] - Spent(root) - Reserved(root)
Exceeded(root) == Ceiling[root] # Unlimited /\ Accounted(root)
                  /\ Spent(root) >= Ceiling[root]

\* The authority assertWithinBudget and admitAttempt let a new attempt claim:
\* an investigation asks for a share of the headroom, other work takes it all.
Grants(j) ==
  LET root == RootOf(j)
  IN  IF Ceiling[root] = Unlimited THEN {0}
      ELSE IF ~Accounted(root) \/ Spent(root) >= Ceiling[root] THEN {}
      ELSE {n \in 1..Headroom(root) : j \in Explorations \/ n = Headroom(root)}

\* acceptAttemptEvent: the caller's epoch, which the row has kept since the
\* claim, is the current one and the row is in the state the caller expects.
AcceptsAnyState(a, terminal, validation) == attempts[a].epoch = generation
Accepts(a, terminal, validation) ==
  /\ attempts[a].epoch = generation
  /\ attempts[a].terminal = terminal
  /\ attempts[a].validation = validation

\* Where a job goes when an attempt of it ends without a candidate.
ReturnedIfExhausted(j) == IF made[j] >= MaxAttempts[j] THEN "NEEDS_ATTENTION" ELSE jobs[j]
Returned(j) == IF made[j] >= MaxAttempts[j] THEN "NEEDS_ATTENTION" ELSE "PENDING"
\* Where it goes when its checks pass inside the budget.
Completed(j) == IF j \in ManagedJobs THEN "RUNNING"
                ELSE IF j \in WriteJobs THEN "READY_FOR_INTEGRATION" ELSE "SUCCEEDED"
Plan(j) == IF j \in WriteJobs THEN Checks ELSE 0
-----------------------------------------------------------------------------
(* Processes.  cancelJob has no await, so its process does nothing else     *)
(* while a call of it is under way.                                         *)

CanStep(p) == p \in alive /\ cancel.by # p
Drives(p, j) == IF j \in DirectJobs THEN p \in Servers ELSE p \in Managers

\* The Control API server owns one port: a second one cannot listen.
StartProcess(p) ==
  /\ p \in fresh
  /\ p \in Servers => alive \cap Servers = {}
  /\ fresh' = fresh \ {p} /\ alive' = alive \cup {p}
  /\ UNCHANGED <<ledger, frames, children, cancelling>>

NoCancel ==
  [stage |-> "idle", by |-> None, job |-> None, status |-> "PENDING", epoch |-> 0,
   subject |-> None, current |-> None, todo |-> {}, pids |-> {}, checking |-> {},
   outcome |-> "CANCELLED"]

\* A crash, a kill or a shutdown: the calls of the process are gone, the
\* children it spawned are not.
Crash(p) ==
  /\ p \in alive
  /\ alive' = alive \ {p}
  /\ stage' = [a \in AttemptIds |->
                 IF attempts[a].scheduler = p /\ stage[a] # "done" THEN "dead" ELSE stage[a]]
  /\ cancel' = IF cancel.by = p THEN NoCancel ELSE cancel
  /\ UNCHANGED <<ledger, left, children, fresh, openIntents, outcomes, cancelsLeft>>

\* Children close on their own, at their timeout or after a kill.  The log of an
\* executor may stop short of what it bought: between two lines it does not show.
Close(child, a, results) ==
  \/ child[a] = "running" /\ child' = [child EXCEPT ![a] = results]
  \/ child[a] = "dying"   /\ child' = [child EXCEPT ![a] = "bad"]

ExecutorCloses(a) ==
  /\ \E how \in {"ok", "bad"} : Close(executor, a, how)
  /\ \E cost \in 0..MaxSpend : \E told \in 0..cost :
       spend' = [spend EXCEPT ![a] = cost] /\ logged' = [logged EXCEPT ![a] = told]
  /\ UNCHANGED <<ledger, frames, validator, processes, cancelling>>

ValidatorCloses(a) ==
  /\ \E how \in {"ok", "bad"} : Close(validator, a, how)
  /\ UNCHANGED <<ledger, frames, executor, spend, logged, processes, cancelling>>
-----------------------------------------------------------------------------
(* runJob, one action per statement or transaction between awaits *)

At(a, s)   == stage[a] = s /\ CanStep(attempts[a].scheduler)
Goto(a, s) == stage' = [stage EXCEPT ![a] = s]
Write(a, row) == attempts' = [attempts EXCEPT ![a] = row]

\* The claim transaction.  A refusal throws before anything is written, and so
\* does the check of the authorized base that precedes it.
Claim(p, j) ==
  /\ CanStep(p) /\ Drives(p, j)
  /\ Claimable(j) /\ Admissible(j) /\ Retryable(j)
  /\ \E grant \in Grants(j) : LET a == <<j, made[j] + 1>> IN
       /\ Write(a, [attempts[a] EXCEPT !.scheduler = p, !.epoch = generation,
                                       !.reservation = grant])
       /\ Goto(a, "claimed")
       /\ left' = [left EXCEPT ![a] = Plan(j)]
  /\ made' = [made EXCEPT ![j] = @ + 1]
  /\ jobs' = [jobs EXCEPT ![j] = "RUNNING"]
  /\ UNCHANGED <<receipt, generation, children, processes, cancelling>>

\* Every later step of one runJob call.
Step(a) == UNCHANGED <<made, generation, processes, cancelling>>
Quiet   == UNCHANGED <<jobs, attempts, receipt>>

\* The worktree could not be created: no intent was formed.
WorktreeFails(a) ==
  /\ At(a, "claimed") /\ Goto(a, "failingSetup")
  /\ Step(a) /\ Quiet /\ UNCHANGED <<left, children>>

\* The instruction is filed first, without the fence: a cancel may have closed the
\* row while the worktree was awaited.  No statement reads the papers, so that one
\* filed in the same tick as the write beside it needs no step of its own.
IntendExecutor(a) ==
  /\ At(a, "claimed")
  /\ \/ /\ Accepts(a, "null", "NOT_RUN")
        /\ Write(a, [attempts[a] EXCEPT !.instruction = TRUE, !.executorIntent = TRUE,
                                        !.executorPid = FALSE, !.intended = TRUE])
        /\ Goto(a, "launching")
     \/ /\ ~Accepts(a, "null", "NOT_RUN")
        /\ Write(a, [attempts[a] EXCEPT !.instruction = TRUE])
        /\ Goto(a, "failing")
  /\ Step(a) /\ UNCHANGED <<jobs, receipt, left, children>>

SpawnExecutor(a) ==
  /\ At(a, "launching")
  /\ \/ executor' = [executor EXCEPT ![a] = "running"] /\ Goto(a, "spawned")
     \/ UNCHANGED executor /\ Goto(a, "aborted")
  /\ Step(a) /\ Quiet /\ UNCHANGED <<left, validator, spend, logged>>

Kill(child, a) ==
  child' = [child EXCEPT ![a] = IF @ = "running" THEN "dying" ELSE @]

\* onSpawn: a refused record kills the child and rejects the run.
RecordExecutorPid(a) ==
  /\ At(a, "spawned")
  /\ LET accepted == Accepts(a, "null", "NOT_RUN") /\ attempts[a].executorIntent IN
     \/ /\ accepted
        /\ Write(a, [attempts[a] EXCEPT !.executorPid = TRUE])
        /\ Goto(a, "running") /\ UNCHANGED executor
     \/ /\ ~accepted
        /\ Kill(executor, a)
        /\ Goto(a, "aborted") /\ UNCHANGED attempts
  /\ Step(a) /\ UNCHANGED <<jobs, receipt, left, validator, spend, logged>>

\* Usage is written whatever the outcome, once, and without the fence.  A receipt is
\* COMPLETE only of a process that is gone, and then it prices what the log says.
\* What the worker says it did is filed beside it, if its run says anything.
RecordUsage(a) ==
  /\ \/ At(a, "aborted") /\ Goto(a, "failing") /\ UNCHANGED attempts
     \/ /\ At(a, "running") /\ executor[a] \in {"ok", "bad"} /\ Goto(a, "metered")
        /\ \E said \in Reports :
             attempts' = IF said THEN [attempts EXCEPT ![a].report = TRUE] ELSE attempts
  /\ \E r \in {"COMPLETE", "UNKNOWN"} :
       /\ r = "COMPLETE" => executor[a] \in {"none", "ok", "bad"}
       /\ receipt' = [receipt EXCEPT ![a] = r]
  /\ Step(a) /\ UNCHANGED <<jobs, left, children>>

\* Cancellation, the exit code and the executor's own account of its turn, then
\* the snapshot and the rules on what it may contain.
JudgeExecutor(a) ==
  /\ At(a, "metered")
  /\ \/ /\ \A i \in openIntents : ~(i[1] = JobOf(a) /\ i[2] = attempts[a].epoch)
        /\ executor[a] = "ok"
        /\ Goto(a, "captured")
     \/ Goto(a, "failing")
  /\ Step(a) /\ Quiet /\ UNCHANGED <<left, children>>

ExecutorSucceeded(a) ==
  /\ At(a, "captured")
  /\ LET accepted == Accepts(a, "null", "NOT_RUN") /\ attempts[a].executorIntent IN
     \/ /\ accepted
        /\ Write(a, [attempts[a] EXCEPT !.terminal = "SUCCEEDED", !.validation = "PENDING",
                                        !.executorIntent = FALSE, !.executorPid = FALSE])
        /\ Goto(a, "checking")
     \/ ~accepted /\ UNCHANGED attempts /\ Goto(a, "failing")
  /\ Step(a) /\ UNCHANGED <<jobs, receipt, left, children>>
-----------------------------------------------------------------------------
(* validate, once per command of the plan *)

IntendCheck(a) ==
  /\ At(a, "checking") /\ left[a] > 0
  /\ \/ /\ Accepts(a, "SUCCEEDED", "PENDING")
        /\ Write(a, [attempts[a] EXCEPT !.validationIntent = TRUE, !.validationPid = FALSE])
        /\ Goto(a, "checkLaunching")
     \/ /\ ~Accepts(a, "SUCCEEDED", "PENDING")
        /\ UNCHANGED attempts /\ Goto(a, "failing")
  /\ Step(a) /\ UNCHANGED <<jobs, receipt, left, children>>

\* A command that cannot be started is not a command that failed.
SpawnCheck(a) ==
  /\ At(a, "checkLaunching")
  /\ \/ validator' = [validator EXCEPT ![a] = "running"] /\ Goto(a, "checkSpawned")
     \/ validator' = [validator EXCEPT ![a] = "unrun"] /\ Goto(a, "checkOver")
  /\ Step(a) /\ Quiet /\ UNCHANGED <<left, executor, spend, logged>>

\* runCommand turns a refused onSpawn into "could not be started".
RecordValidationPid(a) ==
  /\ At(a, "checkSpawned")
  /\ LET accepted == Accepts(a, "SUCCEEDED", "PENDING") /\ attempts[a].validationIntent IN
     \/ /\ accepted
        /\ Write(a, [attempts[a] EXCEPT !.validationPid = TRUE])
        /\ Goto(a, "checkRunning") /\ UNCHANGED validator
     \/ /\ ~accepted
        /\ Kill(validator, a)
        /\ Goto(a, "checkOver") /\ UNCHANGED attempts
  /\ Step(a) /\ UNCHANGED <<jobs, receipt, left, executor, spend, logged>>

RecordCheck(a) ==
  /\ \/ At(a, "checkOver")
     \/ At(a, "checkRunning") /\ validator[a] \in {"ok", "bad"}
  /\ LET accepted == Accepts(a, "SUCCEEDED", "PENDING") /\ attempts[a].validationIntent
         \* a check that never ran, one that failed, one that passed
         next == IF stage[a] = "checkOver" THEN "failingUnrun"
                 ELSE IF validator[a] = "bad" THEN "failing" ELSE "checking"
     IN
     \/ /\ accepted
        /\ Write(a, [attempts[a] EXCEPT !.validationIntent = FALSE, !.validationPid = FALSE])
        /\ left' = [left EXCEPT ![a] = @ - 1]
        /\ Goto(a, next)
     \/ ~accepted /\ UNCHANGED <<attempts, left>> /\ Goto(a, "failing")
  /\ Step(a) /\ UNCHANGED <<jobs, receipt, children>>

\* settleBudget reads the family's spend before the transaction that uses it.
SettleBudget(a) ==
  /\ At(a, "checking") /\ left[a] = 0
  /\ Goto(a, IF Exceeded(RootOf(JobOf(a))) THEN "overspent" ELSE "settled")
  /\ Step(a) /\ Quiet /\ UNCHANGED <<left, children>>

PassValidation(a) ==
  /\ At(a, "settled") \/ At(a, "overspent")
  /\ \/ /\ Accepts(a, "SUCCEEDED", "PENDING")
        /\ Write(a, [attempts[a] EXCEPT !.validation = "PASSED"])
        /\ jobs' = [jobs EXCEPT ![JobOf(a)] =
                      IF stage[a] = "overspent" THEN "NEEDS_ATTENTION" ELSE Completed(JobOf(a))]
        /\ Goto(a, "done")
     \/ /\ ~Accepts(a, "SUCCEEDED", "PENDING")
        /\ UNCHANGED <<jobs, attempts>> /\ Goto(a, "failing")
  /\ Step(a) /\ UNCHANGED <<receipt, left, children>>

\* failAttempt is given the executor intent the call formed, null if none was.
HoldsAnIntent(a) == attempts[a].executorIntent
HoldsIntent(a)   == attempts[a].executorIntent = (stage[a] # "failingSetup")

\* The job's own status is not consulted.
FailAttempt(a) ==
  /\ At(a, "failingSetup") \/ At(a, "failing") \/ At(a, "failingUnrun")
  /\ Goto(a, "done")
  /\ LET executing == attempts[a].terminal = "null" /\ HoldsIntent(a) IN
     \/ /\ attempts[a].epoch = generation /\ executing
        /\ Write(a, [attempts[a] EXCEPT !.terminal = "FAILED",
                                        !.executorIntent = FALSE, !.executorPid = FALSE])
        /\ jobs' = [jobs EXCEPT ![JobOf(a)] = Returned(JobOf(a))]
     \/ /\ attempts[a].epoch = generation /\ Validating(a)
        /\ Write(a, [attempts[a] EXCEPT !.validation =
                        IF stage[a] = "failingUnrun" THEN "NOT_RUN" ELSE "FAILED"])
        /\ jobs' = [jobs EXCEPT ![JobOf(a)] = Returned(JobOf(a))]
     \/ /\ attempts[a].epoch # generation \/ ~(executing \/ Validating(a))
        /\ UNCHANGED <<jobs, attempts>>
  /\ Step(a) /\ UNCHANGED <<receipt, left, children>>

RunJob(a) ==
  \/ WorktreeFails(a) \/ IntendExecutor(a) \/ SpawnExecutor(a) \/ RecordExecutorPid(a)
  \/ RecordUsage(a) \/ JudgeExecutor(a) \/ ExecutorSucceeded(a)
  \/ IntendCheck(a) \/ SpawnCheck(a) \/ RecordValidationPid(a) \/ RecordCheck(a)
  \/ SettleBudget(a) \/ PassValidation(a) \/ FailAttempt(a)
-----------------------------------------------------------------------------
(* cancelJob *)

CancelAt(p, s) == cancel.by = p /\ p \in alive /\ cancel.stage = s
CancelGoto(s)  == cancel' = [cancel EXCEPT !.stage = s]
Intent         == <<cancel.job, cancel.epoch, cancelsLeft>>

\* The status read here decides the case where nothing turns out to be running.
CancelReads(p, j) ==
  /\ p \in Servers /\ CanStep(p) /\ cancel.stage = "idle" /\ cancelsLeft > 0
  /\ cancel' = [NoCancel EXCEPT !.stage = "read", !.by = p, !.job = j, !.status = jobs[j]]
  /\ cancelsLeft' = cancelsLeft - 1
  /\ UNCHANGED <<ledger, frames, children, processes, openIntents, outcomes>>

CancelStep == UNCHANGED <<made, receipt, generation, frames, spend, logged, processes, cancelsLeft>>

\* What the call goes by from here on: the generation and the family's live
\* attempts, with the process ids then on record.
CancelReadsFamily(p) ==
  /\ CancelAt(p, "read")
  /\ LET live == {a \in FamilyAttempts(cancel.job) : Live(a)}
         own  == {a \in live : JobOf(a) = cancel.job}
         checking == {a \in live : Validating(a)}
         pids == {a \in live : IF a \in checking THEN attempts[a].validationPid
                                                 ELSE attempts[a].executorPid}
     IN  \E subject \in IF live = {} THEN {None} ELSE IF own = {} THEN live ELSE own :
           cancel' = [cancel EXCEPT !.stage = "intend", !.epoch = generation,
                        !.subject = subject, !.current = subject, !.todo = live \ {subject},
                        !.pids = pids, !.checking = checking]
  /\ CancelStep /\ UNCHANGED <<jobs, attempts, executor, validator, openIntents, outcomes>>

RecordIntent(p) ==
  /\ CancelAt(p, "intend")
  /\ openIntents' = openIntents \cup {Intent}
  /\ CancelGoto(IF cancel.subject = None THEN "close" ELSE "kill")
  /\ CancelStep /\ UNCHANGED <<jobs, attempts, executor, validator, outcomes>>

\* Nothing was running: close an open job by the status read at the start.
CloseIdleJob(p) ==
  /\ CancelAt(p, "close")
  /\ \/ /\ cancel.status \in {"SUCCEEDED", "CANCELLED", "READY_FOR_INTEGRATION"}
        /\ cancel' = [cancel EXCEPT !.stage = "settle", !.outcome = "ALREADY_TERMINAL"]
        /\ UNCHANGED jobs
     \/ /\ cancel.status \in {"PENDING", "NEEDS_ATTENTION"}
        /\ cancel' = [cancel EXCEPT !.stage = "settle", !.outcome = "CLOSED"]
        /\ jobs' = [jobs EXCEPT ![cancel.job] = "CANCELLED"]
     \/ /\ cancel.status = "RUNNING"
        /\ cancel' = [cancel EXCEPT !.stage = "settle", !.outcome = "NOTHING_RUNNING"]
        /\ UNCHANGED jobs
  /\ CancelStep /\ UNCHANGED <<attempts, executor, validator, openIntents, outcomes>>

\* Only a process id that was on record when the call read the row is killed.
KillChild(p) ==
  /\ CancelAt(p, "kill")
  /\ LET a == cancel.current IN
     IF a \notin cancel.pids THEN UNCHANGED <<executor, validator>>
     ELSE IF a \in cancel.checking THEN Kill(validator, a) /\ UNCHANGED executor
     ELSE Kill(executor, a) /\ UNCHANGED validator
  /\ CancelGoto("mark")
  /\ CancelStep /\ UNCHANGED <<jobs, attempts, openIntents, outcomes>>

\* The fenced transaction that ends one attempt, cancelFamilyAttempt's too.
MarkCancelled(p) ==
  /\ CancelAt(p, "mark")
  /\ LET a == cancel.current
         own == a = cancel.subject
         applies == /\ attempts[a].epoch = cancel.epoch
                    /\ own => generation = cancel.epoch
                    /\ attempts[a].terminal = "null" \/ Validating(a)
         next == [cancel EXCEPT !.outcome = IF own /\ ~applies THEN "ALREADY_TERMINAL" ELSE @]
     IN
     /\ \/ /\ applies /\ Validating(a)
           /\ Write(a, [attempts[a] EXCEPT !.validation = "NOT_RUN",
                                           !.validationIntent = FALSE, !.validationPid = FALSE])
           /\ jobs' = [jobs EXCEPT ![JobOf(a)] = "CANCELLED"]
        \/ /\ applies /\ ~Validating(a)
           /\ Write(a, [attempts[a] EXCEPT !.terminal = "CANCELLED",
                                           !.executorIntent = FALSE, !.executorPid = FALSE])
           /\ jobs' = [jobs EXCEPT ![JobOf(a)] = "CANCELLED"]
        \/ ~applies /\ UNCHANGED <<attempts, jobs>>
     /\ \/ /\ cancel.todo = {}
           /\ cancel' = [next EXCEPT !.stage = "family"]
        \/ \E b \in cancel.todo :
             cancel' = [next EXCEPT !.stage = "kill", !.current = b, !.todo = @ \ {b}]
  /\ CancelStep /\ UNCHANGED <<executor, validator, openIntents, outcomes>>

\* familyHasLiveAttempt
CheckFamily(p) ==
  /\ CancelAt(p, "family")
  /\ \/ /\ \E a \in FamilyAttempts(cancel.job) : Live(a)
        /\ cancel' = [cancel EXCEPT !.stage = "settle", !.outcome = "CANCELLED"]
     \/ /\ \A a \in FamilyAttempts(cancel.job) : ~Live(a)
        /\ CancelGoto("closeRoot")
  /\ CancelStep /\ UNCHANGED <<jobs, attempts, executor, validator, openIntents, outcomes>>

CloseRoot(p) ==
  /\ CancelAt(p, "closeRoot")
  /\ jobs' = [jobs EXCEPT ![cancel.job] =
                IF @ \in {"SUCCEEDED", "READY_FOR_INTEGRATION"} THEN @ ELSE "CANCELLED"]
  /\ CancelGoto("settle")
  /\ CancelStep /\ UNCHANGED <<attempts, executor, validator, openIntents, outcomes>>

SettleCancel(p) ==
  /\ CancelAt(p, "settle")
  /\ openIntents' = openIntents \ {Intent}
  /\ outcomes' = outcomes \cup {<<cancel.job, cancel.outcome>>}
  /\ cancel' = NoCancel
  /\ CancelStep /\ UNCHANGED <<jobs, attempts, executor, validator>>

CancelJob(p) ==
  \/ CancelReadsFamily(p) \/ RecordIntent(p) \/ CloseIdleJob(p) \/ KillChild(p) \/ MarkCancelled(p)
  \/ CheckFamily(p) \/ CloseRoot(p) \/ SettleCancel(p)
-----------------------------------------------------------------------------
(* reconcile({apply}): the rechecks and the writes are one transaction, so   *)
(* the observations before it decide nothing.  Its last call, which completes *)
(* rollback receipts, touches integration records only.                       *)

Gone(child, recorded) == recorded => child \notin {"running", "dying"}
UncertainExecutor(a) == attempts[a].executorIntent /\ ~attempts[a].executorPid
Uncertain(a) == \/ attempts[a].executorIntent /\ ~attempts[a].executorPid
                \/ attempts[a].validationIntent /\ ~attempts[a].validationPid
AbandonedByScheduler(a) == attempts[a].scheduler \notin alive
AbandonedUnrecorded(a)  == /\ attempts[a].scheduler \notin alive
                           /\ ~attempts[a].executorPid /\ ~attempts[a].validationPid
Abandoned(a) == /\ attempts[a].scheduler \notin alive
                /\ Gone(executor[a], attempts[a].executorPid)
                /\ Gone(validator[a], attempts[a].validationPid)

Reconcile(p) ==
  /\ p \in Servers /\ CanStep(p)
  /\ LiveAttempts # {}
  /\ \A a \in LiveAttempts : Abandoned(a) /\ ~Uncertain(a)
  /\ generation' = generation + 1
  /\ attempts' = [a \in AttemptIds |->
       IF ~Live(a) THEN attempts[a]
       ELSE IF Validating(a) THEN [attempts[a] EXCEPT !.validation = "NOT_RUN"]
       ELSE [attempts[a] EXCEPT !.terminal = "ORPHANED"]]
  /\ jobs' = [j \in Jobs |-> IF \E a \in LiveAttempts : JobOf(a) = j THEN Returned(j) ELSE jobs[j]]
  /\ UNCHANGED <<made, receipt, frames, children, processes, cancelling>>
-----------------------------------------------------------------------------
Blank == [scheduler |-> None, epoch |-> 0, terminal |-> "null", validation |-> "NOT_RUN",
          executorIntent |-> FALSE, executorPid |-> FALSE, validationIntent |-> FALSE,
          validationPid |-> FALSE, intended |-> FALSE, reservation |-> 0,
          instruction |-> FALSE, report |-> FALSE]

Init ==
  /\ jobs = [j \in Jobs |-> "PENDING"]
  /\ made = [j \in Jobs |-> 0]
  /\ attempts = [a \in AttemptIds |-> Blank]
  /\ receipt = [a \in AttemptIds |-> "none"]
  /\ generation = 0
  /\ stage = [a \in AttemptIds |-> "idle"] /\ left = [a \in AttemptIds |-> 0]
  /\ executor = [a \in AttemptIds |-> "none"] /\ validator = [a \in AttemptIds |-> "none"]
  /\ spend = [a \in AttemptIds |-> 0] /\ logged = [a \in AttemptIds |-> 0]
  /\ alive = {} /\ fresh = Procs
  /\ cancel = NoCancel /\ openIntents = {} /\ outcomes = {} /\ cancelsLeft = MaxCancels

\* A managed root is claimed by its manager's loop, which is not part of this
\* module; here it stays the open parent of its investigations.
Next ==
  \/ \E p \in Procs : StartProcess(p) \/ Crash(p)
  \/ \E p \in Procs, j \in DirectJobs \cup Explorations : Claim(p, j)
  \/ \E a \in AttemptIds : RunJob(a) \/ ExecutorCloses(a) \/ ValidatorCloses(a)
  \/ \E p \in Servers, j \in Jobs : CancelReads(p, j)
  \/ \E p \in Servers : CancelJob(p) \/ Reconcile(p)

Spec == Init /\ [][Next]_vars

\* Fairness: a running process keeps running its calls; a child it waits for
\* closes, at its timeout if not before; a killed child closes.
Waited(a) == attempts[a].scheduler \in alive
FairSpec ==
  /\ Spec
  /\ \A a \in AttemptIds : /\ WF_vars(RunJob(a))
                           /\ WF_vars(ExecutorCloses(a) /\ Waited(a))
                           /\ WF_vars(ValidatorCloses(a) /\ Waited(a))
  /\ \A p \in Servers : WF_vars(CancelJob(p))

\* The scheduled task starts the server again; the operator asks to reconcile.
RecoverySpec ==
  FairSpec /\ \A p \in Servers : WF_vars(StartProcess(p)) /\ WF_vars(Reconcile(p))
-----------------------------------------------------------------------------
(* What the dispatcher promises *)

CancelFrame ==
  [stage : CancelStages, by : Servers \cup {None}, job : Jobs \cup {None}, status : JobStatus,
   epoch : Nat, subject : AttemptIds \cup {None}, current : AttemptIds \cup {None},
   todo : SUBSET AttemptIds, pids : SUBSET AttemptIds, checking : SUBSET AttemptIds,
   outcome : Outcomes]

TypeOK ==
  /\ jobs \in [Jobs -> JobStatus]
  /\ made \in [Jobs -> Nat] /\ \A j \in Jobs : made[j] <= MaxAttempts[j]
  /\ attempts \in [AttemptIds -> AttemptRow]
  /\ receipt \in [AttemptIds -> {"none", "COMPLETE", "UNKNOWN"}]
  /\ generation \in Nat
  /\ stage \in [AttemptIds -> Stages] /\ left \in [AttemptIds -> Nat]
  /\ executor \in [AttemptIds -> Executors] /\ validator \in [AttemptIds -> Validators]
  /\ spend \in [AttemptIds -> Nat] /\ logged \in [AttemptIds -> Nat]
  /\ alive \subseteq Procs /\ fresh \subseteq Procs
  /\ cancel \in CancelFrame
  /\ openIntents \subseteq Jobs \X Nat \X Nat
  /\ outcomes \subseteq Jobs \X Outcomes
  /\ cancelsLeft \in Nat

\* Attempts run one at a time, except investigations of one root: whatever
\* crashes, cancels and retries came before (assertAdmissible).
ExclusiveAttempts ==
  \A a, b \in LiveAttempts : a = b \/ Siblings(JobOf(a), JobOf(b))

\* A job is never wedged: RUNNING means an attempt of it is live, so that
\* either its runJob call or recovery will return it.
RunningJobHasWorker ==
  \A j \in DirectJobs \cup Explorations :
    jobs[j] = "RUNNING" => \E a \in LiveAttempts : JobOf(a) = j

\* A runJob call never returns and leaves its attempt live: while the owning
\* process runs, which recovery respects, somebody is still working on it.
LiveAttemptIsDriven ==
  \A a \in LiveAttempts :
    attempts[a].scheduler \in alive => stage[a] \notin {"idle", "done", "dead"}

\* Only a cancelled attempt can leave its executor running, and only one whose
\* checks were interrupted can leave a check running: a verdict or an ORPHANED
\* mark is never given over the head of a live process.
ClosedAttemptHasNoChild ==
  \A a \in AttemptIds :
    /\ attempts[a].terminal \in {"SUCCEEDED", "FAILED", "ORPHANED"}
         => executor[a] \notin {"running", "dying"}
    /\ attempts[a].validation \in {"PASSED", "FAILED"}
         => validator[a] \notin {"running", "dying"}

\* A job that reports a result has an attempt that passed its checks, and never
\* two, so that soleCandidate names one commit.
ResultIsOnePassedAttempt ==
  \A j \in DirectJobs \cup Explorations :
    /\ jobs[j] \in {"READY_FOR_INTEGRATION", "SUCCEEDED"}
         => \E a \in AttemptIds : JobOf(a) = j /\ attempts[a].validation = "PASSED"
    /\ \A a, b \in AttemptIds :
         JobOf(a) = j /\ JobOf(b) = j /\ attempts[a].validation = "PASSED"
           /\ attempts[b].validation = "PASSED" => a = b

\* What runJob, cancelJob and reconcile make of a job agrees with what they made of its
\* attempts, whichever of them wrote last.
JobAgreesWithAttempts == RunningJobHasWorker /\ ResultIsOnePassedAttempt

\* The receipt of a cancel of a direct job is the truth from then on: nothing
\* that was under way brings a job closed or cancelled by the operator back.
CancelReceiptIsTrue ==
  \A j \in DirectJobs :
    <<j, "CLOSED">> \in outcomes \/ <<j, "CANCELLED">> \in outcomes => jobs[j] = "CANCELLED"

\* What a family is known to have spent and may still spend: what its receipts price,
\* the cost of what closed without one, and for whatever may run on its authority.
Owed == [a \in AttemptIds |->
          IF Priced(a) THEN logged[a]
          ELSE IF executor[a] \in {"ok", "bad"} THEN spend[a]
          ELSE IF attempts[a].intended \/ Live(a) THEN attempts[a].reservation ELSE 0]

\* A ceiling holds for a family whatever starts, fails, is cancelled or is lost
\* in whatever order, unless some executor spent more than it was granted, and as
\* far as the receipts tell (TrueSpendWithinCeiling is about what they leave out).
SpendWithinCeiling ==
  \A root \in Roots :
    /\ Ceiling[root] # Unlimited
    /\ \A a \in FamilyAttempts(root) : spend[a] <= attempts[a].reservation
    => Total(Owed, FamilyAttempts(root)) <= Ceiling[root]

\* The authority held by live attempts never exceeds the ceiling, however many
\* investigations ask for a share of it at once (admitAttempt).
ReservedWithinCeiling ==
  \A root \in Roots : Ceiling[root] # Unlimited => Reserved(root) <= Ceiling[root]

\* A ceiling bounds both what a family may still spend and what it is known to have
\* spent without breaking its grants (admitAttempt, settleBudget).
CeilingHolds == SpendWithinCeiling /\ ReservedWithinCeiling

\* A row without the papers filed under it.
Verdict(row) == [row EXCEPT !.instruction = FALSE, !.report = FALSE]

\* The verdict on an attempt is never written again: a late executor, check or cancel
\* of an earlier life finds its event refused (acceptAttemptEvent).  What is filed
\* without the fence, the two papers and the usage receipt, comes late only under an
\* attempt that was cancelled, never under one that recovery, a verdict or its checks
\* closed; and whatever was filed stays (runJob, recordAttemptUsage).
ClosedAttemptIsFinal ==
  [][\A a \in AttemptIds : Exists(a) /\ ~Live(a) =>
       /\ Verdict(attempts'[a]) = Verdict(attempts[a])
       /\ attempts[a].instruction => attempts'[a].instruction
       /\ attempts[a].report => attempts'[a].report
       /\ receipt[a] # "none" => receipt'[a] = receipt[a]
       /\ Priced(a) => logged'[a] = logged[a]
       /\ attempts[a].terminal # "CANCELLED" =>
            attempts'[a] = attempts[a] /\ receipt'[a] = receipt[a]]_vars

\* Recovery takes over only what has no process left, even where a crash came
\* between a spawn and the record of its process id.
RecoveryFindsNobody ==
  [][generation' # generation =>
       \A a \in LiveAttempts :
         /\ attempts[a].scheduler \notin alive
         /\ executor[a] \notin {"running", "dying"}
         /\ validator[a] \notin {"running", "dying"}]_vars

\* Every attempt ends while its process runs, whatever is cancelled meanwhile.
AttemptsSettle ==
  \A a \in AttemptIds : Live(a) ~> ~Live(a) \/ attempts[a].scheduler \notin alive

\* Recovery is never refused for good: an attempt whose process died is closed,
\* by an operator who keeps asking a supervised server to reconcile, unless a start
\* in its family was left unrecorded or a child was left running.
Unrecoverable(a) == \/ alive \cap Servers = {} /\ fresh \cap Servers = {}
                    \/ \E b \in LiveAttempts : Uncertain(b) \/ ~Gone(executor[b], TRUE)
                                               \/ ~Gone(validator[b], TRUE)
RecoveryCompletes ==
  \A a \in AttemptIds : Live(a) ~> ~Live(a) \/ Unrecoverable(a)
-----------------------------------------------------------------------------
(* Promises of the repository that the code does not keep: section 8 of the  *)
(* README has the behaviour that contradicts each.                           *)

\* db.js says a CLOSED receipt means that nothing was running.  cancelJob reads the
\* family's attempts, then closes the job in a later statement, and a `manage'
\* process may have claimed an investigation in between.
ClosedOnlyWhenIdle ==
  [][cancel'.outcome = "CLOSED" /\ cancel.outcome # "CLOSED" =>
       \A a \in FamilyAttempts(cancel.job) : ~Live(a)]_vars

\* admitAttempt: "the family never AUTHORIZES more than the ceiling at once".  It subtracts what the
\* receipts price, and one that says COMPLETE may price a log that stops between two lines.
Unlogged == [a \in AttemptIds |-> IF Priced(a) THEN spend[a] - logged[a] ELSE 0]
TrueSpendWithinCeiling ==
  \A root \in Roots :
    /\ Ceiling[root] # Unlimited
    /\ \A a \in FamilyAttempts(root) : spend[a] <= attempts[a].reservation
    => Total(Owed, FamilyAttempts(root)) + Total(Unlogged, FamilyAttempts(root)) <= Ceiling[root]
=============================================================================
