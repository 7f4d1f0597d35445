-------------------------------- MODULE Host --------------------------------
(***************************************************************************)
(* What runs on the host around the dispatcher: the supervised runtime, its *)
(* credentials, the database as it is opened, the executor of an attempt,   *)
(* the turns of a manager and what they cost.  A behaviour exercises one of *)
(* them: they share no state, so that the steps of another would change     *)
(* nothing a property of this one can see.                                  *)
(***************************************************************************)
EXTENDS Naturals

CONSTANTS
    Pids, MaxKills,                                       \* Supervisor
    Roles, Required, Values, Cmds,                        \* SecretStore
    Turns, Threads, MaxWire,                              \* ManagerTransport
    Processes, Receipts, Columns, MaxCrashes,             \* Migration
    Attempts, Supported, Tariffed, Costs, MaxCalls, MaxLog,   \* Executors
    Counts, MaxTurns,                                     \* CodexUsage
    None

VARIABLES
    part,                                                             \* the component that is exercised
    task, instance, proc, pidFile, port, op, report, kills,           \* Supervisor
    format, records, env, cmd,                                        \* SecretStore
    server, process, active, turn, work, wire,                        \* ManagerTransport
    results, aside, usage, columns, version, opener, recorded, priced, crashes,   \* Migration
    disabled, run, ledger,                                            \* Executors
    turns                                                             \* CodexUsage

taskVars     == <<task, instance, proc, pidFile, port, op, report, kills>>
secretVars   == <<format, records, env, cmd>>
turnVars     == <<server, process, active, turn, work, wire>>
databaseVars == <<results, aside, usage, columns, version, opener, recorded, priced, crashes>>
executorVars == <<disabled, run, ledger>>
vars == <<part, taskVars, secretVars, turnVars, databaseVars, executorVars, turns>>

\* A stop that waits as long as it takes, while schtasks and runtimes that start may fail.
Supervised == INSTANCE Supervisor WITH Impatient <- FALSE, Failing <- TRUE

\* Commands one after the other; each may fail and die at any step.
Secrets == INSTANCE SecretStore WITH Concurrent <- FALSE, Faults <- TRUE

\* An app server that answers late or never, complains, and exits.
Answered == INSTANCE ManagerTransport WITH Errors <- TRUE

\* Processes that race and die; and processes that open the database one after the other and die.
Raced  == INSTANCE Migration WITH proc <- opener, Together <- TRUE
Opened == INSTANCE Migration WITH proc <- opener, Together <- FALSE

Executed == INSTANCE Executors
Reported == INSTANCE CodexUsage

ASSUME HostAssumption ==
    /\ Supervised!SupervisorAssumption /\ Secrets!StoreAssumption /\ Answered!TransportAssumption
    /\ Raced!MigrationAssumption /\ Opened!MigrationAssumption
    /\ Executed!ExecutorsAssumption /\ Reported!CodexAssumption

\* A component that is not exercised starts in one of its initial states.
Init ==
    /\ part \in {"task", "secrets", "turns", "race", "opening", "executors", "reports"}
    /\ Supervised!Init /\ Secrets!Init /\ Answered!Init /\ Raced!Init /\ Executed!Init /\ Reported!Init
    /\ part # "secrets" => format = "none"
    /\ part \notin {"race", "opening"} => recorded = {} /\ usage.rows = {}

Next ==
    \/ /\ part = "task" /\ Supervised!Next
       /\ UNCHANGED <<part, secretVars, turnVars, databaseVars, executorVars, turns>>
    \/ /\ part = "secrets" /\ Secrets!Next
       /\ UNCHANGED <<part, taskVars, turnVars, databaseVars, executorVars, turns>>
    \/ /\ part = "turns" /\ Answered!Next
       /\ UNCHANGED <<part, taskVars, secretVars, databaseVars, executorVars, turns>>
    \/ /\ \/ part = "race" /\ Raced!Next
          \/ part = "opening" /\ Opened!Next
       /\ UNCHANGED <<part, taskVars, secretVars, turnVars, executorVars, turns>>
    \/ /\ part = "executors" /\ Executed!Next
       /\ UNCHANGED <<part, taskVars, secretVars, turnVars, databaseVars, turns>>
    \/ /\ part = "reports" /\ Reported!Next
       /\ UNCHANGED <<part, taskVars, secretVars, turnVars, databaseVars, executorVars>>

Spec == Init /\ [][Next]_vars

(***************************************************************************)
(* What is checked, one formula for each component: its properties, stated  *)
(* there.                                                                   *)
(***************************************************************************)
\* Supervisor.stop, uninstall: what was stopped stays stopped, nothing is left that the task started, and a stop
\* returns when nothing listens, whichever call of schtasks failed.
TaskIsObeyed ==
    /\ [](Supervised!TypeOK /\ Supervised!NoOrphan /\ Supervised!StoppedStays)
    /\ Supervised!StopTellsTruth

\* SecretStore: a store that exists can start the runtime, a value leaves the environment only when it is the one
\* the store has (or add-role found another), and a change of one record keeps the others, whatever call fails and
\* wherever the process dies.
CredentialsAreKept ==
    /\ [](Secrets!TypeOK /\ Secrets!AlwaysStartable)
    /\ Secrets!ClearedIsStored
    /\ Secrets!RolesAreKept

\* runTurn: a completed turn has run and its text is its own, and a turn that was refused, replayed or, by an app
\* server that is still there, failed was not paid for.
AnswersAreTrue == Answered!TypeOK /\ Answered!AnswerIsOwn /\ Answered!FailedIsUnpaid

\* migrate, rebuildConstrainedTables: the stamped version says what the database is, whoever races or dies; and
\* processes that open it in turn, some of which die, destroy no receipt of a cancellation and lose no price.
DatabaseIsKept ==
    /\ Raced!TypeOK /\ Raced!StampIsTrue
    /\ part = "opening" => Opened!NoReceiptIsDestroyed /\ Opened!CostsAreKept

\* parseOpenCodeUsage, parseHarnessUsage, classifyPreProviderFailure, assessOpenCodeTranscript: no token is counted
\* twice, what is recorded as free has cost nothing, and a complete receipt of Harness, or of an attempt that
\* succeeded, is the whole bill.
ReceiptsAreHonest ==
    /\ Executed!TypeOK
    /\ Executed!NeverOverstated
    /\ Executed!FreeIsUnspent
    /\ Executed!BillIsWhole

\* observeCodexUsage, report: a complete receipt has the counts that were used, no count and no total of a run is
\* more than was used, and the total is exact, for the turns with a receipt, whenever each of them reported one.
SplitsAreTrue ==
    /\ Reported!TypeOK
    /\ Reported!CompleteIsTrue
    /\ Reported!ComponentsDoNotOverlap
    /\ Reported!TotalIsExact
=============================================================================
