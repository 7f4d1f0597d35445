----------------------------- MODULE MCProgress -----------------------------
(***************************************************************************)
(* Small instances for TLC of the components that must come to an end, each *)
(* with its own fairness.  A behaviour exercises one of them; they share no *)
(* state.  Dispatcher and ManagerLoop have runs of their own.               *)
(***************************************************************************)
EXTENDS Naturals

CONSTANTS Calls, Request, Bindings, Turns, Threads, Processes, Receipt, Columns, None

VARIABLES
    part,                                                             \* the component that is exercised
    up, open, intents, results, saved, inFlight, call, effects,       \* ControlRequests
    task, instance, proc, pidFile, port, op, report, kills,           \* Supervisor
    server, process, active, turn, work, wire,                        \* ManagerTransport
    cancellations, aside, usage, columns, version, opener, recorded, priced, crashes   \* Migration

requestVars  == <<up, open, intents, results, saved, inFlight, call, effects>>
taskVars     == <<task, instance, proc, pidFile, port, op, report, kills>>
turnVars     == <<server, process, active, turn, work, wire>>
databaseVars == <<cancellations, aside, usage, columns, version, opener, recorded, priced, crashes>>
vars == <<part, requestVars, taskVars, turnVars, databaseVars>>

Retried == INSTANCE ControlRequests WITH Requests <- {Request}, Restore <- None, Crashing <- TRUE, Failing <- TRUE
Supervised == INSTANCE Supervisor WITH Pids <- 1..3, Impatient <- TRUE, Failing <- TRUE, MaxKills <- 2
Answered == INSTANCE ManagerTransport WITH Errors <- TRUE, MaxWire <- 3
Raced == INSTANCE Migration WITH
    results <- cancellations, proc <- opener, Receipts <- {Receipt}, Together <- TRUE, MaxCrashes <- 0

ASSUME ProgressAssumption ==
    /\ Retried!RequestsAssumption /\ Supervised!SupervisorAssumption
    /\ Answered!TransportAssumption /\ Raced!MigrationAssumption

Init ==
    /\ part \in {"requests", "task", "turns", "database"}
    /\ Retried!Init /\ Supervised!Init /\ Answered!Init /\ Raced!Init
    /\ part # "database" => recorded = {} /\ usage.rows = {}

Next ==
    \/ part = "requests" /\ Retried!Next /\ UNCHANGED <<part, taskVars, turnVars, databaseVars>>
    \/ part = "task" /\ Supervised!Next /\ UNCHANGED <<part, requestVars, turnVars, databaseVars>>
    \/ part = "turns" /\ Answered!Next /\ UNCHANGED <<part, requestVars, taskVars, databaseVars>>
    \/ part = "database" /\ Raced!Next /\ UNCHANGED <<part, requestVars, taskVars, turnVars>>

\* The fairness of each component, when it is the one that is exercised.
Fairness ==
    /\ \A c \in Calls : WF_requestVars(part = "requests" /\ Retried!Serve(c))
    /\ WF_taskVars(part = "task" /\ Supervised!Trigger)
    /\ \A p \in 1..3 : WF_taskVars(part = "task" /\ Supervised!Runtime(p))
    /\ \A t \in Turns : WF_turnVars(part = "turns" /\ Answered!Timers(t))
    /\ \A p \in Processes : WF_databaseVars(part = "database" /\ Raced!Open(p))

Spec == Init /\ [][Next]_vars /\ Fairness

(***************************************************************************)
(* What is checked: properties of the components, stated there.             *)
(***************************************************************************)
\* waitForResult: a call is answered, also when whoever executed its request is gone.
CallsAreAnswered == Retried!CallsAreAnswered
\* supervisor.js, the trigger of the task: an enabled task serves again, whatever killed the runtime.
ServesAgain == Supervised!ServesAgain
\* runTurn: a turn ends, whatever the app server does, unless the process of the manager does.
TurnsEnd == Answered!TurnsEnd
\* migrate: processes that race through the migration both open the database.
Opens == part = "database" => Raced!Opens
=============================================================================
