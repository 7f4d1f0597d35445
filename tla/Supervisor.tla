----------------------------- MODULE Supervisor -----------------------------
(***************************************************************************)
(* WindowsSupervisor (src/src/supervisor.js): the scheduled task, the      *)
(* runtime it starts, the PID file and the commands install, start, stop   *)
(* and uninstall.  The Task Scheduler is external: it starts the task's    *)
(* program when the task is enabled and has no instance (a trigger every   *)
(* minute, IgnoreNew), and /End returns before the program is gone.        *)
(***************************************************************************)
EXTENDS Naturals

CONSTANTS
    Pids,       \* process ids, used again once free
    Impatient,  \* a terminated process may outlive the wait of a stop
    Failing,    \* schtasks may fail, and a runtime while it starts
    MaxKills    \* bound: runtimes killed by something else

SupervisorAssumption == 0 \notin Pids /\ {Impatient, Failing} \subseteq BOOLEAN /\ MaxKills \in Nat

VARIABLES
    task,      \* the task as registered
    instance,  \* the process the Task Scheduler takes for the task's, or 0
    proc,      \* the processes
    pidFile,   \* control-api.pid, or 0
    port,      \* who listens on 47321, or 0
    op,        \* the command the operator has running
    report,    \* what the last command said
    kills

vars == <<task, instance, proc, pidFile, port, op, report, kills>>
runtime == <<instance, proc, pidFile, port>>

Idle == [cmd |-> "none", pc |-> "idle", pid |-> 0]
Alive(p) == proc[p] # "none"
Listening == port # 0

\* Mutant: what a process held stays taken.
StaysTaken(who, p) == who

Free(who, p) == IF who = p THEN 0 ELSE who

(***************************************************************************)
(* The Task Scheduler and the runtime (`supervisor run').                  *)
(***************************************************************************)
\* A trigger fires, or /Run: IgnoreNew, and nothing for a disabled task.
Launch(p) ==
    /\ task = "enabled" /\ instance = 0 /\ ~Alive(p)
    /\ instance' = p /\ proc' = [proc EXCEPT ![p] = "starting"]
    /\ UNCHANGED <<pidFile, port>>

\* Mutant: only a logon and /Run start the task.
NoTrigger == FALSE

Trigger ==
    /\ \E p \in Pids : Launch(p)
    /\ UNCHANGED <<task, op, report, kills>>

\* recordRuntimePid, after the credentials are loaded and before the port is taken.
Records(p) ==
    /\ proc[p] = "starting"
    /\ proc' = [proc EXCEPT ![p] = "recorded"] /\ pidFile' = p
    /\ UNCHANGED <<task, instance, port, op, report, kills>>

Ends(p) ==
    /\ proc' = [proc EXCEPT ![p] = "none"]
    /\ instance' = Free(instance, p) /\ port' = Free(port, p)
    /\ UNCHANGED <<task, pidFile, op, report>>

\* startControlServer: the port is taken, or the process ends.
Listens(p) ==
    /\ proc[p] = "recorded" /\ ~Listening
    /\ proc' = [proc EXCEPT ![p] = "serving"] /\ port' = p
    /\ UNCHANGED <<task, instance, pidFile, op, report, kills>>

ListenFails(p) == proc[p] = "recorded" /\ Listening /\ Ends(p) /\ UNCHANGED kills

StartFails(p) == Failing /\ kills < MaxKills /\ proc[p] = "starting" /\ Ends(p) /\ kills' = kills + 1

Killed(p) == proc[p] \in {"recorded", "serving"} /\ kills < MaxKills /\ Ends(p) /\ kills' = kills + 1

\* A process that was ended by the Task Scheduler is gone at last.
Gone(p) == proc[p] = "dying" /\ Ends(p) /\ UNCHANGED kills

(***************************************************************************)
(* The commands.  One runs at a time, and it can fail at every schtasks.   *)
(***************************************************************************)
Says(what) == op' = Idle /\ report' = what
Then(pc) == op' = [op EXCEPT !.pc = pc] /\ UNCHANGED report

Command(cmd, pc) ==
    /\ op.pc = "idle"
    /\ op' = [cmd |-> cmd, pc |-> pc, pid |-> 0] /\ report' = "none"
    /\ UNCHANGED <<task, runtime, kills>>

Fails ==
    /\ op.pc \in {"create", "enable", "run", "disable", "end", "delete"}
    /\ Failing \/ (task = "absent" /\ op.pc # "create") \/ (task = "disabled" /\ op.pc = "run")
    /\ Says("failed")
    /\ UNCHANGED <<task, runtime, kills>>

\* install: /Create /F
Creates ==
    /\ op.pc = "create" /\ task' = "enabled" /\ Says("installed")
    /\ UNCHANGED <<runtime, kills>>

\* start: /Change /ENABLE, then /Run.
Enables ==
    /\ op.pc = "enable" /\ task # "absent"
    /\ task' = "enabled" /\ Then("run")
    /\ UNCHANGED <<runtime, kills>>

Runs ==
    /\ op.pc = "run" /\ task = "enabled"
    /\ IF instance # 0 THEN UNCHANGED runtime ELSE \E p \in Pids : Launch(p)
    /\ Says("started")
    /\ UNCHANGED <<task, kills>>

\* Mutant: the task is ended and stays enabled.
StaysEnabled == UNCHANGED task

\* stopSupervisedRuntime: /Change /DISABLE, /End, then the wait.
Disabled == task' = "disabled"

\* Mutant: uninstall deletes the task and lets the program be.
DisablesOrDeletes ==
    /\ op.pc = "disable" /\ task # "absent"
    /\ Disabled /\ Then(IF op.cmd = "uninstall" THEN "delete" ELSE "end")
    /\ UNCHANGED <<runtime, kills>>

Disables ==
    /\ op.pc = "disable" /\ task # "absent"
    /\ Disabled /\ Then("end")
    /\ UNCHANGED <<runtime, kills>>

EndsTask ==
    /\ op.pc = "end" /\ task # "absent"
    /\ proc' = IF instance = 0 THEN proc ELSE [proc EXCEPT ![instance] = "dying"]
    /\ instance' = 0
    /\ Then("read")
    /\ UNCHANGED <<task, pidFile, port, kills>>

\* waitForRuntimeExit reads the file once.
ReadsPid ==
    /\ op.pc = "read"
    /\ op' = [op EXCEPT !.pc = "wait", !.pid = pidFile]
    /\ UNCHANGED <<task, runtime, report, kills>>

\* Mutant: an uninstall takes /End for the end.
UninstallIsOver == op.pid \notin {p \in Pids : Alive(p) /\ op.cmd # "uninstall"}

WaitIsOver == op.pid \notin {p \in Pids : Alive(p)}

Stopped ==
    /\ op.pc = "wait" /\ WaitIsOver
    /\ IF op.cmd = "uninstall" THEN Then("delete") ELSE Says("stopped")
    /\ UNCHANGED <<task, runtime, kills>>

TimesOut ==
    /\ op.pc = "wait" /\ ~WaitIsOver /\ Impatient
    /\ Says("failed")
    /\ UNCHANGED <<task, runtime, kills>>

Deletes ==
    /\ op.pc = "delete" /\ task # "absent"
    /\ task' = "absent" /\ Says("uninstalled")
    /\ UNCHANGED <<runtime, kills>>

Init ==
    /\ task = "absent" /\ instance = 0 /\ proc = [p \in Pids |-> "none"] /\ pidFile = 0 /\ port = 0
    /\ op = Idle /\ report = "none" /\ kills = 0

Runtime(p) == Records(p) \/ Listens(p) \/ ListenFails(p) \/ Gone(p)

Next ==
    \/ Trigger
    \/ \E p \in Pids : Runtime(p) \/ StartFails(p) \/ Killed(p)
    \/ Command("install", "create") \/ Command("start", "enable")
    \/ Command("stop", "disable") \/ Command("uninstall", "disable")
    \/ Fails \/ Creates \/ Enables \/ Runs \/ Disables \/ EndsTask \/ ReadsPid \/ Stopped \/ TimesOut \/ Deletes

Spec == Init /\ [][Next]_vars

\* The trigger fires every minute, and a process does what it has to do.
FairSpec == Spec /\ WF_vars(Trigger) /\ \A p \in Pids : WF_vars(Runtime(p))

(***************************************************************************)
(* Properties.                                                             *)
(***************************************************************************)
\* The task's instance is a process that it started, and the listener is one that serves or is on its way out.
TypeOK ==
    /\ task \in {"absent", "disabled", "enabled"}
    /\ instance # 0 => proc[instance] \in {"starting", "recorded", "serving"}
    /\ port # 0 => proc[port] \in {"serving", "dying"}
    /\ pidFile \in Pids \cup {0}

\* SUP-010: "Stop MUST wait for the exact recorded task-process PID to exit before reporting success, so an
\* immediate start cannot race the old listener": whoever was being started, or killed, when the stop began.
StopTellsTruth == [][(op.pc = "wait" /\ op'.pc # "wait" /\ report' # "failed") => ~Listening]_vars

\* SUP-009a: when the task is gone, nothing that it started holds the port.
NoOrphan == task = "absent" => ~Listening

\* SUP-010: unexpected death recovery does not override an explicit stop.
StoppedStays == report = "stopped" => ~Listening

\* SUP-003: whatever kills the runtime, and in whatever phase, an enabled task serves again.
ServesAgain == task = "enabled" ~> (task # "enabled" \/ (Listening /\ port = instance))
=============================================================================
