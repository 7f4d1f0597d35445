----------------------------- MODULE HostProofs -----------------------------
(***************************************************************************)
(* Proofs of the properties of Host, for any constants: the inductive       *)
(* invariant of each component, that every step of the component keeps it,  *)
(* and what follows; then the theorems of the composition, in which the     *)
(* step of one component leaves the others as they are.                     *)
(***************************************************************************)
EXTENDS Host, TotalsProofs, SequenceTheorems

(***************************************************************************)
(* The supervisor: what holds the port is the process of the PID file, or a*)
(* process that the Task Scheduler is ending.                              *)
(***************************************************************************)
\* A stop that has come this far leaves no instance of the task.
Halted == op.pc \in {"read", "wait", "delete"} \/ task = "absent" \/ report = "stopped"
Silent == op.pc = "delete" \/ task = "absent" \/ report = "stopped"

ProcessStates == {"none", "starting", "recorded", "serving", "dying"}
TaskCommands == [cmd : {"none", "install", "start", "stop", "uninstall"},
             pc : {"idle", "create", "enable", "run", "disable", "end", "read", "wait", "delete"},
             pid : Pids \cup {0}]

SupervisorTyped ==
  /\ task \in {"absent", "disabled", "enabled"}
  /\ proc \in [Pids -> ProcessStates]
  /\ {instance, pidFile, port} \subseteq Pids \cup {0}
  /\ op \in TaskCommands
\* An instance is the process that the task started, the PID file names it, and the listener is it or the one a stop
\* waits for.
Held ==
  /\ \A p \in Pids : /\ proc[p] \in {"starting", "recorded", "serving"} => instance = p
                     /\ proc[p] \in {"recorded", "serving"} => pidFile = p
  /\ instance # 0 => proc[instance] \in {"starting", "recorded", "serving"}
  /\ port # 0 => proc[port] \in {"serving", "dying"}
  /\ port # 0 /\ proc[port] = "dying" =>
       pidFile = port /\ op.pc \in {"read", "wait"} /\ (op.pc = "wait" => op.pid = port)
Halts ==
  /\ op.pc \in {"end", "read", "wait", "delete"} => task = "disabled"
  /\ Halted => instance = 0
  /\ Silent => port = 0
  /\ report = "stopped" => op.pc = "idle" /\ task = "disabled"
SupervisorInv == SupervisorTyped /\ Held /\ Halts

\* A PID is not 0.
LEMMA NoPid == 0 \notin Pids
BY HostAssumption DEF HostAssumption, Supervised!SupervisorAssumption

\* Every step of the Task Scheduler, of a command and of a runtime keeps the invariant.
LEMMA SupervisorStep == SupervisorInv /\ Supervised!Next => SupervisorInv'
<1>. SUFFICES ASSUME SupervisorInv, Supervised!Next PROVE SupervisorInv' OBVIOUS
<1>. USE NoPid DEF SupervisorInv, Halted, Silent
<1>1. ASSUME NEW p \in Pids, Supervised!Launch(p), UNCHANGED <<task, kills>>,
             \/ op' = op /\ report' = report
             \/ Supervised!Says("started") /\ op.pc = "run"
      PROVE  SupervisorInv'
  <2>1. SupervisorTyped'
    BY <1>1 DEF SupervisorTyped, TaskCommands, ProcessStates, Supervised!Launch, Supervised!Says, Supervised!Idle
  <2>2. Held'
    BY <1>1
       DEF SupervisorTyped, Held, Halts, TaskCommands, ProcessStates, Supervised!Launch, Supervised!Says,
           Supervised!Idle, Supervised!Alive
  <2>3. Halts'
    BY <1>1
       DEF SupervisorTyped, Held, Halts, TaskCommands, ProcessStates, Supervised!Launch, Supervised!Says,
           Supervised!Idle, Supervised!Alive
  <2>. QED BY <2>1, <2>2, <2>3
<1>2. ASSUME NEW p \in Pids, Supervised!Records(p) PROVE SupervisorInv'
  BY <1>2 DEF SupervisorTyped, Held, Halts, ProcessStates, Supervised!Records
<1>3. ASSUME NEW p \in Pids, Supervised!Listens(p) PROVE SupervisorInv'
  BY <1>3 DEF SupervisorTyped, Held, Halts, ProcessStates, Supervised!Listens, Supervised!Listening
<1>4. ASSUME NEW p \in Pids, Supervised!Ends(p), proc[p] # "none" PROVE SupervisorInv'
  BY <1>4 DEF SupervisorTyped, Held, Halts, ProcessStates, Supervised!Ends, Supervised!Free
<1>5. ASSUME UNCHANGED <<task, instance, proc, pidFile, port>>,
             op.pc = "idle", report' = "none",
             \E name \in {"install", "start", "stop", "uninstall"}, pc \in {"create", "enable", "disable"} :
                op' = [cmd |-> name, pc |-> pc, pid |-> 0]
      PROVE  SupervisorInv'
  BY <1>5 DEF SupervisorTyped, Held, Halts, TaskCommands
<1>6. CASE Supervised!Fails
  BY <1>6
     DEF SupervisorTyped, Held, Halts, TaskCommands, Supervised!Fails, Supervised!Says, Supervised!Idle,
         Supervised!runtime
<1>7. CASE Supervised!Creates \/ Supervised!Enables
  BY <1>7
     DEF SupervisorTyped, Held, Halts, TaskCommands, Supervised!Creates, Supervised!Enables, Supervised!Says,
         Supervised!Then, Supervised!Idle, Supervised!runtime
<1>8. CASE Supervised!Disables
  BY <1>8
     DEF SupervisorTyped, Held, Halts, TaskCommands, Supervised!Disables, Supervised!Disabled, Supervised!Then,
         Supervised!runtime
<1>9. CASE Supervised!EndsTask
  <2>1. SupervisorTyped'
    BY <1>9 DEF SupervisorTyped, Held, TaskCommands, ProcessStates, Supervised!EndsTask, Supervised!Then
  <2>2. Held'
    BY <1>9 DEF SupervisorTyped, Held, Halts, TaskCommands, ProcessStates, Supervised!EndsTask, Supervised!Then
  <2>3. Halts'
    BY <1>9 DEF SupervisorTyped, Held, Halts, TaskCommands, ProcessStates, Supervised!EndsTask, Supervised!Then
  <2>. QED BY <2>1, <2>2, <2>3
<1>10. CASE Supervised!ReadsPid
  BY <1>10 DEF SupervisorTyped, Held, Halts, TaskCommands, Supervised!ReadsPid, Supervised!runtime
<1>11. CASE Supervised!Stopped
  BY <1>11
     DEF SupervisorTyped, Held, Halts, TaskCommands, Supervised!Stopped, Supervised!WaitIsOver, Supervised!Alive,
         Supervised!Then, Supervised!Says, Supervised!Idle, Supervised!runtime
<1>12. CASE Supervised!Deletes
  BY <1>12
     DEF SupervisorTyped, Held, Halts, TaskCommands, Supervised!Deletes, Supervised!Says, Supervised!Idle,
         Supervised!runtime
<1>13. CASE Supervised!Runs /\ instance # 0
  BY <1>13
     DEF SupervisorTyped, Held, Halts, TaskCommands, Supervised!Runs, Supervised!Says, Supervised!Idle,
         Supervised!runtime
<1>14. CASE Supervised!Runs /\ instance = 0
  BY <1>14, <1>1 DEF Supervised!Runs
<1>15. CASE Supervised!Trigger
  <2>1. PICK p \in Pids : Supervised!Launch(p) BY <1>15 DEF Supervised!Trigger
  <2>2. op' = op /\ report' = report /\ UNCHANGED <<task, kills>> BY <1>15 DEF Supervised!Trigger
  <2>. QED BY <1>1, <2>1, <2>2
<1>16. ASSUME NEW p \in Pids, Supervised!Runtime(p) \/ Supervised!StartFails(p) \/ Supervised!Killed(p)
       PROVE  SupervisorInv'
  BY <1>16, <1>2, <1>3, <1>4
     DEF Supervised!Runtime, Supervised!StartFails, Supervised!Killed, Supervised!ListenFails, Supervised!Gone
<1>17. CASE Supervised!Command("install", "create") \/ Supervised!Command("start", "enable")
         \/ Supervised!Command("stop", "disable") \/ Supervised!Command("uninstall", "disable")
  BY <1>17, <1>5 DEF Supervised!Command, Supervised!runtime
<1>18. ~Supervised!TimesOut BY DEF Supervised!TimesOut
<1>. QED BY <1>6, <1>7, <1>8, <1>9, <1>10, <1>11, <1>12, <1>13, <1>14, <1>15, <1>16, <1>17, <1>18 DEF Supervised!Next

\* A stop is over when the process of the PID file is gone, and that is the last that could hold the port.
LEMMA SupervisorTells ==
  SupervisorInv /\ Supervised!Next /\ op.pc = "wait" /\ op'.pc # "wait" /\ report' # "failed" => port = 0
<1>. SUFFICES ASSUME SupervisorInv, Supervised!Next, op.pc = "wait", op'.pc # "wait", report' # "failed" PROVE port = 0
  OBVIOUS
<1>1. Supervised!Stopped
  BY DEF Supervised!Next, Supervised!Trigger, Supervised!Runtime, Supervised!Records, Supervised!Listens,
         Supervised!ListenFails, Supervised!Gone, Supervised!Ends, Supervised!StartFails, Supervised!Killed,
         Supervised!Command, Supervised!Fails, Supervised!Creates, Supervised!Enables, Supervised!Runs,
         Supervised!Disables, Supervised!EndsTask, Supervised!ReadsPid, Supervised!TimesOut, Supervised!Deletes
<1>. QED
  BY <1>1, NoPid
     DEF Supervised!Stopped, Supervised!WaitIsOver, Supervised!Alive, SupervisorInv, SupervisorTyped, Held, Halts,
         Halted

\* At first there is no task and no process.
LEMMA SupervisorInitially == Supervised!Init => SupervisorInv
BY NoPid
   DEF Supervised!Init, Supervised!Idle, SupervisorInv, SupervisorTyped, ProcessStates, TaskCommands, Held, Halts,
       Halted, Silent

(***************************************************************************)
(* The store of credentials: what a command will write is complete, and what*)
(* it will clear is stored.                                                *)
(***************************************************************************)
Credentials == Values \cup {None}
StoreCommands == {"none", "provision", "add", "present", "migrate"}
Preparing == {"sealing", "writing", "renaming"}
Active(c) == cmd[c].pc \notin {"unused", "ended"}
SecretCommands == [kind : StoreCommands, pc : {"unused", "ended", "clearing"} \cup Preparing,
                   mine : [Roles -> Credentials], clear : SUBSET Roles]
StoreTyped ==
  /\ format \in {"none", "legacy", "scoped"} /\ {records, env} \subseteq [Roles -> Credentials]
  /\ cmd \in [Cmds -> SecretCommands]
\* A store that exists can start the runtime.
Startable == format # "none" => Secrets!Complete(records)
\* The commands run one after the other.
OneCommand == \A c, d \in Cmds : Active(c) /\ Active(d) => c = d
\* What a command is about to write is complete and keeps what there is; what it clears is stored, except by an
\* add-role that found its one role there.
Prepared(c) ==
       /\ cmd[c].pc = "unused" => cmd[c].kind = "none"
       /\ cmd[c].pc \in Preparing =>
            /\ Secrets!Complete(cmd[c].mine)
            /\ \A r \in cmd[c].clear : env[r] # None => cmd[c].mine[r] = env[r]
            /\ cmd[c].kind # "present"
            /\ cmd[c].kind \in {"add", "migrate"} =>
                 \A r \in Roles : records[r] # None => cmd[c].mine[r] = records[r]
       /\ cmd[c].pc = "clearing" /\ cmd[c].kind # "present" =>
            \A r \in cmd[c].clear : env[r] # None => records[r] = env[r]
       /\ cmd[c].pc = "clearing" /\ cmd[c].kind = "present" =>
            \E r \in Roles : cmd[c].clear = {r} /\ records[r] # None
StoreInv == StoreTyped /\ Startable /\ OneCommand /\ \A c \in Cmds : Prepared(c)

\* The roles that a runtime cannot do without are roles.
LEMMA Needed == Required \subseteq Roles
BY HostAssumption DEF HostAssumption, Secrets!StoreAssumption

\* Every step of a command, its failure and its death among them, keeps the invariant.
LEMMA StoreStep == StoreInv /\ Secrets!Next => StoreInv'
<1>. SUFFICES ASSUME StoreInv, Secrets!Next PROVE StoreInv' OBVIOUS
<1>. USE Needed DEF StoreInv
<1>1. CASE Secrets!Supply
  BY <1>1
     DEF StoreTyped, Startable, OneCommand, Prepared, SecretCommands, Preparing, StoreCommands, Credentials, Active,
         Secrets!Complete, Secrets!Has, Secrets!Supply, Secrets!Quiet, Secrets!store
<1>2. ASSUME NEW c \in Cmds, Secrets!MayBegin(c), UNCHANGED <<format, records, env>>,
             NEW k \in SecretCommands, cmd' = [cmd EXCEPT ![c] = k],
             k.pc \in {"sealing", "clearing"},
             k.pc = "sealing" =>
               /\ Secrets!Complete(k.mine)
               /\ \A r \in k.clear : env[r] # None => k.mine[r] = env[r]
               /\ k.kind # "present"
               /\ k.kind \in {"add", "migrate"} => \A r \in Roles : records[r] # None => k.mine[r] = records[r],
             k.pc = "clearing" => k.kind = "present" /\ \E r \in Roles : k.clear = {r} /\ records[r] # None
      PROVE  StoreInv'
  <2>1. \A d \in Cmds : ~Active(d) BY <1>2 DEF Secrets!MayBegin, Secrets!Quiet, Active
  <2>2. cmd' \in [Cmds -> SecretCommands] /\ cmd'[c] = k /\ \A d \in Cmds \ {c} : cmd'[d] = cmd[d]
    BY <1>2 DEF StoreTyped
  <2>3. StoreTyped' BY <1>2, <2>2 DEF StoreTyped, SecretCommands
  <2>4. OneCommand' BY <2>1, <2>2 DEF OneCommand, Active
  <2>5. ASSUME NEW d \in Cmds PROVE Prepared(d)'
    <3>1. CASE d = c BY <1>2, <2>2, <3>1 DEF Prepared, Preparing, Secrets!Complete, Secrets!Has
    <3>2. CASE d # c BY <1>2, <2>1, <2>2, <3>2 DEF Prepared, Preparing, Active
    <3>. QED BY <3>1, <3>2
  <2>6. Startable' BY <1>2 DEF Startable, Secrets!Complete, Secrets!Has
  <2>. QED BY <2>3, <2>4, <2>5, <2>6
<1>3. ASSUME NEW c \in Cmds, Secrets!Provision(c) PROVE StoreInv'
  BY <1>2, <1>3
     DEF StoreTyped, SecretCommands, Preparing, StoreCommands, Credentials, Secrets!Provision, Secrets!Begin,
         Secrets!store, Secrets!Collected, Secrets!Complete, Secrets!Has
<1>4. ASSUME NEW c \in Cmds, Secrets!AddRole(c) PROVE StoreInv'
  <2>1. PICK r \in Roles :
          /\ Secrets!Has(env, r)
          /\ IF Secrets!Has(records, r) THEN Secrets!Begin(c, "present", "clearing", Secrets!NoRecords, {r})
             ELSE Secrets!Begin(c, "add", "sealing", [records EXCEPT ![r] = env[r]], {r})
    BY <1>4 DEF Secrets!AddRole
  <2>2. Secrets!MayBegin(c) /\ format = "scoped" /\ UNCHANGED <<format, records, env>>
    BY <1>4 DEF Secrets!AddRole, Secrets!store
  <2>3. CASE Secrets!Has(records, r)
    <3>. DEFINE k == [kind |-> "present", pc |-> "clearing", mine |-> Secrets!NoRecords, clear |-> {r}]
    <3>1. k \in SecretCommands BY <2>1 DEF SecretCommands, StoreCommands, Preparing, Credentials, Secrets!NoRecords
    <3>2. cmd' = [cmd EXCEPT ![c] = k] BY <2>1, <2>3 DEF Secrets!Begin
    <3>. QED BY <1>2, <2>1, <2>2, <2>3, <3>1, <3>2 DEF Secrets!Has
  <2>4. CASE ~Secrets!Has(records, r)
    <3>. DEFINE k == [kind |-> "add", pc |-> "sealing", mine |-> [records EXCEPT ![r] = env[r]], clear |-> {r}]
    <3>1. [records EXCEPT ![r] = env[r]] \in [Roles -> Credentials] BY <2>1 DEF StoreTyped, Credentials
    <3>2. k \in SecretCommands BY <2>1, <3>1 DEF SecretCommands, StoreCommands, Preparing
    <3>3. cmd' = [cmd EXCEPT ![c] = k] BY <2>1, <2>4 DEF Secrets!Begin
    <3>4. k.mine[r] = env[r] /\ \A q \in Roles : q # r => k.mine[q] = records[q]
      BY <2>1 DEF StoreTyped
    <3>5. Secrets!Complete(k.mine) BY <2>1, <2>2, <2>4, <3>4 DEF Startable, Secrets!Complete, Secrets!Has
    <3>6. \A q \in Roles : records[q] # None => k.mine[q] = records[q] BY <2>4, <3>4 DEF Secrets!Has
    <3>. QED BY <1>2, <2>1, <2>2, <3>2, <3>3, <3>4, <3>5, <3>6 DEF Secrets!Has
  <2>. QED BY <2>3, <2>4
<1>5. ASSUME NEW c \in Cmds, Secrets!Migrate(c) PROVE StoreInv'
  BY <1>2, <1>5
     DEF StoreTyped, SecretCommands, Preparing, StoreCommands, Credentials, Secrets!Migrate, Secrets!Begin,
         Secrets!store, Secrets!Collected, Secrets!Complete, Secrets!Has
<1>6. ASSUME NEW c \in Cmds, NEW pc \in Preparing \cup {"ended"}, cmd[c].pc \in Preparing \cup {"clearing"},
             pc # "ended" => cmd[c].pc \in Preparing,
             cmd' = [cmd EXCEPT ![c].pc = pc], UNCHANGED <<format, records, env>>
      PROVE  StoreInv'
  <2>1. /\ cmd' \in [Cmds -> SecretCommands]
        /\ \A d \in Cmds : /\ cmd'[d].kind = cmd[d].kind /\ cmd'[d].mine = cmd[d].mine /\ cmd'[d].clear = cmd[d].clear
                           /\ cmd'[d].pc = IF d = c THEN pc ELSE cmd[d].pc
    BY <1>6 DEF StoreTyped, SecretCommands
  <2>2. StoreTyped' BY <1>6, <2>1 DEF StoreTyped, SecretCommands
  <2>3. OneCommand' BY <1>6, <2>1 DEF OneCommand, Active, Preparing
  <2>4. Startable' BY <1>6 DEF Startable, Secrets!Complete, Secrets!Has
  <2>5. ASSUME NEW d \in Cmds PROVE Prepared(d)'
    BY <1>6, <2>1 DEF Prepared, Preparing, Secrets!Complete, Secrets!Has
  <2>. QED BY <2>2, <2>3, <2>4, <2>5
<1>7. ASSUME NEW c \in Cmds, Secrets!Seals(c) \/ Secrets!WritesTemporary(c) PROVE StoreInv'
  BY <1>6, <1>7 DEF Secrets!Seals, Secrets!WritesTemporary, Secrets!Ready, Secrets!To, Secrets!store, Preparing
<1>8. ASSUME NEW c \in Cmds, Secrets!Fails(c) PROVE StoreInv'
  BY <1>6, <1>8 DEF Secrets!Fails, Secrets!Ready, Secrets!To, Secrets!store, Preparing
<1>9. ASSUME NEW c \in Cmds, Secrets!Renames(c) PROVE StoreInv'
  <2>0. cmd[c].pc = "renaming" /\ format' = "scoped" /\ records' = cmd[c].mine /\ env' = env
    BY <1>9 DEF Secrets!Renames, Secrets!Ready
  <2>1. /\ cmd' \in [Cmds -> SecretCommands] /\ cmd'[c].pc \in {"ended", "clearing"}
        /\ \A d \in Cmds : /\ cmd'[d].kind = cmd[d].kind /\ cmd'[d].mine = cmd[d].mine /\ cmd'[d].clear = cmd[d].clear
                           /\ d # c => cmd'[d].pc = cmd[d].pc
    BY <1>9 DEF StoreTyped, SecretCommands, Secrets!Renames, Secrets!To
  <2>2. \A d \in Cmds \ {c} : cmd[d].pc \in {"unused", "ended"} BY <2>0 DEF OneCommand, Active
  <2>3. StoreTyped' BY <2>0, <2>1 DEF StoreTyped, SecretCommands
  <2>4. OneCommand' BY <2>0, <2>1, <2>2 DEF OneCommand, Active
  <2>5. Startable' BY <2>0 DEF Startable, Prepared, Preparing, Secrets!Complete, Secrets!Has
  <2>6. ASSUME NEW d \in Cmds PROVE Prepared(d)'
    BY <2>0, <2>1, <2>2 DEF Prepared, Preparing
  <2>. QED BY <2>3, <2>4, <2>5, <2>6
<1>10. ASSUME NEW c \in Cmds, Secrets!Clears(c) PROVE StoreInv'
  <2>0. /\ cmd[c].pc = "clearing" /\ UNCHANGED <<format, records>>
        /\ env' = [r \in Roles |-> IF r \in cmd[c].clear THEN None ELSE env[r]]
        /\ cmd' = [cmd EXCEPT ![c].pc = "ended"]
    BY <1>10 DEF Secrets!Clears, Secrets!Ready, Secrets!To, Secrets!store
  <2>1. /\ cmd' \in [Cmds -> SecretCommands]
        /\ \A d \in Cmds : /\ cmd'[d].kind = cmd[d].kind /\ cmd'[d].mine = cmd[d].mine /\ cmd'[d].clear = cmd[d].clear
                           /\ cmd'[d].pc = IF d = c THEN "ended" ELSE cmd[d].pc
    BY <2>0 DEF StoreTyped, SecretCommands
  <2>2. StoreTyped' BY <2>0, <2>1 DEF StoreTyped, SecretCommands, Credentials
  <2>3. OneCommand' BY <2>0, <2>1 DEF OneCommand, Active
  <2>4. Startable' BY <2>0 DEF Startable, Secrets!Complete, Secrets!Has
  <2>5. ASSUME NEW d \in Cmds PROVE Prepared(d)'
    <3>1. cmd[d].clear \subseteq Roles BY DEF StoreTyped, SecretCommands
    <3>2. d # c => cmd[d].pc \in {"unused", "ended"} BY <2>0 DEF OneCommand, Active
    <3>. QED BY <2>0, <2>1, <3>1, <3>2 DEF Prepared, Preparing
  <2>. QED BY <2>2, <2>3, <2>4, <2>5
<1>. QED BY <1>1, <1>3, <1>4, <1>5, <1>7, <1>8, <1>9, <1>10 DEF Secrets!Next

\* At first there is no store, or the combined one with every role that is needed.
LEMMA StoreInitially == Secrets!Init => StoreInv
BY Needed
   DEF Secrets!Init, Secrets!Unused, Secrets!NoRecords, Secrets!Complete, Secrets!Has, StoreInv, StoreTyped,
       Startable, OneCommand, Active, Prepared, Preparing, StoreCommands, Credentials, SecretCommands

\* What a command clears from the environment is in the store it has written, or its role was found there.
LEMMA StoreClears ==
  StoreInv /\ Secrets!Next =>
    \A r \in Roles : Secrets!Has(env, r) /\ ~Secrets!Has(env', r) =>
       \/ records[r] = env[r] /\ records'[r] = env[r]
       \/ Secrets!FoundStored(r) /\ Secrets!Has(records, r) /\ records'[r] = records[r]
<1>. SUFFICES ASSUME StoreInv, Secrets!Next, NEW r \in Roles, env[r] # None, ~(env'[r] # None)
              PROVE  \/ records[r] = env[r] /\ records'[r] = env[r]
                     \/ Secrets!FoundStored(r) /\ Secrets!Has(records, r) /\ records'[r] = records[r]
  BY DEF Secrets!Has
<1>1. \A v \in Values : v # None BY HostAssumption DEF HostAssumption, Secrets!StoreAssumption
<1>2. ~Secrets!Supply BY <1>1 DEF Secrets!Supply, StoreInv, StoreTyped
<1>3. PICK c \in Cmds : Secrets!Clears(c)
  BY <1>2
     DEF Secrets!Next, Secrets!Provision, Secrets!AddRole, Secrets!Migrate, Secrets!Seals, Secrets!WritesTemporary,
         Secrets!Renames, Secrets!Fails
<1>4. cmd[c].pc = "clearing" /\ records' = records /\ r \in cmd[c].clear
  BY <1>3 DEF Secrets!Clears, Secrets!Ready, Secrets!store, StoreInv, StoreTyped
<1>5. CASE cmd[c].kind = "present"
  <2>1. cmd[c].clear = {r} /\ records[r] # None BY <1>4, <1>5 DEF StoreInv, Prepared
  <2>. QED BY <1>4, <1>5, <2>1 DEF Secrets!FoundStored, Secrets!Ready, Secrets!Has
<1>6. CASE cmd[c].kind # "present" BY <1>4, <1>6 DEF StoreInv, Prepared
<1>. QED BY <1>5, <1>6

\* What a command stores in place of the records has them all.
LEMMA StoreAdds ==
  StoreInv /\ Secrets!Next =>
    \A c \in Cmds : cmd[c].kind \in {"add", "present", "migrate"} /\ cmd'[c] # cmd[c] =>
          \A r \in Roles : Secrets!Has(records, r) => records'[r] = records[r]
<1>. SUFFICES ASSUME StoreInv, Secrets!Next, NEW c \in Cmds, cmd[c].kind \in {"add", "present", "migrate"}, cmd'[c] # cmd[c],
                     NEW r \in Roles, records[r] # None
              PROVE  records'[r] = records[r]
  BY DEF Secrets!Has
<1>1. CASE records' = records BY <1>1
<1>2. CASE records' # records
  <2>1. PICK d \in Cmds : Secrets!Renames(d)
    BY <1>2
       DEF Secrets!Next, Secrets!Supply, Secrets!store, Secrets!Provision, Secrets!AddRole, Secrets!Migrate,
           Secrets!Seals, Secrets!WritesTemporary, Secrets!Clears, Secrets!Fails
  <2>2. d = c BY <2>1 DEF Secrets!Renames, Secrets!To, StoreInv, StoreTyped
  <2>. QED BY <2>1, <2>2 DEF Secrets!Renames, Secrets!Ready, StoreInv, Prepared, Preparing
<1>. QED BY <1>1, <1>2

(***************************************************************************)
(* The turns of a manager: what has been done for a turn bounds what may be*)
(* on the wire for it.                                                     *)
(***************************************************************************)
Responses == {"reject", "stale", "accept", "inline"}
Messages == [kind : Responses \cup {"item", "completed"}, of : Turns, thread : Threads \cup {None}]
            \cup [kind : {"error"}, of : {None}, thread : Threads]
\* Where the messages of a turn are.
Of(t) == {i \in DOMAIN wire : wire[i].of = t}
Turned == [thread : Threads \cup {None}, pc : {"idle", "asked", "accepted", "over"}, text : Turns \cup {None},
           settled : Answered!Outcomes \cup {None}, outcome : Answered!Outcomes \cup {None}]

TransportTyped ==
  /\ server \in {"up", "gone"} /\ process \in {"up", "crashed"}
  /\ turn \in [Turns -> Turned]
  /\ work \in [Turns -> {"no", "sent", "refused", "running", "answered", "ran"}]
  /\ wire \in Seq(Messages)

\* A message of a turn tells what has been done for the turn, and the acceptance is the first to be heard.
WireInv(t) ==
  /\ \A i \in Of(t) :
       /\ wire[i].thread = turn[t].thread
       /\ wire[i].kind \in {"reject", "stale"} => work[t] = "refused"
       /\ wire[i].kind \in {"inline", "completed"} => work[t] = "ran"
       /\ wire[i].kind = "item" => work[t] \in {"answered", "ran"}
       /\ wire[i].kind = "accept" => work[t] \in {"running", "answered", "ran"}
       /\ wire[i].kind \in Responses => turn[t].pc # "accepted"
       /\ turn[t].pc = "asked" /\ wire[i].kind \notin Responses =>
            \E j \in Of(t) : j < i /\ wire[j].kind = "accept"
  /\ turn[t].pc = "asked" /\ work[t] \in {"running", "answered"} => \E j \in Of(t) : wire[j].kind = "accept"
  /\ \A i, j \in Of(t) : i < j => wire[i].kind \in {"accept", "item"} /\ wire[j].kind \notin Responses
  /\ work[t] \in {"no", "sent"} => Of(t) = {}

\* A thread has one turn in play.
Alone(t) ==
  \A u \in Turns : Answered!InPlay(t) /\ u # t /\ turn[u].thread = turn[t].thread =>
       turn[u].outcome \in {"COMPLETED", "REFUSED"}

\* How a turn ended tells what was done for it, and its text is its own.
TurnInv(t) ==
  /\ turn[t].pc = "idle" => turn[t].thread = None /\ turn[t].outcome = None
  /\ (turn[t].pc = "idle" \/ turn[t].outcome = "REFUSED") => work[t] = "no"
  /\ turn[t].pc = "over" => turn[t].outcome # None
  /\ turn[t].outcome # None => turn[t].pc = "over"
  /\ turn[t].pc = "accepted" => work[t] \in {"running", "answered", "ran"}
  /\ (turn[t].outcome = "STALE" \/ (turn[t].outcome = "FAILED" /\ server = "up")) => work[t] = "refused"
  /\ turn[t].outcome = "COMPLETED" => work[t] = "ran" /\ Of(t) = {}
  /\ Answered!InPlay(t) => turn[t].thread \in active
  /\ (Answered!InPlay(t) \/ turn[t].outcome = "COMPLETED") => turn[t].text \in {None, t}
  /\ process = "up" /\ turn[t].pc = "asked" => turn[t].settled = None

\* A thread is taken by the turn in play on it.
Taken == \A th \in active : \E t \in Turns : Answered!InPlay(t) /\ turn[t].thread = th

TransportInv == TransportTyped /\ Taken /\ \A t \in Turns : WireInv(t) /\ TurnInv(t) /\ Alone(t)

\* None is no turn, no thread and no outcome.
LEMMA NoTurn == None \notin Turns /\ None \notin Threads /\ None \notin Answered!Outcomes
BY HostAssumption DEF HostAssumption, Answered!TransportAssumption

\* What is read was the first.
LEMMA Tailed ==
  ASSUME wire \in Seq(Messages), wire # <<>>, wire' = Tail(wire)
  PROVE  /\ wire' \in Seq(Messages) /\ 1 \in DOMAIN wire
         /\ \A t \in Turns : Of(t)' = {i \in Nat \ {0} : i + 1 \in Of(t)}
         /\ \A t \in Turns : \A i \in Of(t)' : wire'[i] = wire[i + 1]
         /\ \A t \in Turns : Of(t) \subseteq Nat \ {0}
BY DEF Of

\* What is written is the last.
LEMMA Appended ==
  ASSUME wire \in Seq(Messages), NEW m \in Messages, wire' = Append(wire, m)
  PROVE  /\ wire' \in Seq(Messages) /\ Len(wire) + 1 \in Nat /\ wire'[Len(wire) + 1] = m
         /\ \A t \in Turns : Of(t)' = IF m.of = t THEN Of(t) \cup {Len(wire) + 1} ELSE Of(t)
         /\ \A t \in Turns : \A i \in Of(t) : i \in Nat /\ i < Len(wire) + 1 /\ wire'[i] = wire[i]
BY DEF Of

\* A turn that is over.
LEMMA TurnIsOver ==
  ASSUME NEW x \in Turned, NEW outcome \in Answered!Outcomes
  PROVE  LET y == [x EXCEPT !.pc = "over", !.outcome = outcome]
         IN  y \in Turned /\ y.pc = "over" /\ y.outcome = outcome /\ y.thread = x.thread /\ y.text = x.text
<1>1. outcome \in Answered!Outcomes \cup {None} OBVIOUS
<1>. HIDE DEF Answered!Outcomes
<1>. QED BY <1>1 DEF Turned

\* One turn changes.
LEMMA OneTurn ==
  ASSUME TransportTyped, NEW t \in Turns, NEW y \in Turned, turn' = [turn EXCEPT ![t] = y]
  PROVE  turn' \in [Turns -> Turned] /\ turn'[t] = y /\ \A u \in Turns \ {t} : turn'[u] = turn[u]
BY DEF TransportTyped

\* A thread has one turn in play.
LEMMA OneInPlay ==
  ASSUME TransportInv, NEW t \in Turns, NEW u \in Turns, Answered!InPlay(t), Answered!InPlay(u),
         turn[t].thread = turn[u].thread
  PROVE  t = u
<1>1. turn[u].outcome = None BY DEF TransportInv, TurnInv, Answered!InPlay
<1>. QED BY <1>1, NoTurn DEF TransportInv, Alone, Answered!Outcomes

\* A message of a turn finds nobody else on its thread.
LEMMA Recipient ==
  ASSUME TransportInv, wire # <<>>, wire[1].of \in Turns, NEW t \in Answered!OnThread(wire[1].thread)
  PROVE  t = wire[1].of
<1>. DEFINE u == wire[1].of
<1>1. 1 \in Of(u) BY DEF Of, TransportInv, TransportTyped
<1>2. wire[1].thread = turn[u].thread /\ work[u] \notin {"no", "sent"}
  BY <1>1 DEF TransportInv, WireInv
<1>3. turn[u].outcome \notin {"COMPLETED", "REFUSED"} BY <1>1, <1>2 DEF TransportInv, TurnInv
<1>4. t \in Turns /\ Answered!InPlay(t) /\ turn[t].thread = turn[u].thread BY <1>2 DEF Answered!OnThread
<1>. QED BY <1>3, <1>4 DEF TransportInv, Alone

\* What is left in the pipe when its first message was read.
LEMMA WireRead ==
  ASSUME TransportInv, wire # <<>>, wire' = Tail(wire), NEW u \in Turns,
         turn'[u].thread = turn[u].thread, work'[u] = work[u],
         \/ turn'[u].pc \in {turn[u].pc, "over"}
         \/ turn'[u].pc = "accepted" /\ 1 \in Of(u) /\ turn[u].pc = "asked",
         1 \in Of(u) /\ wire[1].kind = "accept" => turn'[u].pc # "asked"
  PROVE  /\ WireInv(u)'
         /\ Of(u) = {} => Of(u)' = {}
         /\ 1 \in Of(u) /\ wire[1].kind \notin {"accept", "item"} => Of(u)' = {}
<1>0. wire \in Seq(Messages) /\ WireInv(u) BY DEF TransportInv, TransportTyped
<1>1. /\ Of(u)' = {i \in Nat \ {0} : i + 1 \in Of(u)} /\ \A i \in Of(u)' : wire'[i] = wire[i + 1]
      /\ Of(u) \subseteq Nat \ {0}
  BY <1>0, Tailed
<1>2. ASSUME NEW i \in Of(u), i # 1 PROVE i - 1 \in Of(u)' /\ wire'[i - 1] = wire[i]
  <2>1. i - 1 \in Nat \ {0} /\ (i - 1) + 1 = i BY <1>1, <1>2
  <2>2. i - 1 \in Of(u)' BY <1>1, <2>1
  <2>. QED BY <1>1, <2>1, <2>2
<1>3. \A i \in Of(u)' : i \in Nat /\ i + 1 \in Of(u) /\ 1 < i + 1 BY <1>1
<1>4. ASSUME NEW i \in Of(u)' PROVE
       /\ wire'[i].thread = turn'[u].thread
       /\ wire'[i].kind \in {"reject", "stale"} => work'[u] = "refused"
       /\ wire'[i].kind \in {"inline", "completed"} => work'[u] = "ran"
       /\ wire'[i].kind = "item" => work'[u] \in {"answered", "ran"}
       /\ wire'[i].kind = "accept" => work'[u] \in {"running", "answered", "ran"}
       /\ wire'[i].kind \in Responses => turn'[u].pc # "accepted"
       /\ turn'[u].pc = "asked" /\ wire'[i].kind \notin Responses =>
            \E j \in Of(u)' : j < i /\ wire'[j].kind = "accept"
  <2>1. wire'[i] = wire[i + 1] /\ i + 1 \in Of(u) /\ 1 < i + 1 BY <1>1, <1>3
  <2>2. wire'[i].kind \in Responses => turn'[u].pc # "accepted" BY <1>0, <2>1 DEF WireInv
  <2>3. ASSUME turn'[u].pc = "asked", wire'[i].kind \notin Responses
        PROVE  \E j \in Of(u)' : j < i /\ wire'[j].kind = "accept"
    <3>1. PICK j \in Of(u) : j < i + 1 /\ wire[j].kind = "accept" BY <1>0, <2>1, <2>3 DEF WireInv
    <3>2. j # 1 BY <2>3, <3>1
    <3>3. j - 1 < i BY <3>1, <1>1, <1>3
    <3>. QED BY <1>2, <3>1, <3>2, <3>3
  <2>. QED BY <1>0, <2>1, <2>2, <2>3 DEF WireInv
<1>5. ASSUME turn'[u].pc = "asked", work'[u] \in {"running", "answered"}
      PROVE  \E j \in Of(u)' : wire'[j].kind = "accept"
  <2>1. PICK j \in Of(u) : wire[j].kind = "accept" BY <1>0, <1>5 DEF WireInv
  <2>2. j # 1 BY <1>5, <2>1
  <2>. QED BY <1>2, <2>1, <2>2
<1>6. ASSUME NEW i \in Of(u)', NEW j \in Of(u)', i < j
      PROVE  wire'[i].kind \in {"accept", "item"} /\ wire'[j].kind \notin Responses
  <2>1. i + 1 < j + 1 BY <1>3, <1>6
  <2>. QED BY <1>0, <1>1, <1>3, <2>1 DEF WireInv
<1>7. work'[u] \in {"no", "sent"} => Of(u)' = {} BY <1>0, <1>1 DEF WireInv
<1>8. 1 \in Of(u) /\ wire[1].kind \notin {"accept", "item"} => Of(u)' = {} BY <1>0, <1>3 DEF WireInv
<1>9. WireInv(u)' BY <1>4, <1>5, <1>6, <1>7 DEF WireInv
<1>. QED BY <1>1, <1>8, <1>9

\* A turn that nobody looks at is as it was.
LEMMA TurnStays ==
  ASSUME NEW u \in Turns, TurnInv(u), turn'[u] = turn[u], work'[u] = work[u], Of(u) = {} => Of(u)' = {},
         process' = process \/ process' = "crashed", server' = server \/ server' = "gone",
         Answered!InPlay(u) => turn[u].thread \in active'
  PROVE  TurnInv(u)'
BY DEF TurnInv, Answered!InPlay

\* A turn comes to its end.
LEMMA TurnEnds ==
  ASSUME TransportInv, TransportTyped', NEW t \in Turns, Answered!InPlay(t),
         NEW outcome \in Answered!Outcomes \ {"REFUSED"},
         turn'[t].pc = "over", turn'[t].outcome = outcome, turn'[t].thread = turn[t].thread, work' = work,
         \A u \in Turns \ {t} : turn'[u] = turn[u],
         active' = active \ {turn[t].thread}, process' = process \/ process' = "crashed", server' = server,
         outcome \in {"FAILED", "STALE"} => work[t] = "refused",
         outcome = "COMPLETED" => work[t] = "ran" /\ Of(t)' = {} /\ turn'[t].text \in {None, t},
         \A u \in Turns : WireInv(u)' /\ (Of(u) = {} => Of(u)' = {})
  PROVE  TransportInv'
<1>1. outcome # None BY NoTurn
<1>2. \A u \in Turns : Answered!InPlay(u)' <=> Answered!InPlay(u) /\ u # t BY DEF Answered!InPlay
<1>3. \A u \in Turns \ {t} : Answered!InPlay(u) => turn[u].thread # turn[t].thread BY OneInPlay
<1>4. TurnInv(t)' BY <1>1 DEF TurnInv, Answered!InPlay
<1>5. ASSUME NEW u \in Turns \ {t} PROVE TurnInv(u)'
  <2>1. Answered!InPlay(u) => turn[u].thread \in active' BY <1>3 DEF TransportInv, TurnInv
  <2>2. TurnInv(u) BY DEF TransportInv
  <2>. QED BY <2>1, <2>2, TurnStays
<1>6. ASSUME NEW u \in Turns PROVE Alone(u)'
  <2>. SUFFICES ASSUME NEW v \in Turns, Answered!InPlay(u)', v # u, turn'[v].thread = turn'[u].thread
                PROVE turn'[v].outcome \in {"COMPLETED", "REFUSED"}
    BY DEF Alone
  <2>1. u # t /\ v # t BY <1>2, <1>3
  <2>. QED BY <1>2, <2>1 DEF TransportInv, Alone
<1>7. Taken' BY <1>2, <1>3 DEF TransportInv, Taken
<1>. QED BY <1>4, <1>5, <1>6, <1>7 DEF TransportInv

\* What the client does with the message it reads keeps the invariant.
LEMMA TransportRead ==
  ASSUME TransportInv, Answered!Read
  PROVE  TransportInv'
<1>. DEFINE m == wire[1]
<1>0. TransportTyped /\ Taken /\ (\A u \in Turns : WireInv(u) /\ TurnInv(u) /\ Alone(u)) BY DEF TransportInv
<1>1. /\ process = "up" /\ wire # <<>> /\ wire' = Tail(wire) /\ server' = server /\ work' = work
      /\ \/ m.kind \in Responses /\ Answered!ReadsResponse(m) /\ UNCHANGED process
         \/ m.kind = "item" /\ Answered!ReadsItem(m) /\ UNCHANGED process
         \/ m.kind = "completed" /\ Answered!Settle(m.thread, "COMPLETED") /\ UNCHANGED process
         \/ m.kind = "error" /\ Answered!Settle(m.thread, "UNCERTAIN") /\ Answered!ReadsError(m)
  <2>1. Head(wire) = m BY <1>0 DEF Answered!Read, TransportTyped
  <2>. QED BY <2>1 DEF Answered!Read, Responses
<1>2. /\ wire' \in Seq(Messages) /\ 1 \in DOMAIN wire /\ m \in Messages
      /\ \A u \in Turns : 1 \in Of(u) <=> m.of = u
  BY <1>0, <1>1, Tailed DEF TransportTyped, Of
<1>. HIDE DEF m
<1>3. m.kind # "error" => m.of \in Turns BY <1>2 DEF Messages, Responses
<1>. DEFINE t == m.of
<1>4. m.kind # "error" => 1 \in Of(t) /\ m.thread = turn[t].thread BY <1>0, <1>2, <1>3 DEF WireInv, m
<1>5. m.kind # "error" => Answered!OnThread(m.thread) = IF Answered!InPlay(t) THEN {t} ELSE {}
  <2>1. m.kind # "error" => \A u \in Answered!OnThread(m.thread) : u = t BY <1>1, <1>3, Recipient DEF m
  <2>. QED BY <1>3, <1>4, <2>1 DEF Answered!OnThread
\* A message that changes nothing.
<1>6. ASSUME turn' = turn, active' = active, process' = process,
             \A u \in Turns : 1 \in Of(u) /\ m.kind = "accept" => turn[u].pc # "asked"
      PROVE  TransportInv'
  <2>1. TransportTyped' BY <1>0, <1>1, <1>2, <1>6 DEF TransportTyped
  <2>2. ASSUME NEW u \in Turns PROVE WireInv(u)' /\ TurnInv(u)' /\ Alone(u)'
    <3>1. WireInv(u)' /\ (Of(u) = {} => Of(u)' = {}) BY <1>1, <1>6, WireRead DEF m
    <3>2. TurnInv(u)' BY <1>0, <1>1, <1>6, <3>1, TurnStays DEF TurnInv
    <3>3. Alone(u)' BY <1>0, <1>6 DEF Alone, Answered!InPlay
    <3>. QED BY <3>1, <3>2, <3>3
  <2>3. Taken' BY <1>0, <1>6 DEF Taken, Answered!InPlay
  <2>. QED BY <2>1, <2>2, <2>3 DEF TransportInv
\* A message that ends its turn.
<1>7. ASSUME NEW u \in Turns, Answered!InPlay(u), turn' \in [Turns -> Turned],
             \A v \in Turns \ {u} : turn'[v] = turn[v],
             turn'[u].pc = "over", turn'[u].outcome \in Answered!Outcomes \ {"REFUSED"},
             turn'[u].thread = turn[u].thread,
             active' = active \ {turn[u].thread}, process' = process \/ process' = "crashed",
             m.kind = "accept" => m.of = u,
             turn'[u].outcome \in {"FAILED", "STALE"} => work[u] = "refused",
             turn'[u].outcome = "COMPLETED" =>
               work[u] = "ran" /\ 1 \in Of(u) /\ m.kind \notin {"accept", "item"} /\ turn'[u].text \in {None, u}
      PROVE  TransportInv'
  <2>2. TransportTyped' BY <1>0, <1>1, <1>2, <1>7 DEF TransportTyped
  <2>3. ASSUME NEW v \in Turns
        PROVE  /\ WireInv(v)'
               /\ Of(v) = {} => Of(v)' = {}
               /\ 1 \in Of(v) /\ m.kind \notin {"accept", "item"} => Of(v)' = {}
    <3>1. turn'[v].thread = turn[v].thread /\ turn'[v].pc \in {turn[v].pc, "over"} BY <1>7
    <3>2. 1 \in Of(v) /\ m.kind = "accept" => turn'[v].pc # "asked" BY <1>2, <1>7
    <3>. QED BY <1>1, <3>1, <3>2, WireRead DEF m
  <2>4. turn'[u].outcome = "COMPLETED" => Of(u)' = {} BY <1>7, <2>3
  <2>. QED BY <1>1, <1>7, <2>2, <2>3, <2>4, TurnEnds
\* The response.
<1>8. CASE m.kind \in Responses /\ Answered!ReadsResponse(m) /\ UNCHANGED process
  <2>1. t \in Turns /\ 1 \in Of(t) /\ m.thread = turn[t].thread BY <1>3, <1>4, <1>8 DEF Responses
  <2>2. CASE turn[t].pc # "asked"
    <3>1. turn' = turn /\ active' = active BY <1>8, <2>2 DEF Answered!ReadsResponse
    <3>. QED BY <1>2, <1>6, <1>8, <2>2, <3>1
  <2>3. CASE turn[t].pc = "asked"
    <3>1. Answered!InPlay(t) /\ turn[t].settled = None BY <1>0, <1>1, <2>1, <2>3 DEF Answered!InPlay, TurnInv
    <3>2. WireInv(t) /\ TurnInv(t) /\ turn[t] \in Turned BY <1>0, <2>1 DEF TransportTyped
    <3>3. CASE m.kind \in {"reject", "stale"}
      <4>1. PICK outcome \in {"FAILED", "STALE"} : Answered!Ends(t, outcome)
        BY <1>8, <2>3, <3>3 DEF Answered!ReadsResponse
      <4>2. work[t] = "refused" BY <2>1, <3>2, <3>3 DEF WireInv, m
      <4>3. turn' = [turn EXCEPT ![t] = [turn[t] EXCEPT !.pc = "over", !.outcome = outcome]]
            /\ active' = active \ {turn[t].thread}
        BY <4>1 DEF Answered!Ends, Answered!Over
      <4>4. /\ turn' \in [Turns -> Turned] /\ \A v \in Turns \ {t} : turn'[v] = turn[v]
            /\ turn'[t].pc = "over" /\ turn'[t].outcome = outcome /\ turn'[t].thread = turn[t].thread
        <5>1. PICK y : y = [turn[t] EXCEPT !.pc = "over", !.outcome = outcome] OBVIOUS
        <5>2. outcome \in Answered!Outcomes BY DEF Answered!Outcomes
        <5>3. y \in Turned /\ y.pc = "over" /\ y.outcome = outcome /\ y.thread = turn[t].thread
          BY <3>2, <5>1, <5>2, TurnIsOver
        <5>4. turn' = [turn EXCEPT ![t] = y] BY <4>3, <5>1
        <5>. QED BY <1>0, <2>1, <5>3, <5>4, OneTurn
      <4>. QED BY <1>7, <1>8, <2>1, <3>1, <3>3, <4>2, <4>3, <4>4 DEF Answered!Outcomes
    <3>4. CASE m.kind = "inline"
      <4>. DEFINE text == IF turn[t].text = None THEN t ELSE turn[t].text
      <4>1. /\ turn' = [turn EXCEPT ![t] = [Answered!Over(t, "COMPLETED") EXCEPT !.text = text]]
            /\ active' = active \ {turn[t].thread}
        BY <1>8, <2>1, <2>3, <3>1, <3>4 DEF Answered!ReadsResponse
      <4>2. work[t] = "ran" BY <2>1, <3>2, <3>4 DEF WireInv, m
      <4>3. text \in {None, t} /\ text \in Turns \cup {None} BY <2>1, <3>1, <3>2 DEF TurnInv
      <4>. HIDE DEF text
      <4>4. /\ turn' \in [Turns -> Turned] /\ \A v \in Turns \ {t} : turn'[v] = turn[v]
            /\ turn'[t].pc = "over" /\ turn'[t].outcome = "COMPLETED" /\ turn'[t].thread = turn[t].thread
            /\ turn'[t].text = text
        <5>1. PICK x : x = Answered!Over(t, "COMPLETED") OBVIOUS
        <5>2. "COMPLETED" \in Answered!Outcomes BY DEF Answered!Outcomes
        <5>3. x \in Turned /\ x.pc = "over" /\ x.outcome = "COMPLETED" /\ x.thread = turn[t].thread
          BY <3>2, <5>1, <5>2, TurnIsOver DEF Answered!Over
        <5>4. PICK y : y = [x EXCEPT !.text = text] OBVIOUS
        <5>5. /\ y \in Turned /\ y.pc = "over" /\ y.outcome = "COMPLETED" /\ y.thread = turn[t].thread
              /\ y.text = text
          BY <4>3, <5>3, <5>4 DEF Turned
        <5>6. turn' = [turn EXCEPT ![t] = y] BY <4>1, <5>1, <5>4
        <5>. QED BY <1>0, <2>1, <5>5, <5>6, OneTurn
      <4>. QED BY <1>7, <1>8, <2>1, <3>1, <3>4, <4>1, <4>2, <4>3, <4>4 DEF Answered!Outcomes
    <3>5. CASE m.kind = "accept"
      <4>1. turn' = [turn EXCEPT ![t].pc = "accepted"] /\ active' = active
        BY <1>8, <2>3, <3>1, <3>5 DEF Answered!ReadsResponse
      <4>2. /\ turn' \in [Turns -> Turned] /\ (\A u \in Turns \ {t} : turn'[u] = turn[u])
            /\ turn'[t] = [turn[t] EXCEPT !.pc = "accepted"]
            /\ turn'[t].pc = "accepted" /\ turn'[t].thread = turn[t].thread /\ turn'[t].outcome = turn[t].outcome
            /\ turn'[t].text = turn[t].text
        <5>1. PICK y : y = [turn[t] EXCEPT !.pc = "accepted"] OBVIOUS
        <5>2. /\ y \in Turned /\ y.pc = "accepted" /\ y.thread = turn[t].thread /\ y.outcome = turn[t].outcome
              /\ y.text = turn[t].text
          BY <3>2, <5>1 DEF Turned
        <5>3. turn' = [turn EXCEPT ![t] = y] BY <4>1, <5>1
        <5>. QED BY <1>0, <2>1, <5>1, <5>2, <5>3, OneTurn
      <4>3. ASSUME NEW u \in Turns PROVE WireInv(u)' /\ (Of(u) = {} => Of(u)' = {})
        <5>1. 1 \in Of(u) /\ m.kind = "accept" => turn'[u].pc # "asked" BY <1>2, <4>2
        <5>2. turn'[u].thread = turn[u].thread BY <4>2
        <5>3. \/ turn'[u].pc \in {turn[u].pc, "over"}
              \/ turn'[u].pc = "accepted" /\ 1 \in Of(u) /\ turn[u].pc = "asked"
          BY <2>1, <2>3, <4>2
        <5>. QED BY <1>1, <5>1, <5>2, <5>3, WireRead DEF m
      <4>4. work[t] \in {"running", "answered", "ran"} BY <2>1, <3>2, <3>5 DEF WireInv, m
      <4>5. \A u \in Turns : Answered!InPlay(u)' <=> Answered!InPlay(u) BY <2>3, <4>2 DEF Answered!InPlay
      <4>0. PICK c \in Turns : c = t BY <2>1
      <4>6. TurnInv(c)' BY <4>0, <1>1, <2>1, <2>3, <3>1, <3>2, <4>1, <4>2, <4>4, <4>5, NoTurn DEF TurnInv
      <4>7. ASSUME NEW u \in Turns \ {t} PROVE TurnInv(u)'
        BY <1>0, <1>1, <1>8, <4>1, <4>2, <4>3, TurnStays DEF TurnInv
      <4>8. ASSUME NEW u \in Turns PROVE Alone(u)'
        <5>1. \A v \in Turns : turn'[v].thread = turn[v].thread /\ turn'[v].outcome = turn[v].outcome BY <4>2
        <5>. QED BY <1>0, <4>5, <5>1 DEF Alone
      <4>9. Taken' 
        <5>1. \A v \in Turns : turn'[v].thread = turn[v].thread BY <4>2
        <5>. QED BY <1>0, <4>1, <4>5, <5>1 DEF Taken
      <4>10. TransportTyped' BY <1>0, <1>1, <1>2, <1>8, <4>2 DEF TransportTyped
      <4>11. \A u \in Turns : TurnInv(u)' BY <4>0, <4>6, <4>7
      <4>. QED BY <4>3, <4>8, <4>9, <4>10, <4>11 DEF TransportInv
    <3>. QED BY <1>8, <3>3, <3>4, <3>5 DEF Responses
  <2>. QED BY <2>2, <2>3
\* The answer.
<1>9. CASE m.kind = "item" /\ Answered!ReadsItem(m) /\ UNCHANGED process
  <2>1. t \in Turns /\ 1 \in Of(t) BY <1>3, <1>4, <1>9
  <2>2. /\ turn' = [u \in Turns |-> IF u = t /\ Answered!InPlay(t) THEN [turn[u] EXCEPT !.text = t] ELSE turn[u]]
        /\ active' = active
    BY <1>5, <1>9 DEF Answered!ReadsItem
  <2>3. /\ turn' \in [Turns -> Turned]
        /\ \A u \in Turns : /\ turn'[u].pc = turn[u].pc /\ turn'[u].thread = turn[u].thread
                            /\ turn'[u].outcome = turn[u].outcome /\ turn'[u].settled = turn[u].settled
                            /\ turn'[u].text \in {turn[u].text, u}
                            /\ turn'[u].text # turn[u].text => Answered!InPlay(u)
    BY <1>0, <2>1, <2>2 DEF TransportTyped, Turned
  <2>4. ASSUME NEW u \in Turns PROVE WireInv(u)' /\ (Of(u) = {} => Of(u)' = {})
    BY <1>1, <1>9, <2>3, WireRead DEF m
  <2>5. \A u \in Turns : Answered!InPlay(u)' <=> Answered!InPlay(u) BY <2>3 DEF Answered!InPlay
  <2>6. ASSUME NEW u \in Turns PROVE TurnInv(u)'
    <3>1. TurnInv(u) BY <1>0
    <3>. QED BY <1>1, <1>9, <2>2, <2>3, <2>4, <2>5, <3>1 DEF TurnInv
  <2>7. ASSUME NEW u \in Turns PROVE Alone(u)' BY <1>0, <2>3, <2>5 DEF Alone
  <2>8. Taken' BY <1>0, <2>2, <2>3, <2>5 DEF Taken
  <2>9. TransportTyped' BY <1>0, <1>1, <1>2, <1>9, <2>3 DEF TransportTyped
  <2>. QED BY <2>4, <2>6, <2>7, <2>8, <2>9 DEF TransportInv
\* The end of the turn.
<1>10. CASE m.kind = "completed" /\ Answered!Settle(m.thread, "COMPLETED") /\ UNCHANGED process
  <2>1. t \in Turns /\ 1 \in Of(t) /\ m.thread = turn[t].thread BY <1>3, <1>4, <1>10
  <2>2. work[t] = "ran" /\ turn[t].pc # "asked"
    <3>1. \A j \in Of(t) : ~ (j < 1) BY <1>0, <1>1, <2>1, Tailed DEF TransportTyped
    <3>. QED BY <1>0, <1>10, <2>1, <3>1 DEF WireInv, m, Responses
  <2>3. CASE Answered!InPlay(t)
    <3>1. turn[t].pc = "accepted" /\ Answered!OnThread(m.thread) = {t} BY <1>5, <1>10, <2>2, <2>3 DEF Answered!InPlay
    <3>2. active' = active \ {turn[t].thread} BY <1>10, <2>1, <3>1 DEF Answered!Settle
    <3>3. /\ turn' \in [Turns -> Turned]
          /\ \A u \in Turns \ {t} : turn'[u] = turn[u]
          /\ turn'[t] = [turn[t] EXCEPT !.pc = "over", !.outcome = "COMPLETED"]
      <4>1. \A u \in Turns : turn[u] \in Turned BY <1>0 DEF TransportTyped
      <4>2. turn' = [u \in Turns |-> IF u = t THEN [turn[u] EXCEPT !.pc = "over", !.outcome = "COMPLETED"] ELSE turn[u]]
        BY <1>10, <3>1 DEF Answered!Settle, Answered!Over
      <4>3. PICK y : y = [turn[t] EXCEPT !.pc = "over", !.outcome = "COMPLETED"] OBVIOUS
      <4>4. "COMPLETED" \in Answered!Outcomes BY DEF Answered!Outcomes
      <4>5. y \in Turned BY <2>1, <4>1, <4>3, <4>4, TurnIsOver
      <4>6. turn' = [u \in Turns |-> IF u = t THEN y ELSE turn[u]] BY <2>1, <4>2, <4>3
      <4>. QED BY <2>1, <4>1, <4>3, <4>5, <4>6
    <3>4. /\ turn'[t].pc = "over" /\ turn'[t].outcome = "COMPLETED" /\ turn'[t].thread = turn[t].thread
          /\ turn'[t].text = turn[t].text
      BY <1>0, <2>1, <3>3 DEF TransportTyped, Turned
    <3>5. turn[t].text \in {None, t} BY <1>0, <2>1, <2>3 DEF TurnInv
    <3>. QED BY <1>7, <1>10, <2>1, <2>2, <2>3, <3>2, <3>3, <3>4, <3>5 DEF Answered!Outcomes
  <2>4. CASE ~Answered!InPlay(t)
    <3>1. Answered!OnThread(m.thread) = {} BY <1>5, <1>10, <2>4
    <3>2. turn' = turn /\ active' = active
      BY <1>0, <1>10, <3>1 DEF Answered!Settle, TransportTyped
    <3>. QED BY <1>6, <1>10, <3>2
  <2>. QED BY <2>3, <2>4
\* An error, of which the server does not say whose it is.
<1>11. CASE m.kind = "error" /\ Answered!Settle(m.thread, "UNCERTAIN") /\ Answered!ReadsError(m)
  <2>1. process' = process \/ process' = "crashed" BY <1>11 DEF Answered!ReadsError
  <2>2. CASE Answered!OnThread(m.thread) = {}
    <3>1. turn' = turn /\ active' = active /\ process' = process
      BY <1>0, <1>11, <2>2 DEF Answered!Settle, TransportTyped, Answered!ReadsError
    <3>. QED BY <1>6, <1>11, <3>1
  <2>3. ASSUME NEW u \in Answered!OnThread(m.thread) PROVE TransportInv'
    <3>1. u \in Turns /\ Answered!InPlay(u) /\ turn[u].thread = m.thread /\ turn[u] \in Turned
      BY <1>0, <2>3 DEF Answered!OnThread, TransportTyped
    <3>2. Answered!OnThread(m.thread) = {u}
      <4>1. \A v \in Answered!OnThread(m.thread) : v = u BY <3>1, OneInPlay DEF Answered!OnThread
      <4>. QED BY <2>3, <4>1
    <3>3. CASE turn[u].pc = "accepted"
      <4>1. active' = active \ {turn[u].thread} BY <1>11, <3>1, <3>2, <3>3 DEF Answered!Settle
      <4>2. turn' = [v \in Turns |-> IF v = u THEN [turn[v] EXCEPT !.pc = "over", !.outcome = "UNCERTAIN"] ELSE turn[v]]
        BY <1>11, <3>2, <3>3 DEF Answered!Settle, Answered!Over
      <4>3. /\ turn' \in [Turns -> Turned] /\ \A v \in Turns \ {u} : turn'[v] = turn[v]
            /\ turn'[u].pc = "over" /\ turn'[u].outcome = "UNCERTAIN" /\ turn'[u].thread = turn[u].thread
        BY <1>0, <3>1, <4>2 DEF TransportTyped, Turned, Answered!Outcomes
      <4>. QED BY <1>7, <1>11, <2>1, <3>1, <4>1, <4>3 DEF Answered!Outcomes
    <3>4. CASE turn[u].pc = "asked"
      <4>1. turn[u].settled = None BY <1>0, <1>1, <3>1, <3>4 DEF TurnInv
      <4>2. process' = "crashed" /\ active' = active
        BY <1>11, <3>1, <3>2, <3>4, <4>1 DEF Answered!Settle, Answered!ReadsError, Answered!Unhandled
      <4>3. turn' = [v \in Turns |-> IF v = u THEN [turn[v] EXCEPT !.settled = "UNCERTAIN"] ELSE turn[v]]
        <5>1. turn' = [v \in Turns |-> CASE v \notin {u} -> turn[v]
                                         [] v \in {u} /\ turn[v].pc = "accepted" -> Answered!Over(v, "UNCERTAIN")
                                         [] OTHER ->
                                              [turn[v] EXCEPT !.settled = IF turn[v].settled = None THEN "UNCERTAIN"
                                                                          ELSE turn[v].settled]]
          BY <1>11, <3>2 DEF Answered!Settle
        <5>. QED BY <3>4, <4>1, <5>1
      <4>4. /\ turn' \in [Turns -> Turned]
            /\ \A v \in Turns : /\ turn'[v].pc = turn[v].pc /\ turn'[v].thread = turn[v].thread
                                /\ turn'[v].outcome = turn[v].outcome /\ turn'[v].text = turn[v].text
        BY <1>0, <4>3 DEF TransportTyped, Turned, Answered!Outcomes
      <4>5. ASSUME NEW v \in Turns PROVE WireInv(v)' /\ (Of(v) = {} => Of(v)' = {})
        BY <1>1, <1>11, <4>4, WireRead DEF m
      <4>6. \A v \in Turns : Answered!InPlay(v)' <=> Answered!InPlay(v) BY <4>4 DEF Answered!InPlay
      <4>7. ASSUME NEW v \in Turns PROVE TurnInv(v)'
        <5>1. TurnInv(v) BY <1>0
        <5>. QED BY <1>1, <4>2, <4>4, <4>5, <4>6, <5>1 DEF TurnInv
      <4>8. ASSUME NEW v \in Turns PROVE Alone(v)' BY <1>0, <4>4, <4>6 DEF Alone
      <4>9. Taken' BY <1>0, <4>2, <4>4, <4>6 DEF Taken
      <4>10. TransportTyped' BY <1>0, <1>1, <1>2, <4>2, <4>4 DEF TransportTyped
      <4>. QED BY <4>5, <4>7, <4>8, <4>9, <4>10 DEF TransportInv
    <3>. QED BY <3>1, <3>3, <3>4 DEF Answered!InPlay
  <2>. QED BY <2>2, <2>3
<1>. QED BY <1>1, <1>8, <1>9, <1>10, <1>11

\* A turn that is asked for, or that ends by a timer, and nothing is written or read.
LEMMA TransportAsks ==
  ASSUME TransportInv, NEW t \in Turns, Answered!Ask(t)
  PROVE  TransportInv'
<1>0. TransportTyped /\ Taken /\ (\A u \in Turns : WireInv(u) /\ TurnInv(u) /\ Alone(u)) BY DEF TransportInv
<1>1. PICK th \in Threads :
        /\ Answered!Usable(th)
        /\ \/ /\ th \in active
              /\ turn' = [turn EXCEPT ![t] = [Answered!Unasked EXCEPT !.thread = th, !.pc = "over",
                                              !.outcome = "REFUSED"]]
              /\ UNCHANGED <<active, work>>
           \/ /\ th \notin active /\ server = "gone"
              /\ turn' = [turn EXCEPT ![t] = [Answered!Unasked EXCEPT !.thread = th, !.pc = "over",
                                              !.outcome = "FAILED"]]
              /\ UNCHANGED <<active, work>>
           \/ /\ th \notin active /\ server = "up"
              /\ turn' = [turn EXCEPT ![t] = [Answered!Unasked EXCEPT !.thread = th, !.pc = "asked"]]
              /\ active' = active \cup {th} /\ work' = [work EXCEPT ![t] = "sent"]
  BY <1>0 DEF Answered!Ask, Answered!Door, TransportTyped
<1>2. process = "up" /\ turn[t].pc = "idle" /\ UNCHANGED <<server, process, wire>> BY DEF Answered!Ask
<1>3. turn[t].thread = None /\ work[t] = "no" /\ Of(t) = {} /\ th # None
  BY <1>0, <1>2, NoTurn DEF TurnInv, WireInv
<1>4. /\ TransportTyped' /\ (\A u \in Turns \ {t} : turn'[u] = turn[u] /\ work'[u] = work[u])
      /\ turn'[t].thread = th /\ turn'[t].text = None /\ turn'[t].settled = None
      /\ turn'[t].pc \in {"asked", "over"}
      /\ turn'[t].pc = "over" => work'[t] = "no"
      /\ \/ turn'[t].outcome = "REFUSED" /\ th \in active
         \/ turn'[t].outcome = "FAILED" /\ server' = "gone" /\ th \notin active
         \/ turn'[t].outcome = None
      /\ turn'[t].pc = "asked" => turn'[t].outcome = None /\ work'[t] = "sent" /\ th \in active' /\ th \notin active
      /\ active \subseteq active' /\ active' \subseteq active \cup {th}
      /\ turn'[t].pc = "over" => active' = active /\ turn'[t].outcome # None
  <2>1. CASE th \in active
    <3>1. turn' = [turn EXCEPT ![t] = [thread |-> th, pc |-> "over", text |-> None, settled |-> None,
                                       outcome |-> "REFUSED"]]
      BY <1>1, <2>1 DEF Answered!Unasked
    <3>. QED BY <1>0, <1>1, <1>2, <1>3, <2>1, <3>1, NoTurn DEF TransportTyped, Turned, Answered!Outcomes
  <2>2. CASE th \notin active /\ server = "gone"
    <3>1. turn' = [turn EXCEPT ![t] = [thread |-> th, pc |-> "over", text |-> None, settled |-> None,
                                       outcome |-> "FAILED"]]
      BY <1>1, <2>2 DEF Answered!Unasked
    <3>. QED BY <1>0, <1>1, <1>2, <1>3, <2>2, <3>1, NoTurn DEF TransportTyped, Turned, Answered!Outcomes
  <2>3. CASE th \notin active /\ server = "up"
    <3>1. turn' = [turn EXCEPT ![t] = [thread |-> th, pc |-> "asked", text |-> None, settled |-> None,
                                       outcome |-> None]]
      BY <1>1, <2>3 DEF Answered!Unasked
    <3>. QED BY <1>0, <1>1, <1>2, <2>3, <3>1 DEF TransportTyped, Turned, Answered!Outcomes
  <2>. QED BY <1>0, <2>1, <2>2, <2>3 DEF TransportTyped
<1>5. \A u \in Turns : Of(u)' = Of(u) BY <1>2 DEF Of
<1>6. ASSUME NEW u \in Turns PROVE WireInv(u)' /\ TurnInv(u)'
  <2>1. CASE u = t
    <3>1. WireInv(u)' BY <1>2, <1>3, <1>4, <1>5, <2>1 DEF WireInv
    <3>2. TurnInv(u)' BY <1>2, <1>3, <1>4, <1>5, <2>1, NoTurn DEF TurnInv, Answered!InPlay, Answered!Outcomes
    <3>. QED BY <3>1, <3>2
  <2>2. CASE u # t
    <3>1. turn'[u] = turn[u] /\ work'[u] = work[u] BY <1>4, <2>2
    <3>2. WireInv(u)' BY <1>0, <1>2, <1>5, <3>1 DEF WireInv
    <3>3. Answered!InPlay(u) => turn[u].thread \in active' BY <1>0, <1>4 DEF TurnInv
    <3>4. TurnInv(u)' BY <1>0, <1>2, <1>5, <3>1, <3>3, TurnStays
    <3>. QED BY <3>2, <3>4
  <2>. QED BY <2>1, <2>2
<1>7. \A u \in Turns \ {t} : turn[u].thread = th /\ ~Answered!InPlay(u) => turn[u].outcome \in {"COMPLETED", "REFUSED"}
  <2>. SUFFICES ASSUME NEW u \in Turns \ {t}, turn[u].thread = th, ~Answered!InPlay(u)
                PROVE turn[u].outcome \in {"COMPLETED", "REFUSED"}
    OBVIOUS
  <2>1. TurnInv(u) /\ turn[u] \in Turned BY <1>0 DEF TransportTyped
  <2>2. turn[u].pc = "over" BY <1>3, <2>1 DEF TurnInv, Turned, Answered!InPlay
  <2>. QED BY <1>1, <2>1, <2>2 DEF TurnInv, Answered!Usable
<1>8. ASSUME NEW u \in Turns PROVE Alone(u)'
  <2>. SUFFICES ASSUME NEW v \in Turns, Answered!InPlay(u)', v # u, turn'[v].thread = turn'[u].thread
                PROVE turn'[v].outcome \in {"COMPLETED", "REFUSED"}
    BY DEF Alone
  <2>1. CASE u = t
    <3>1. turn'[t].pc = "asked" BY <1>4, <2>1 DEF Answered!InPlay
    <3>2. turn'[v] = turn[v] /\ turn[v].thread = th BY <1>4, <2>1
    <3>3. ~Answered!InPlay(v) BY <1>0, <1>4, <3>1, <3>2 DEF TurnInv
    <3>. QED BY <1>7, <2>1, <3>2, <3>3
  <2>2. CASE u # t /\ v = t
    <3>1. Answered!InPlay(u) /\ turn[u].thread = th BY <1>4, <2>2 DEF Answered!InPlay
    <3>2. th \in active BY <1>0, <3>1 DEF TurnInv
    <3>. QED BY <1>4, <2>2, <3>2
  <2>3. CASE u # t /\ v # t BY <1>0, <1>4, <2>3 DEF Alone, Answered!InPlay
  <2>. QED BY <2>1, <2>2, <2>3
<1>9. Taken'
  <2>. SUFFICES ASSUME NEW a \in active' PROVE \E u \in Turns : Answered!InPlay(u)' /\ turn'[u].thread = a
    BY DEF Taken
  <2>1. CASE a \in active
    <3>1. PICK u \in Turns : Answered!InPlay(u) /\ turn[u].thread = a BY <1>0, <2>1 DEF Taken
    <3>2. u # t BY <1>2, <3>1 DEF Answered!InPlay
    <3>. QED BY <1>4, <3>1, <3>2 DEF Answered!InPlay
  <2>2. CASE a \notin active BY <1>4, <2>2 DEF Answered!InPlay
  <2>. QED BY <2>1, <2>2
<1>. QED BY <1>4, <1>6, <1>8, <1>9 DEF TransportInv

\* A client that gives up on its server keeps the invariant.
LEMMA TransportGivesUp ==
  ASSUME TransportInv, NEW t \in Turns, Answered!Timers(t)
  PROVE  TransportInv'
<1>0. TransportTyped /\ (\A u \in Turns : WireInv(u) /\ TurnInv(u)) BY DEF TransportInv
<1>1. /\ Answered!InPlay(t) /\ UNCHANGED <<server, process, work, wire>>
      /\ turn' = [turn EXCEPT ![t] = [turn[t] EXCEPT !.pc = "over", !.outcome = "UNCERTAIN"]]
      /\ active' = active \ {turn[t].thread}
  BY DEF Answered!Timers, Answered!RequestTimesOut, Answered!TurnTimesOut, Answered!Ends, Answered!Over,
         Answered!TimedOut, Answered!InPlay
<1>2. /\ turn' \in [Turns -> Turned] /\ \A u \in Turns \ {t} : turn'[u] = turn[u]
      /\ turn'[t].pc = "over" /\ turn'[t].outcome = "UNCERTAIN" /\ turn'[t].thread = turn[t].thread
  <2>1. PICK y : y = [turn[t] EXCEPT !.pc = "over", !.outcome = "UNCERTAIN"] OBVIOUS
  <2>2. turn[t] \in Turned /\ "UNCERTAIN" \in Answered!Outcomes BY <1>0 DEF TransportTyped, Answered!Outcomes
  <2>3. y \in Turned /\ y.pc = "over" /\ y.outcome = "UNCERTAIN" /\ y.thread = turn[t].thread
    BY <2>1, <2>2, TurnIsOver
  <2>4. turn' = [turn EXCEPT ![t] = y] BY <1>1, <2>1
  <2>. QED BY <1>0, <2>3, <2>4, OneTurn
<1>3. TransportTyped' BY <1>0, <1>1, <1>2 DEF TransportTyped
<1>4. \A u \in Turns : Of(u)' = Of(u) BY <1>1 DEF Of
<1>5. ASSUME NEW u \in Turns PROVE WireInv(u)'
  <2>1. turn'[u].thread = turn[u].thread /\ turn'[u].pc \in {turn[u].pc, "over"} BY <1>2
  <2>. QED BY <1>0, <1>1, <1>4, <2>1 DEF WireInv
<1>. QED BY <1>1, <1>2, <1>3, <1>4, <1>5, TurnEnds DEF Answered!Outcomes

\* What is in the pipe when a message of a turn, or of another, has been written.
LEMMA WireWrite ==
  ASSUME TransportInv, NEW n \in Nat, NEW m \in Messages, wire'[n] = m, turn' = turn, NEW u \in Turns,
         Of(u)' = IF m.of = u THEN Of(u) \cup {n} ELSE Of(u),
         \A i \in Of(u) : i \in Nat /\ i < n /\ wire'[i] = wire[i],
         u = m.of =>
           /\ m.thread = turn[u].thread
           /\ \/ /\ work[u] = "sent"
                 /\ \/ m.kind \in {"reject", "stale"} /\ work'[u] = "refused"
                    \/ m.kind = "accept" /\ work'[u] = "running"
                    \/ m.kind = "inline" /\ work'[u] = "ran"
              \/ work[u] = "running" /\ m.kind = "item" /\ work'[u] = "answered"
              \/ work[u] \in {"running", "answered"} /\ m.kind = "completed" /\ work'[u] = "ran",
         u # m.of => work'[u] = work[u]
  PROVE  WireInv(u)'
<1>0. WireInv(u) /\ TurnInv(u) /\ TransportTyped BY DEF TransportInv
<1>1. CASE u # m.of BY <1>0, <1>1 DEF WireInv
<1>2. CASE u = m.of /\ work[u] = "sent"
  <2>1. Of(u)' = {n} /\ ~(n < n) BY <1>0, <1>2 DEF WireInv
  <2>2. turn[u].pc # "accepted" BY <1>0, <1>2 DEF TurnInv
  <2>. QED BY <1>2, <2>1, <2>2 DEF WireInv, Responses
<1>3. CASE u = m.of /\ work[u] \in {"running", "answered"}
  <2>1. m.kind \in {"item", "completed"} /\ work'[u] \in {"answered", "ran"} /\ m.thread = turn[u].thread
        /\ (m.kind = "completed" => work'[u] = "ran")
    BY <1>3
  <2>2. \A i \in Of(u) : wire[i].kind \in {"accept", "item"}
    <3>. SUFFICES ASSUME NEW i \in Of(u) PROVE wire[i].kind \in {"accept", "item"} OBVIOUS
    <3>1. wire[i] \in Messages /\ wire[i].of = u BY <1>0 DEF TransportTyped, Of
    <3>2. u # None BY NoTurn
    <3>3. wire[i].kind \in Responses \cup {"item", "completed"} BY <3>1, <3>2 DEF Messages
    <3>. QED BY <1>0, <1>3, <3>3 DEF WireInv, Responses
  <2>3. turn[u].pc = "asked" => \E j \in Of(u) : wire[j].kind = "accept" BY <1>0, <1>3 DEF WireInv
  <2>4. ASSUME NEW i \in Of(u)' PROVE
     /\ wire'[i].thread = turn'[u].thread
     /\ wire'[i].kind \in {"reject", "stale"} => work'[u] = "refused"
     /\ wire'[i].kind \in {"inline", "completed"} => work'[u] = "ran"
     /\ wire'[i].kind = "item" => work'[u] \in {"answered", "ran"}
     /\ wire'[i].kind = "accept" => work'[u] \in {"running", "answered", "ran"}
     /\ wire'[i].kind \in Responses => turn'[u].pc # "accepted"
     /\ turn'[u].pc = "asked" /\ wire'[i].kind \notin Responses =>
          \E j \in Of(u)' : j < i /\ wire'[j].kind = "accept"
    <3>1. CASE i = n BY <1>3, <2>1, <2>3, <3>1 DEF Responses
    <3>2. CASE i \in Of(u)
      <4>1. wire'[i] = wire[i] BY <1>3, <3>2
      <4>2. turn'[u].pc = "asked" /\ wire'[i].kind \notin Responses =>
              \E j \in Of(u)' : j < i /\ wire'[j].kind = "accept"
        BY <1>0, <1>3, <3>2, <4>1 DEF WireInv
      <4>. QED BY <1>0, <2>1, <2>2, <3>2, <4>1, <4>2 DEF WireInv
    <3>. QED BY <1>3, <3>1, <3>2
  <2>5. ASSUME NEW i \in Of(u)', NEW j \in Of(u)', i < j
        PROVE  wire'[i].kind \in {"accept", "item"} /\ wire'[j].kind \notin Responses
    <3>1. i \in Of(u) BY <1>3, <2>5
    <3>2. CASE j = n BY <1>3, <2>1, <2>2, <3>1, <3>2 DEF Responses
    <3>3. CASE j \in Of(u)
      <4>1. wire[j].kind \notin Responses BY <1>0, <2>5, <3>1, <3>3 DEF WireInv
      <4>. QED BY <1>3, <2>2, <3>1, <3>3, <4>1
    <3>. QED BY <1>3, <3>2, <3>3
  <2>6. turn'[u].pc = "asked" => \E j \in Of(u)' : wire'[j].kind = "accept" BY <1>3, <2>3
  <2>7. WireInv(u)' BY <2>1, <2>4, <2>5, <2>6 DEF WireInv
  <2>. QED BY <2>7
<1>. QED BY <1>1, <1>2, <1>3

\* What the server writes keeps the invariant, when it is right for the turn it is about.
LEMMA TransportWrites ==
  ASSUME TransportInv, NEW m \in Messages, wire' = Append(wire, m), UNCHANGED <<server, process, active, turn>>,
         \A u \in Turns : u # m.of => work'[u] = work[u],
         work' \in [Turns -> {"no", "sent", "refused", "running", "answered", "ran"}],
         m.of \in Turns =>
           /\ m.thread = turn[m.of].thread
           /\ \/ /\ work[m.of] = "sent"
                 /\ \/ m.kind \in {"reject", "stale"} /\ work'[m.of] = "refused"
                    \/ m.kind = "accept" /\ work'[m.of] = "running"
                    \/ m.kind = "inline" /\ work'[m.of] = "ran"
              \/ work[m.of] = "running" /\ m.kind = "item" /\ work'[m.of] = "answered"
              \/ work[m.of] \in {"running", "answered"} /\ m.kind = "completed" /\ work'[m.of] = "ran"
  PROVE  TransportInv'
<1>0. TransportTyped /\ Taken /\ (\A u \in Turns : WireInv(u) /\ TurnInv(u) /\ Alone(u)) BY DEF TransportInv
<1>1. PICK n : n = Len(wire) + 1 OBVIOUS
<1>2. /\ wire' \in Seq(Messages) /\ n \in Nat /\ wire'[n] = m
      /\ \A u \in Turns : Of(u)' = IF m.of = u THEN Of(u) \cup {n} ELSE Of(u)
      /\ \A u \in Turns : \A i \in Of(u) : i \in Nat /\ i < n /\ wire'[i] = wire[i]
  <2>1. wire \in Seq(Messages) BY <1>0 DEF TransportTyped
  <2>. HIDE DEF Messages, Of
  <2>2. /\ wire' \in Seq(Messages) /\ Len(wire) + 1 \in Nat /\ wire'[Len(wire) + 1] = m
        /\ \A u \in Turns : Of(u)' = IF m.of = u THEN Of(u) \cup {Len(wire) + 1} ELSE Of(u)
        /\ \A u \in Turns : \A i \in Of(u) : i \in Nat /\ i < Len(wire) + 1 /\ wire'[i] = wire[i]
    BY <2>1, Appended
  <2>. QED BY <1>1, <2>2
<1>3. TransportTyped' BY <1>0, <1>2 DEF TransportTyped
<1>4. Taken' BY <1>0 DEF Taken, Answered!InPlay
<1>5. ASSUME NEW u \in Turns PROVE WireInv(u)' /\ TurnInv(u)'
  <2>1. WireInv(u)'
    <3>1. /\ turn' = turn
          /\ u # m.of => work'[u] = work[u]
          /\ Of(u)' = IF m.of = u THEN Of(u) \cup {n} ELSE Of(u)
          /\ \A i \in Of(u) : i \in Nat /\ i < n /\ wire'[i] = wire[i]
      BY <1>2
    <3>2. u = m.of =>
           /\ m.thread = turn[u].thread
           /\ \/ /\ work[u] = "sent"
                 /\ \/ m.kind \in {"reject", "stale"} /\ work'[u] = "refused"
                    \/ m.kind = "accept" /\ work'[u] = "running"
                    \/ m.kind = "inline" /\ work'[u] = "ran"
              \/ work[u] = "running" /\ m.kind = "item" /\ work'[u] = "answered"
              \/ work[u] \in {"running", "answered"} /\ m.kind = "completed" /\ work'[u] = "ran"
      OBVIOUS
    <3>. QED BY <1>2, <3>1, <3>2, WireWrite
  <2>2. TurnInv(u)'
    <3>1. CASE u = m.of BY <1>0, <3>1 DEF TurnInv, Answered!InPlay
    <3>2. CASE u # m.of BY <1>0, <1>2, <3>2 DEF TurnInv, Answered!InPlay
    <3>. QED BY <3>1, <3>2
  <2>. QED BY <2>1, <2>2
<1>6. \A u \in Turns : Alone(u)' BY <1>0 DEF Alone, Answered!InPlay
<1>. QED BY <1>3, <1>4, <1>5, <1>6 DEF TransportInv

\* Every step of the client, of the server and of its complaints keeps the invariant.
LEMMA TransportStep == TransportInv /\ Answered!Next => TransportInv'
<1>. SUFFICES ASSUME TransportInv, Answered!Next PROVE TransportInv' OBVIOUS
<1>0. TransportTyped /\ (\A u \in Turns : WireInv(u) /\ TurnInv(u)) BY DEF TransportInv
<1>1. ASSUME NEW t \in Turns, Answered!Serve(t) PROVE TransportInv'
  <2>1. PICK from \in {"sent", "running", "answered"}, to \in {"refused", "running", "answered", "ran"},
             kind \in Responses \cup {"item", "completed"} :
          /\ Answered!Writes(t, from, to, kind)
          /\ \/ /\ from = "sent"
                /\ \/ kind \in {"reject", "stale"} /\ to = "refused"
                   \/ kind = "accept" /\ to = "running"
                   \/ kind = "inline" /\ to = "ran"
             \/ from = "running" /\ kind = "item" /\ to = "answered"
             \/ from \in {"running", "answered"} /\ kind = "completed" /\ to = "ran"
    BY <1>1 DEF Answered!Serve, Responses
  <2>2. PICK m : m = [kind |-> kind, of |-> t, thread |-> turn[t].thread] OBVIOUS
  <2>3. m \in Messages /\ m.of = t /\ m.kind = kind /\ m.thread = turn[t].thread
    BY <1>0, <2>2 DEF TransportTyped, Turned, Messages
  <2>4. /\ wire' = Append(wire, m) /\ UNCHANGED <<server, process, active, turn>> /\ work[t] = from
        /\ work' = [work EXCEPT ![t] = to]
    BY <2>1, <2>2 DEF Answered!Writes
  <2>5. /\ work' \in [Turns -> {"no", "sent", "refused", "running", "answered", "ran"}] /\ work'[t] = to
        /\ \A u \in Turns : u # t => work'[u] = work[u]
    BY <1>0, <2>1, <2>4 DEF TransportTyped
  <2>. QED BY <2>1, <2>3, <2>4, <2>5, TransportWrites
<1>2. CASE Answered!ServerErrors
  <2>1. PICK th \in Threads : wire' = Append(wire, [kind |-> "error", of |-> None, thread |-> th])
    BY <1>2 DEF Answered!ServerErrors
  <2>2. PICK m : m = [kind |-> "error", of |-> None, thread |-> th] OBVIOUS
  <2>3. m \in Messages /\ m.of \notin Turns BY <2>2, NoTurn DEF Messages
  <2>4. UNCHANGED <<server, process, active, turn, work>> BY <1>2 DEF Answered!ServerErrors
  <2>5. work' \in [Turns -> {"no", "sent", "refused", "running", "answered", "ran"}] BY <1>0, <2>4 DEF TransportTyped
  <2>. QED BY <2>1, <2>2, <2>3, <2>4, <2>5, TransportWrites
<1>3. CASE Answered!Exit
  <2>1. /\ server' = "gone" /\ active' = {} /\ UNCHANGED <<work, wire>>
        /\ process' = process \/ process' = "crashed"
    BY <1>3 DEF Answered!Exit
  <2>2. ASSUME NEW u \in Turns
        PROVE  /\ turn'[u] \in Turned /\ ~Answered!InPlay(u)' /\ turn'[u].thread = turn[u].thread
               /\ \/ ~Answered!InPlay(u) /\ turn'[u] = turn[u]
                  \/ Answered!InPlay(u) /\ turn'[u].pc = "over" /\ turn'[u].outcome \in {"FAILED", "UNCERTAIN"}
    <3>0. turn[u] \in Turned BY <1>0 DEF TransportTyped
    <3>1. CASE ~Answered!InPlay(u)
      <4>1. turn'[u] = turn[u] BY <1>3, <3>1 DEF Answered!Exit, Answered!InPlay
      <4>. QED BY <3>0, <3>1, <4>1 DEF Answered!InPlay
    <3>2. CASE Answered!InPlay(u)
      <4>1. PICK outcome \in {"FAILED", "UNCERTAIN"} :
              turn'[u] = [turn[u] EXCEPT !.pc = "over", !.outcome = outcome]
        BY <1>3, <3>2 DEF Answered!Exit, Answered!InPlay, Answered!Over
      <4>2. outcome \in Answered!Outcomes BY DEF Answered!Outcomes
      <4>3. PICK y : y = [turn[u] EXCEPT !.pc = "over", !.outcome = outcome] OBVIOUS
      <4>4. y \in Turned /\ y.pc = "over" /\ y.outcome = outcome /\ y.thread = turn[u].thread
        BY <3>0, <4>2, <4>3, TurnIsOver
      <4>. QED BY <3>2, <4>1, <4>3, <4>4 DEF Answered!InPlay
    <3>. QED BY <3>1, <3>2
  <2>3. TransportTyped'
    <3>1. turn' \in [Turns -> Turned]
      <4>1. turn' = [u \in Turns |-> turn'[u]] BY <1>3 DEF Answered!Exit
      <4>. QED BY <2>2, <4>1
    <3>. QED BY <1>0, <2>1, <3>1 DEF TransportTyped
  <2>4. ASSUME NEW u \in Turns PROVE WireInv(u)' /\ TurnInv(u)' /\ Alone(u)'
    <3>1. Of(u)' = Of(u) BY <2>1 DEF Of
    <3>2. WireInv(u)' BY <1>0, <2>1, <2>2, <3>1 DEF WireInv, Answered!InPlay
    <3>3. TurnInv(u)' BY <1>0, <2>1, <2>2, <3>1, NoTurn DEF TurnInv, Answered!InPlay, Answered!Outcomes
    <3>. QED BY <2>2, <3>2, <3>3 DEF Alone
  <2>5. Taken' BY <2>1 DEF Taken
  <2>. QED BY <2>3, <2>4, <2>5 DEF TransportInv
<1>. QED BY <1>1, <1>2, <1>3, TransportAsks, TransportGivesUp, TransportRead DEF Answered!Next

\* At first nothing was asked.
LEMMA TransportInitially == Answered!Init => TransportInv
<1>. SUFFICES ASSUME Answered!Init PROVE TransportInv OBVIOUS
<1>1. TransportTyped BY DEF Answered!Init, Answered!Unasked, TransportTyped, Turned
<1>2. \A t \in Turns : Of(t) = {} BY DEF Answered!Init, Of
<1>3. \A t \in Turns : WireInv(t) /\ TurnInv(t) /\ Alone(t)
  BY <1>2, NoTurn DEF Answered!Init, Answered!Unasked, Answered!InPlay, WireInv, TurnInv, Alone, Answered!Outcomes
<1>. QED BY <1>1, <1>3 DEF TransportInv, Taken, Answered!Init

\* The invariant implies what a turn promises.
LEMMA TransportAnswers == TransportInv => AnswersAreTrue
<1>. SUFFICES ASSUME TransportInv PROVE AnswersAreTrue OBVIOUS
<1>1. TransportTyped /\ Taken /\ \A t \in Turns : TurnInv(t) BY DEF TransportInv
<1>2. Answered!TypeOK BY <1>1, NoTurn DEF Answered!TypeOK, TransportTyped, Turned, Taken, TurnInv
<1>3. Answered!AnswerIsOwn BY <1>1 DEF Answered!AnswerIsOwn, TurnInv
<1>4. Answered!FailedIsUnpaid
  <2>1. \A t \in Turns : turn[t].outcome = "REFUSED" => work[t] = "no" BY <1>1 DEF TurnInv
  <2>2. \A t \in Turns : (turn[t].outcome = "STALE" \/ (turn[t].outcome = "FAILED" /\ server = "up")) =>
                          work[t] = "refused"
    BY <1>1 DEF TurnInv
  <2>3. \A t \in Turns : work[t] \in {"no", "refused"} => ~Answered!Ran(t) /\ work[t] # "sent" BY DEF Answered!Ran
  <2>4. ASSUME NEW t \in Turns
        PROVE  /\ turn[t].outcome \in {"REFUSED", "STALE"} => ~Answered!Ran(t) /\ work[t] # "sent"
               /\ turn[t].outcome = "FAILED" /\ server = "up" => ~Answered!Ran(t) /\ work[t] # "sent"
    BY <2>1, <2>2, <2>3
  <2>. QED BY <2>4 DEF Answered!FailedIsUnpaid
<1>. QED BY <1>2, <1>3, <1>4 DEF AnswersAreTrue

(***************************************************************************)
(* The database: what a process has already seen of it stays true while it *)
(* is opened, by several at once or by one after the other.                *)
(***************************************************************************)
\* A table that no longer has its old constraint.
Renewed == results # None => results.check = "new"
OpenSteps == {"closed", "check", "triggers", "create", "copy", "drop", "rename", "columns", "alter", "rebuild",
              "stamp", "open"}

RaceTyped ==
  /\ results \in Raced!Tables \cup {None} /\ aside \in (SUBSET Receipts) \cup {None}
  /\ usage \in [check : {"old", "new"}, rows : SUBSET Receipts, priced : SUBSET Receipts, guarded : BOOLEAN]
  /\ columns \subseteq Columns /\ recorded \subseteq Receipts
  /\ priced \subseteq usage.rows /\ usage.priced \subseteq usage.rows
  /\ opener \in [Processes -> [pc : OpenSteps, missing : SUBSET Columns]]
  /\ crashes \in Nat

\* A process that is about to stamp the version has made it true.
Ready(p) ==
  /\ opener[p].pc = "alter" => Columns \ opener[p].missing \subseteq columns
  /\ opener[p].pc \in {"columns", "alter", "rebuild", "stamp"} => Renewed
  /\ opener[p].pc \in {"rebuild", "stamp"} => columns = Columns
  /\ opener[p].pc = "stamp" => usage.check = "new"
RaceInv ==
  /\ RaceTyped /\ \A p \in Processes : Ready(p)
  /\ version = "current" => Raced!StampIsTrue

\* None is no table and no set of receipts, and both instances have the same tables.
LEMMA NoTable == /\ None \notin Raced!Tables /\ None \notin SUBSET Receipts /\ MaxCrashes \in Nat
                 /\ Raced!Tables = Opened!Tables
BY HostAssumption DEF HostAssumption, Raced!MigrationAssumption, Raced!Tables, Opened!Tables

\* A process that opens the database while nobody else does is one that opens it.
LEMMA OpenedIsRaced == RaceTyped /\ Opened!Next => Raced!Next
<1>. SUFFICES ASSUME RaceTyped, Opened!Next PROVE Raced!Next OBVIOUS
<1>1. PICK p \in Processes :
        Opened!Open(p) \/ Opened!RecordsResult(p) \/ Opened!RecordsUsage(p) \/ Opened!Closes(p) \/ Opened!Crashes(p)
  BY DEF Opened!Next
<1>2. Opened!Open(p) => Raced!Open(p)
  BY DEF Opened!Open, Raced!Open, Opened!RunsSchema, Raced!RunsSchema, Opened!Migrate, Raced!Migrate, Opened!At,
         Raced!At, Opened!To, Raced!To, Opened!Throws, Raced!Throws, Opened!Fresh, Raced!Fresh, Opened!ReadsCheck,
         Raced!ReadsCheck, Opened!Stale, Raced!Stale, Opened!Rebuild, Raced!Rebuild, Opened!DropsTriggers,
         Raced!DropsTriggers, Opened!CreatesAside, Raced!CreatesAside, Opened!Copies, Raced!Copies, Opened!Drops,
         Raced!Drops, Opened!Renames, Raced!Renames, Opened!ReadsColumns, Raced!ReadsColumns, Opened!AddsColumn,
         Raced!AddsColumn, Opened!ReadsConstraints, Raced!ReadsConstraints, Opened!Pending, Raced!Pending,
         Opened!RebuildsConstrained, Raced!RebuildsConstrained, Opened!Stamps, Raced!Stamps, Opened!tables,
         Raced!tables
<1>3. Opened!RecordsResult(p) => Raced!RecordsResult(p)
  BY DEF Opened!RecordsResult, Raced!RecordsResult, Opened!At, Raced!At
<1>4. Opened!RecordsUsage(p) => Raced!RecordsUsage(p)
  BY DEF Opened!RecordsUsage, Raced!RecordsUsage, Opened!At, Raced!At
<1>5. Opened!Closes(p) => Raced!Closes(p)
  BY DEF Opened!Closes, Raced!Closes, Opened!At, Raced!At, Opened!To, Raced!To, Opened!tables, Raced!tables
<1>6. Opened!Crashes(p) => Raced!Crashes(p)
  BY DEF Opened!Crashes, Raced!Crashes, Opened!Opening, Raced!Opening, Opened!To, Raced!To, Opened!tables, Raced!tables
<1>. QED BY <1>1, <1>2, <1>3, <1>4, <1>5, <1>6 DEF Raced!Next

\* What one process does to what all of them rely on: constraints and columns come and do not go.
LEMMA RaceKept ==
  ASSUME RaceInv, RaceTyped', Renewed => Renewed', columns \subseteq columns',
         usage.check = "new" => usage'.check = "new",
         NEW p \in Processes, \A q \in Processes \ {p} : opener'[q] = opener[q], Ready(p)',
         version' # version => opener[p].pc = "stamp"
  PROVE  RaceInv'
<1>1. ASSUME NEW q \in Processes PROVE Ready(q)'
  <2>1. CASE q = p BY <2>1
  <2>2. CASE q # p
    <3>1. opener'[q] = opener[q] /\ Ready(q) BY <2>2 DEF RaceInv
    <3>2. columns = Columns => columns' = Columns BY DEF RaceTyped
    <3>. QED BY <3>1, <3>2 DEF Ready
  <2>. QED BY <2>1, <2>2
<1>2. version' = "current" => Raced!StampIsTrue'
  <2>1. columns = Columns => columns' = Columns BY DEF RaceTyped
  <2>. QED BY <2>1 DEF RaceInv, Ready, Raced!StampIsTrue, Renewed
<1>. QED BY <1>1, <1>2 DEF RaceInv

\* Every statement of a process that opens the database keeps the invariant, whoever else opens it.
LEMMA RaceStep == RaceInv /\ Raced!Next => RaceInv'
<1>. SUFFICES ASSUME RaceInv, Raced!Next PROVE RaceInv' OBVIOUS
<1>. USE NoTable
<1>0. RaceTyped /\ \A p \in Processes : Ready(p) /\ opener[p] \in [pc : OpenSteps, missing : SUBSET Columns]
  BY DEF RaceInv, RaceTyped
<1>1. PICK p \in Processes :
        Raced!Open(p) \/ Raced!RecordsResult(p) \/ Raced!RecordsUsage(p) \/ Raced!Closes(p) \/ Raced!Crashes(p)
  BY DEF Raced!Next
\* A statement that leaves the tables as they are.
<1>2. ASSUME NEW pc \in OpenSteps, opener' = [opener EXCEPT ![p].pc = pc], UNCHANGED Raced!tables,
             UNCHANGED <<recorded, priced>>,
             crashes' \in Nat,
             pc = "alter" => Columns \ opener[p].missing \subseteq columns,
             pc \in {"columns", "alter", "rebuild", "stamp"} => Renewed,
             pc \in {"rebuild", "stamp"} => columns = Columns, pc = "stamp" => usage.check = "new"
      PROVE  RaceInv'
  <2>1. RaceTyped' BY <1>0, <1>2 DEF RaceTyped, Raced!tables
  <2>2. opener'[p].pc = pc /\ opener'[p].missing = opener[p].missing
        /\ \A q \in Processes \ {p} : opener'[q] = opener[q]
    BY <1>0, <1>2 DEF RaceTyped
  <2>3. Ready(p)' BY <1>2, <2>2 DEF Ready, Renewed, Raced!tables
  <2>4. (Renewed => Renewed') /\ columns \subseteq columns' /\ (usage.check = "new" => usage'.check = "new")
        /\ version' = version
    BY <1>2 DEF Renewed, Raced!tables
  <2>. QED BY <2>1, <2>2, <2>3, <2>4, RaceKept
<1>3. CASE Raced!Closes(p) \/ Raced!Crashes(p)
  BY <1>0, <1>2, <1>3 DEF Raced!Closes, Raced!Crashes, Raced!To, RaceTyped, OpenSteps
<1>4. CASE Raced!RecordsResult(p)
  <2>1. PICK r \in Receipts : results' = [results EXCEPT !.rows = results.rows \cup {r}]
        /\ recorded' = recorded \cup {r}
    BY <1>4 DEF Raced!RecordsResult
  <2>2. results # None /\ UNCHANGED <<aside, usage, columns, version, opener, priced, crashes>>
    BY <1>4 DEF Raced!RecordsResult
  <2>3. results' \in Raced!Tables /\ results'.check = results.check BY <1>0, <2>1, <2>2 DEF RaceTyped, Raced!Tables
  <2>4. RaceTyped' BY <1>0, <2>1, <2>2, <2>3 DEF RaceTyped
  <2>5. (Renewed => Renewed') /\ Ready(p)' BY <1>0, <2>2, <2>3 DEF Ready, Renewed
  <2>. QED BY <2>2, <2>4, <2>5, RaceKept
<1>5. CASE Raced!RecordsUsage(p)
  <2>1. PICK r \in Receipts : /\ usage' = [usage EXCEPT !.rows = usage.rows \cup {r}, !.priced = usage.priced \cup {r}]
                              /\ priced' = priced \cup {r}
    BY <1>5 DEF Raced!RecordsUsage
  <2>2. UNCHANGED <<results, aside, columns, version, opener, recorded, crashes>> BY <1>5 DEF Raced!RecordsUsage
  <2>3. RaceTyped' /\ usage'.check = usage.check BY <1>0, <2>1, <2>2 DEF RaceTyped
  <2>4. (Renewed => Renewed') /\ Ready(p)' BY <1>0, <2>2, <2>3 DEF Ready, Renewed
  <2>. QED BY <2>2, <2>3, <2>4, RaceKept
<1>6. CASE Raced!Open(p)
  <2>0. UNCHANGED <<recorded, priced, crashes>> BY <1>6 DEF Raced!Open
  <2>1. CASE Raced!RunsSchema(p)
    <3>1. opener' = [opener EXCEPT ![p].pc = "check"] /\ UNCHANGED <<aside, columns, version>>
      BY <2>1 DEF Raced!RunsSchema, Raced!To
    <3>2. results' \in Raced!Tables /\ (Renewed => Renewed')
      <4>1. CASE results = None BY <2>1, <4>1 DEF Raced!RunsSchema, Raced!Fresh, Raced!Tables, Renewed
      <4>2. CASE results # None BY <1>0, <2>1, <4>2 DEF Raced!RunsSchema, Raced!Tables, Renewed, RaceTyped
      <4>. QED BY <4>1, <4>2
    <3>3. RaceTyped' /\ usage'.check = usage.check
      <4>1. usage' = [usage EXCEPT !.guarded = TRUE] BY <2>1 DEF Raced!RunsSchema
      <4>2. usage' = [check |-> usage.check, rows |-> usage.rows, priced |-> usage.priced, guarded |-> TRUE]
        BY <1>0, <4>1 DEF RaceTyped
      <4>3. opener' \in [Processes -> [pc : OpenSteps, missing : SUBSET Columns]]
        BY <1>0, <3>1 DEF RaceTyped, OpenSteps
      <4>4. /\ usage' \in [check : {"old", "new"}, rows : SUBSET Receipts, priced : SUBSET Receipts, guarded : BOOLEAN]
            /\ usage'.check = usage.check /\ usage'.rows = usage.rows /\ usage'.priced = usage.priced
        BY <1>0, <4>2 DEF RaceTyped
      <4>. QED BY <1>0, <2>0, <3>1, <3>2, <4>3, <4>4 DEF RaceTyped
    <3>4. opener'[p].pc = "check" /\ \A q \in Processes \ {p} : opener'[q] = opener[q] BY <1>0, <3>1 DEF RaceTyped
    <3>. QED BY <3>1, <3>2, <3>3, <3>4, RaceKept DEF Ready
  <2>2. CASE Raced!ReadsCheck(p)
    BY <1>0, <1>2, <2>0, <2>2 DEF Raced!ReadsCheck, Raced!To, Raced!Stale, Renewed, OpenSteps, RaceTyped, Raced!Tables
  <2>3. ASSUME NEW pc \in {"closed", "create", "copy", "drop", "rename"}, opener' = [opener EXCEPT ![p].pc = pc],
               results' \in Raced!Tables \cup {None}, aside' \in (SUBSET Receipts) \cup {None},
               results' # None => results # None /\ results'.check = results.check,
               UNCHANGED <<usage, columns, version>>
        PROVE RaceInv'
    <3>1. RaceTyped' BY <1>0, <2>0, <2>3 DEF RaceTyped, OpenSteps
    <3>2. opener'[p].pc = pc /\ \A q \in Processes \ {p} : opener'[q] = opener[q] BY <1>0, <2>3 DEF RaceTyped
    <3>3. Renewed => Renewed' BY <2>3 DEF Renewed
    <3>. QED BY <2>3, <3>1, <3>2, <3>3, RaceKept DEF Ready
  <2>4. CASE Raced!DropsTriggers(p)
    <3>1. results' \in Raced!Tables \cup {None} /\ (results' # None => results # None /\ results'.check = results.check)
      BY <1>0, <2>4 DEF Raced!DropsTriggers, RaceTyped, Raced!Tables
    <3>. QED BY <1>0, <2>3, <2>4, <3>1 DEF Raced!DropsTriggers, Raced!To, RaceTyped
  <2>5. CASE Raced!CreatesAside(p)
    BY <1>0, <2>3, <2>5 DEF Raced!CreatesAside, Raced!Throws, Raced!To, Raced!tables, RaceTyped
  <2>6. CASE Raced!Copies(p)
    <3>1. CASE ~ (aside # None /\ results # None /\ aside \cap results.rows = {})
      BY <1>0, <2>3, <2>6, <3>1 DEF Raced!Copies, Raced!Throws, Raced!To, Raced!tables, RaceTyped
    <3>2. CASE aside # None /\ results # None /\ aside \cap results.rows = {}
      <4>1. aside' = aside \cup results.rows /\ UNCHANGED <<results, usage, columns, version>>
            /\ opener' = [opener EXCEPT ![p].pc = "drop"]
        BY <2>6, <3>2 DEF Raced!Copies, Raced!To
      <4>2. aside' \in SUBSET Receipts BY <1>0, <3>2, <4>1 DEF RaceTyped, Raced!Tables
      <4>. QED BY <1>0, <2>3, <4>1, <4>2 DEF RaceTyped
    <3>. QED BY <3>1, <3>2
  <2>7. CASE Raced!Drops(p)
    BY <1>0, <2>3, <2>7 DEF Raced!Drops, Raced!Throws, Raced!To, Raced!tables, RaceTyped
  <2>8. CASE Raced!Renames(p) /\ ~ (aside # None /\ results = None)
    BY <1>0, <2>3, <2>8 DEF Raced!Renames, Raced!Throws, Raced!To, Raced!tables, RaceTyped
  <2>9. CASE Raced!Renames(p) /\ aside # None /\ results = None
    <3>1. /\ results' = [check |-> "new", rows |-> aside, guarded |-> FALSE] /\ aside' = None
          /\ opener' = [opener EXCEPT ![p].pc = "columns"] /\ UNCHANGED <<usage, columns, version>>
      BY <2>9 DEF Raced!Renames, Raced!To
    <3>2. results' \in Raced!Tables /\ Renewed' BY <1>0, <2>9, <3>1 DEF Raced!Tables, Renewed, RaceTyped
    <3>3. RaceTyped' BY <1>0, <2>0, <3>1, <3>2 DEF RaceTyped, OpenSteps
    <3>4. opener'[p].pc = "columns" /\ \A q \in Processes \ {p} : opener'[q] = opener[q] BY <1>0, <3>1 DEF RaceTyped
    <3>. QED BY <3>1, <3>2, <3>3, <3>4, RaceKept DEF Ready
  <2>10. CASE Raced!ReadsColumns(p)
    <3>1. opener' = [opener EXCEPT ![p] = [pc |-> "alter", missing |-> Columns \ columns]] /\ UNCHANGED Raced!tables
          /\ opener[p].pc = "columns"
      BY <2>10 DEF Raced!ReadsColumns, Raced!At
    <3>2. RaceTyped' BY <1>0, <2>0, <3>1 DEF RaceTyped, OpenSteps, Raced!tables
    <3>3. opener'[p] = [pc |-> "alter", missing |-> Columns \ columns]
          /\ \A q \in Processes \ {p} : opener'[q] = opener[q]
      BY <1>0, <3>1 DEF RaceTyped
    <3>4. Renewed' /\ Ready(p)' BY <1>0, <3>1, <3>3 DEF Ready, Renewed, Raced!tables
    <3>. QED BY <3>1, <3>2, <3>3, <3>4, RaceKept DEF Raced!tables
  <2>11. CASE Raced!AddsColumn(p)
    <3>1. PICK c \in opener[p].missing :
             \/ Raced!Throws(p)
             \/ /\ columns' = columns \cup {c} /\ opener' = [opener EXCEPT ![p].missing = opener[p].missing \ {c}]
                /\ UNCHANGED <<results, aside, usage, version>>
      BY <2>11 DEF Raced!AddsColumn
    <3>2. CASE Raced!Throws(p) BY <1>0, <1>2, <2>0, <3>2 DEF Raced!Throws, Raced!To, OpenSteps, RaceTyped
    <3>3. CASE ~Raced!Throws(p)
      <4>1. RaceTyped' BY <1>0, <2>0, <3>1, <3>3 DEF RaceTyped
      <4>2. /\ opener'[p].pc = opener[p].pc /\ opener'[p].missing = opener[p].missing \ {c}
            /\ \A q \in Processes \ {p} : opener'[q] = opener[q]
        BY <1>0, <3>1, <3>3 DEF RaceTyped
      <4>3. opener[p].pc = "alter" BY <2>11 DEF Raced!AddsColumn, Raced!At
      <4>4. Ready(p)' /\ (Renewed => Renewed') BY <1>0, <3>1, <3>3, <4>2, <4>3 DEF Ready, Renewed
      <4>. QED BY <3>1, <3>3, <4>1, <4>2, <4>4, RaceKept
    <3>. QED BY <3>2, <3>3
  <2>12. CASE Raced!ReadsConstraints(p)
    <3>1. opener[p].pc = "alter" /\ opener[p].missing = {} BY <2>12 DEF Raced!ReadsConstraints, Raced!At
    <3>2. columns = Columns /\ Renewed BY <1>0, <3>1 DEF Ready, RaceTyped
    <3>3. ~Raced!Pending => usage.check = "new" BY <1>0 DEF Raced!Pending, RaceTyped
    <3>. QED BY <1>0, <1>2, <2>0, <2>12, <3>2, <3>3 DEF Raced!ReadsConstraints, Raced!To, OpenSteps, RaceTyped
  <2>13. CASE Raced!RebuildsConstrained(p)
    <3>1. /\ opener[p].pc = "rebuild" /\ opener' = [opener EXCEPT ![p].pc = "stamp"]
          /\ usage' = [usage EXCEPT !.check = "new", !.priced = {}, !.guarded = FALSE]
          /\ UNCHANGED <<results, aside, columns, version>>
      BY <2>13 DEF Raced!RebuildsConstrained, Raced!At, Raced!To
    <3>2. RaceTyped' /\ usage'.check = "new"
      <4>1. usage' = [check |-> "new", rows |-> usage.rows, priced |-> {}, guarded |-> FALSE]
        BY <1>0, <3>1 DEF RaceTyped
      <4>2. opener' \in [Processes -> [pc : OpenSteps, missing : SUBSET Columns]]
        BY <1>0, <3>1 DEF RaceTyped, OpenSteps
      <4>3. /\ usage' \in [check : {"old", "new"}, rows : SUBSET Receipts, priced : SUBSET Receipts, guarded : BOOLEAN]
            /\ usage'.check = "new" /\ usage'.rows = usage.rows /\ usage'.priced = {}
        BY <1>0, <4>1 DEF RaceTyped
      <4>. QED BY <1>0, <2>0, <3>1, <4>2, <4>3 DEF RaceTyped
    <3>3. opener'[p].pc = "stamp" /\ \A q \in Processes \ {p} : opener'[q] = opener[q] BY <1>0, <3>1 DEF RaceTyped
    <3>4. Ready(p)' /\ (Renewed => Renewed') BY <1>0, <3>1, <3>2, <3>3 DEF Ready, Renewed
    <3>. QED BY <3>1, <3>2, <3>3, <3>4, RaceKept
  <2>14. CASE Raced!Stamps(p)
    <3>1. /\ opener[p].pc = "stamp" /\ opener' = [opener EXCEPT ![p].pc = "open"]
          /\ UNCHANGED <<results, aside, usage, columns>>
      BY <2>14 DEF Raced!Stamps, Raced!At, Raced!To
    <3>2. RaceTyped' BY <1>0, <2>0, <3>1 DEF RaceTyped, OpenSteps
    <3>3. opener'[p].pc = "open" /\ \A q \in Processes \ {p} : opener'[q] = opener[q] BY <1>0, <3>1 DEF RaceTyped
    <3>4. Ready(p)' /\ (Renewed => Renewed') BY <3>1, <3>3 DEF Ready, Renewed
    <3>. QED BY <3>1, <3>2, <3>3, <3>4, RaceKept
  <2>. QED BY <1>6, <2>1, <2>2, <2>4, <2>5, <2>6, <2>7, <2>8, <2>9, <2>10, <2>11, <2>12, <2>13, <2>14
          DEF Raced!Open, Raced!Migrate, Raced!Rebuild
<1>. QED BY <1>1, <1>3, <1>4, <1>5, <1>6

\* A database that nobody has opened yet.
LEMMA RaceInitially == Raced!Init => RaceInv
<1>. SUFFICES ASSUME Raced!Init PROVE RaceInv OBVIOUS
<1>1. results \in Raced!Tables /\ aside = None /\ columns = {} /\ recorded \subseteq Receipts /\ priced = {}
      /\ crashes = 0
  BY DEF Raced!Init, Raced!Tables
<1>2. /\ usage \in [check : {"old", "new"}, rows : SUBSET Receipts, priced : SUBSET Receipts, guarded : BOOLEAN]
      /\ usage.priced = {}
  BY DEF Raced!Init
<1>3. opener = [p \in Processes |-> [pc |-> "closed", missing |-> {}]] BY DEF Raced!Init
<1>4. RaceTyped BY <1>1, <1>2, <1>3 DEF RaceTyped, OpenSteps
<1>5. \A p \in Processes : Ready(p) BY <1>3 DEF Ready
<1>. QED BY <1>4, <1>5 DEF RaceInv, Raced!Init

Rebuilding == {"triggers", "create", "copy", "drop", "rename"}

\* One process at a time opens the database, and no other has it open while it rebuilds a table.
InTurn ==
  /\ \A p, q \in Processes : Opened!Opening(p) /\ Opened!Opening(q) => p = q
  /\ \A p, q \in Processes : opener[p].pc \in Rebuilding \cup {"rebuild"} => opener[q].pc # "open"

\* The rows are in the one table or in the other at every statement, and a process that died leaves them there.
Rebuilt(p) ==
  /\ opener[p].pc \notin {"closed", "check"} \cup Rebuilding => Renewed
  /\ opener[p].pc \notin {"closed", "rename"} => results # None
  /\ opener[p].pc = "copy" => aside = {}
  /\ opener[p].pc \in {"drop", "rename"} => aside # None /\ recorded \subseteq aside
  /\ opener[p].pc = "rename" => results = None
  /\ opener[p].pc = "rebuild" => usage.check = "old"
  /\ opener[p].pc = "open" => usage.check = "new"
Preserved ==
  /\ recorded \subseteq Opened!Rows \cup Opened!RowsAside
  /\ aside = None => results # None
\* Prices are kept once the table that loses them was rebuilt.
Costed == (usage.check = "old" => priced = {}) /\ priced \subseteq usage.priced

OpeningInv == InTurn /\ (\A p \in Processes : Rebuilt(p)) /\ Preserved /\ Costed

\* A statement of the process that opens the database.
LEMMA OpeningKept ==
  ASSUME RaceTyped, OpeningInv, NEW p \in Processes, NEW pc \in OpenSteps,
         opener'[p].pc = pc, \A q \in Processes \ {p} : opener'[q] = opener[q],
         opener[p].pc \notin {"closed", "open"} \/ (opener[p].pc = "closed" /\ \A q \in Processes : ~Opened!Opening(q)),
         recorded' = recorded, Renewed => Renewed', usage.check = "new" => usage'.check = "new",
         pc \in Rebuilding \cup {"rebuild"} => \A q \in Processes \ {p} : opener[q].pc # "open",
         Rebuilt(p)', Costed', Preserved',
         results # None /\ pc # "rename" => results' # None
  PROVE  OpeningInv'
<1>1. \A q \in Processes \ {p} : opener[q].pc \in {"closed", "open"} /\ opener'[q] = opener[q]
  BY DEF OpeningInv, InTurn, Opened!Opening
<1>2. InTurn' BY <1>1 DEF InTurn, Opened!Opening, Rebuilding
<1>3. ASSUME NEW q \in Processes \ {p} PROVE Rebuilt(q)'
  <2>1. opener'[q] = opener[q] /\ opener[q].pc \in {"closed", "open"} /\ Rebuilt(q) BY <1>1 DEF OpeningInv
  <2>. QED BY <2>1 DEF Rebuilt, Rebuilding
<1>4. \A q \in Processes : Rebuilt(q)' BY <1>3
<1>. QED BY <1>2, <1>4 DEF OpeningInv

\* Every statement of the one process that opens the database keeps its rows.
LEMMA OpeningStep == RaceInv /\ OpeningInv /\ Opened!Next => OpeningInv'
<1>. SUFFICES ASSUME RaceInv, OpeningInv, Opened!Next PROVE OpeningInv' OBVIOUS
<1>. USE NoTable
<1>0. /\ RaceTyped /\ InTurn /\ Preserved /\ Costed
      /\ \A p \in Processes : Ready(p) /\ Rebuilt(p) /\ opener[p] \in [pc : OpenSteps, missing : SUBSET Columns]
  BY DEF RaceInv, RaceTyped, OpeningInv
<1>1. PICK p \in Processes :
        Opened!Open(p) \/ Opened!RecordsResult(p) \/ Opened!RecordsUsage(p) \/ Opened!Closes(p) \/ Opened!Crashes(p)
  BY DEF Opened!Next
<1>2. CASE Opened!Crashes(p)
  <2>1. /\ opener[p].pc \notin {"closed", "open"} /\ opener' = [opener EXCEPT ![p].pc = "closed"]
        /\ UNCHANGED <<results, aside, usage, recorded, priced>>
    BY <1>2 DEF Opened!Crashes, Opened!Opening, Opened!To, Opened!tables
  <2>2. opener'[p].pc = "closed" /\ \A q \in Processes \ {p} : opener'[q] = opener[q] BY <1>0, <2>1 DEF RaceTyped
  <2>3. Rebuilt(p)' BY <2>2 DEF Rebuilt, Rebuilding
  <2>4. Costed' /\ Preserved' /\ (Renewed => Renewed')
    BY <1>0, <2>1 DEF Costed, Preserved, Opened!Rows, Opened!RowsAside, Renewed
  <2>. QED BY <1>0, <2>1, <2>2, <2>3, <2>4, OpeningKept DEF OpenSteps, Rebuilding
<1>3. CASE Opened!Closes(p)
  <2>1. /\ opener[p].pc = "open" /\ opener'[p].pc = "closed" /\ (\A q \in Processes \ {p} : opener'[q] = opener[q])
        /\ UNCHANGED <<results, aside, usage, recorded, priced>>
    BY <1>0, <1>3 DEF Opened!Closes, Opened!At, Opened!To, Opened!tables, RaceTyped
  <2>2. InTurn' BY <1>0, <2>1 DEF InTurn, Opened!Opening, Rebuilding
  <2>3. \A q \in Processes : Rebuilt(q)' BY <1>0, <2>1 DEF Rebuilt, Rebuilding, Renewed
  <2>4. Preserved' /\ Costed' BY <1>0, <2>1 DEF Preserved, Opened!Rows, Opened!RowsAside, Costed
  <2>. QED BY <2>2, <2>3, <2>4 DEF OpeningInv
<1>4. CASE Opened!RecordsResult(p)
  <2>1. PICK r \in Receipts : results' = [results EXCEPT !.rows = results.rows \cup {r}]
        /\ recorded' = recorded \cup {r}
    BY <1>4 DEF Opened!RecordsResult
  <2>2. results # None /\ opener[p].pc = "open" /\ UNCHANGED <<aside, usage, columns, version, opener, priced, crashes>>
    BY <1>4 DEF Opened!RecordsResult, Opened!At
  <2>3. \A q \in Processes : opener[q].pc \notin Rebuilding BY <1>0, <2>2 DEF InTurn
  <2>4. results' # None /\ results'.check = results.check /\ results'.rows = results.rows \cup {r}
    BY <1>0, <2>1, <2>2 DEF RaceTyped, Raced!Tables
  <2>5. InTurn' BY <1>0, <2>2 DEF InTurn, Opened!Opening
  <2>6. \A q \in Processes : Rebuilt(q)' BY <1>0, <2>2, <2>3, <2>4 DEF Rebuilt, Rebuilding, Renewed
  <2>7. Preserved' /\ Costed'
    BY <1>0, <2>1, <2>2, <2>3, <2>4 DEF Preserved, Opened!Rows, Opened!RowsAside, Costed, Rebuilding
  <2>. QED BY <2>5, <2>6, <2>7 DEF OpeningInv
<1>5. CASE Opened!RecordsUsage(p)
  <2>1. PICK r \in Receipts : /\ usage' = [usage EXCEPT !.rows = usage.rows \cup {r}, !.priced = usage.priced \cup {r}]
                              /\ priced' = priced \cup {r}
    BY <1>5 DEF Opened!RecordsUsage
  <2>2. opener[p].pc = "open" /\ UNCHANGED <<results, aside, columns, version, opener, recorded, crashes>>
    BY <1>5 DEF Opened!RecordsUsage, Opened!At
  <2>3. usage'.check = usage.check /\ usage'.priced = usage.priced \cup {r} BY <1>0, <2>1 DEF RaceTyped
  <2>4. usage.check = "new" BY <1>0, <2>2 DEF Rebuilt
  <2>5. InTurn' BY <1>0, <2>2 DEF InTurn, Opened!Opening
  <2>6. \A q \in Processes : Rebuilt(q)' BY <1>0, <2>2, <2>3 DEF Rebuilt, Renewed
  <2>7. Preserved' /\ Costed'
    BY <1>0, <2>1, <2>2, <2>3, <2>4 DEF Preserved, Opened!Rows, Opened!RowsAside, Costed
  <2>. QED BY <2>5, <2>6, <2>7 DEF OpeningInv
<1>6. CASE Opened!Open(p)
  <2>0. UNCHANGED <<recorded, priced, crashes>> BY <1>6 DEF Opened!Open
  <2>1. CASE Opened!RunsSchema(p)
    <3>1. /\ opener' = [opener EXCEPT ![p].pc = "check"] /\ aside' = aside /\ opener[p].pc = "closed"
          /\ \A q \in Processes : ~Opened!Opening(q)
      BY <2>1 DEF Opened!RunsSchema, Opened!To, Opened!At
    <3>2. results' # None /\ (results # None => results'.rows = results.rows /\ results'.check = results.check)
          /\ (results = None => results'.check = "new")
      <4>1. CASE results = None
        <5>1. results' = [check |-> "new", rows |-> {}, guarded |-> TRUE] BY <2>1, <4>1 DEF Opened!RunsSchema, Opened!Fresh
        <5>2. results' \in Raced!Tables BY <5>1 DEF Raced!Tables
        <5>. QED BY <4>1, <5>1, <5>2
      <4>2. CASE results # None BY <1>0, <2>1, <4>2 DEF Opened!RunsSchema, RaceTyped, Raced!Tables
      <4>. QED BY <4>1, <4>2
    <3>3. usage'.check = usage.check /\ usage'.priced = usage.priced
      BY <1>0, <2>1 DEF Opened!RunsSchema, RaceTyped
    <3>4. opener'[p].pc = "check" /\ \A q \in Processes \ {p} : opener'[q] = opener[q] BY <1>0, <3>1 DEF RaceTyped
    <3>5. Rebuilt(p)' BY <3>2, <3>4 DEF Rebuilt, Rebuilding
    <3>6. Costed' /\ Preserved' /\ (Renewed => Renewed')
      BY <1>0, <2>0, <3>1, <3>2, <3>3 DEF Costed, Preserved, Opened!Rows, Opened!RowsAside, Renewed
    <3>. QED BY <1>0, <2>0, <3>1, <3>2, <3>3, <3>4, <3>5, <3>6, OpeningKept DEF OpenSteps, Rebuilding
  <2>2. CASE Opened!Migrate(p)
    <3>1. opener[p].pc \in {"check", "triggers", "create", "copy", "drop", "rename", "columns", "alter", "rebuild",
                            "stamp"}
      BY <2>2
         DEF Opened!Migrate, Opened!Rebuild, Opened!ReadsCheck, Opened!DropsTriggers, Opened!CreatesAside,
             Opened!Copies, Opened!Drops, Opened!Renames, Opened!ReadsColumns, Opened!AddsColumn,
             Opened!ReadsConstraints, Opened!RebuildsConstrained, Opened!Stamps, Opened!At
    <3>2. \A q \in Processes \ {p} : opener[q].pc \in {"closed", "open"} BY <1>0, <3>1 DEF InTurn, Opened!Opening
    <3>3. opener[p].pc # "rename" => results # None BY <1>0, <3>1 DEF Rebuilt
    <3>4. recorded \subseteq Opened!Rows \cup Opened!RowsAside BY <1>0 DEF Preserved
    <3>5. opener[p].pc \in Rebuilding \cup {"rebuild"} => \A q \in Processes \ {p} : opener[q].pc # "open"
      BY <1>0 DEF InTurn
    \* A statement that leaves the tables as they are.
    <3>6. ASSUME NEW pc \in OpenSteps, opener'[p].pc = pc, \A q \in Processes \ {p} : opener'[q] = opener[q],
                 UNCHANGED <<results, aside, usage>>,
                 opener[p].pc # "rename", pc \notin {"copy", "drop", "rename"},
                 pc \in Rebuilding \cup {"rebuild"} => \A q \in Processes \ {p} : opener[q].pc # "open",
                 pc \notin {"closed", "check"} \cup Rebuilding => Renewed,
                 pc = "rebuild" => usage.check = "old", pc = "open" => usage.check = "new"
          PROVE  OpeningInv'
      <4>1. Rebuilt(p)' BY <3>3, <3>6 DEF Rebuilt, Renewed
      <4>2. Costed' /\ Preserved' /\ (Renewed => Renewed')
        BY <1>0, <2>0, <3>6 DEF Costed, Preserved, Opened!Rows, Opened!RowsAside, Renewed
      <4>3. opener[p].pc \notin {"closed", "open"} BY <3>1
      <4>. QED BY <1>0, <2>0, <3>6, <4>1, <4>2, <4>3, OpeningKept
    <3>7. CASE Opened!ReadsCheck(p)
      <4>1. PICK pc \in OpenSteps : pc = IF Opened!Stale THEN "triggers" ELSE "columns" BY DEF OpenSteps
      <4>2. opener[p].pc = "check" /\ opener' = [opener EXCEPT ![p].pc = pc] /\ UNCHANGED <<results, aside, usage>>
        BY <3>7, <4>1 DEF Opened!ReadsCheck, Opened!At, Opened!To, Opened!tables
      <4>3. opener'[p].pc = pc /\ \A q \in Processes \ {p} : opener'[q] = opener[q] BY <1>0, <4>2 DEF RaceTyped
      <4>4. ~Opened!Stale => Renewed BY <1>0 DEF Opened!Stale, Renewed, RaceTyped, Raced!Tables
      <4>5. Opened!Stale => \A q \in Processes \ {p} : opener[q].pc # "open"
        BY <1>0 DEF Opened!Stale, Renewed, Rebuilt, Rebuilding
      <4>. QED BY <3>6, <4>1, <4>2, <4>3, <4>4, <4>5 DEF Rebuilding
    <3>8. CASE Opened!DropsTriggers(p)
      <4>1. opener[p].pc = "triggers" /\ opener' = [opener EXCEPT ![p].pc = "create"] /\ UNCHANGED <<aside, usage>>
        BY <3>8 DEF Opened!DropsTriggers, Opened!At, Opened!To
      <4>2. opener'[p].pc = "create" /\ \A q \in Processes \ {p} : opener'[q] = opener[q] BY <1>0, <4>1 DEF RaceTyped
      <4>3. results # None /\ results' # None /\ results'.rows = results.rows /\ results'.check = results.check
        BY <1>0, <3>3, <3>8, <4>1 DEF Opened!DropsTriggers, RaceTyped, Raced!Tables
      <4>4. Rebuilt(p)' /\ Costed' /\ (Renewed => Renewed')
        BY <1>0, <2>0, <4>1, <4>2, <4>3 DEF Rebuilt, Costed, Renewed, Rebuilding
      <4>5. Preserved' BY <1>0, <2>0, <4>1, <4>3 DEF Preserved, Opened!Rows, Opened!RowsAside
      <4>. QED BY <1>0, <2>0, <3>1, <3>5, <4>1, <4>2, <4>3, <4>4, <4>5, OpeningKept DEF OpenSteps, Rebuilding
    <3>9. CASE Opened!CreatesAside(p)
      <4>1. opener[p].pc = "create" BY <3>9 DEF Opened!CreatesAside, Opened!At
      <4>2. CASE Opened!Throws(p)
        <5>1. opener' = [opener EXCEPT ![p].pc = "closed"] /\ UNCHANGED <<results, aside, usage>>
          BY <4>2 DEF Opened!Throws, Opened!To, Opened!tables
        <5>2. opener'[p].pc = "closed" /\ \A q \in Processes \ {p} : opener'[q] = opener[q]
          BY <1>0, <5>1 DEF RaceTyped
        <5>. QED BY <3>6, <4>1, <5>1, <5>2 DEF OpenSteps, Rebuilding
      <4>3. CASE ~Opened!Throws(p)
        <5>1. aside = None /\ aside' = {} /\ opener' = [opener EXCEPT ![p].pc = "copy"]
              /\ UNCHANGED <<results, usage>>
          BY <3>9, <4>3 DEF Opened!CreatesAside, Opened!To
        <5>2. opener'[p].pc = "copy" /\ \A q \in Processes \ {p} : opener'[q] = opener[q] BY <1>0, <5>1 DEF RaceTyped
        <5>3. Rebuilt(p)' /\ Costed' /\ (Renewed => Renewed')
          BY <1>0, <2>0, <3>3, <4>1, <5>1, <5>2 DEF Rebuilt, Costed, Renewed, Rebuilding
        <5>4. Preserved' BY <1>0, <2>0, <5>1 DEF Preserved, Opened!Rows, Opened!RowsAside
        <5>. QED BY <1>0, <2>0, <3>1, <3>3, <3>5, <4>1, <5>1, <5>2, <5>3, <5>4, OpeningKept DEF OpenSteps, Rebuilding
      <4>. QED BY <4>2, <4>3
    <3>10. CASE Opened!Copies(p)
      <4>1. opener[p].pc = "copy" /\ aside = {} /\ results # None
        BY <1>0, <3>3, <3>10 DEF Opened!Copies, Opened!At, Rebuilt
      <4>2. aside # None /\ aside \cap results.rows = {} BY <1>0, <4>1 DEF RaceTyped
      <4>3. aside' = aside \cup results.rows /\ opener' = [opener EXCEPT ![p].pc = "drop"]
            /\ UNCHANGED <<results, usage>>
        BY <3>10, <4>1, <4>2 DEF Opened!Copies, Opened!To
      <4>4. opener'[p].pc = "drop" /\ \A q \in Processes \ {p} : opener'[q] = opener[q] BY <1>0, <4>3 DEF RaceTyped
      <4>5. aside' # None /\ recorded \subseteq aside'
        <5>1. results.rows \in SUBSET Receipts BY <1>0, <4>1 DEF RaceTyped, Raced!Tables
        <5>. QED BY <3>4, <4>1, <4>3, <5>1 DEF Opened!Rows, Opened!RowsAside
      <4>6. Rebuilt(p)' /\ Costed' /\ (Renewed => Renewed')
        BY <1>0, <2>0, <4>1, <4>3, <4>4, <4>5 DEF Rebuilt, Costed, Renewed, Rebuilding
      <4>7. Preserved' BY <2>0, <4>5 DEF Preserved, Opened!RowsAside
      <4>. QED BY <1>0, <2>0, <3>1, <3>5, <4>1, <4>3, <4>4, <4>6, <4>7, OpeningKept DEF OpenSteps, Rebuilding
    <3>11. CASE Opened!Drops(p)
      <4>1. opener[p].pc = "drop" /\ results # None /\ aside # None /\ recorded \subseteq aside
        BY <1>0, <3>3, <3>11 DEF Opened!Drops, Opened!At, Rebuilt
      <4>2. results' = None /\ opener' = [opener EXCEPT ![p].pc = "rename"] /\ UNCHANGED <<aside, usage>>
        BY <3>11, <4>1 DEF Opened!Drops, Opened!To
      <4>3. opener'[p].pc = "rename" /\ \A q \in Processes \ {p} : opener'[q] = opener[q] BY <1>0, <4>2 DEF RaceTyped
      <4>4. Rebuilt(p)' /\ Costed' /\ Renewed'
        BY <1>0, <2>0, <4>1, <4>2, <4>3 DEF Rebuilt, Costed, Renewed, Rebuilding
      <4>5. Preserved' BY <2>0, <4>1, <4>2 DEF Preserved, Opened!RowsAside
      <4>. QED BY <1>0, <2>0, <3>1, <3>5, <4>1, <4>2, <4>3, <4>4, <4>5, OpeningKept DEF OpenSteps, Rebuilding
    <3>12. CASE Opened!Renames(p)
      <4>1. opener[p].pc = "rename" /\ results = None /\ aside # None /\ recorded \subseteq aside
        BY <1>0, <3>12 DEF Opened!Renames, Opened!At, Rebuilt
      <4>2. /\ results' = [check |-> "new", rows |-> aside, guarded |-> FALSE] /\ aside' = None /\ usage' = usage
            /\ opener' = [opener EXCEPT ![p].pc = "columns"]
        BY <3>12, <4>1 DEF Opened!Renames, Opened!To
      <4>3. opener'[p].pc = "columns" /\ \A q \in Processes \ {p} : opener'[q] = opener[q] BY <1>0, <4>2 DEF RaceTyped
      <4>4. results' # None /\ results'.rows = aside /\ results'.check = "new"
        <5>1. aside \in SUBSET Receipts BY <1>0, <4>1 DEF RaceTyped
        <5>2. results' \in Raced!Tables BY <4>2, <5>1 DEF Raced!Tables
        <5>. QED BY <4>2, <5>2
      <4>5. Rebuilt(p)' /\ Costed' /\ Renewed'
        BY <1>0, <2>0, <4>1, <4>2, <4>3, <4>4 DEF Rebuilt, Costed, Renewed, Rebuilding
      <4>6. Preserved' BY <2>0, <4>1, <4>4 DEF Preserved, Opened!Rows
      <4>. QED BY <1>0, <2>0, <3>1, <4>1, <4>2, <4>3, <4>4, <4>5, <4>6, OpeningKept DEF OpenSteps, Rebuilding
    <3>13. CASE Opened!ReadsColumns(p)
      <4>1. /\ opener[p].pc = "columns" /\ UNCHANGED <<results, aside, usage>>
            /\ opener' = [opener EXCEPT ![p] = [pc |-> "alter", missing |-> Columns \ columns]]
        BY <3>13 DEF Opened!ReadsColumns, Opened!At, Opened!tables
      <4>2. opener'[p].pc = "alter" /\ \A q \in Processes \ {p} : opener'[q] = opener[q] BY <1>0, <4>1 DEF RaceTyped
      <4>. QED BY <1>0, <3>6, <4>1, <4>2 DEF OpenSteps, Rebuilding, Ready
    <3>14. CASE Opened!AddsColumn(p)
      <4>1. opener[p].pc = "alter" /\ UNCHANGED <<results, aside, usage>>
        BY <3>14 DEF Opened!AddsColumn, Opened!At, Opened!Throws, Opened!tables
      <4>2. PICK pc \in {"closed", "alter"} : opener'[p].pc = pc /\ \A q \in Processes \ {p} : opener'[q] = opener[q]
        <5>1. PICK c \in opener[p].missing :
                 Opened!Throws(p) \/ opener' = [opener EXCEPT ![p].missing = opener[p].missing \ {c}]
          BY <3>14 DEF Opened!AddsColumn
        <5>. QED BY <1>0, <4>1, <5>1 DEF RaceTyped, Opened!Throws, Opened!To
      <4>. QED BY <1>0, <3>6, <4>1, <4>2 DEF OpenSteps, Rebuilding, Ready
    <3>15. CASE Opened!ReadsConstraints(p)
      <4>1. PICK pc \in {"rebuild", "stamp"} : pc = IF Opened!Pending THEN "rebuild" ELSE "stamp" OBVIOUS
      <4>2. opener[p].pc = "alter" /\ opener' = [opener EXCEPT ![p].pc = pc] /\ UNCHANGED <<results, aside, usage>>
        BY <3>15, <4>1 DEF Opened!ReadsConstraints, Opened!At, Opened!To, Opened!tables
      <4>3. opener'[p].pc = pc /\ \A q \in Processes \ {p} : opener'[q] = opener[q] BY <1>0, <4>2 DEF RaceTyped
      <4>4. Opened!Pending => usage.check = "old" /\ \A q \in Processes \ {p} : opener[q].pc # "open"
        BY <1>0 DEF Opened!Pending, Rebuilt
      <4>. QED BY <1>0, <3>6, <4>1, <4>2, <4>3, <4>4 DEF OpenSteps, Rebuilding, Ready
    <3>16. CASE Opened!RebuildsConstrained(p)
      <4>1. /\ opener[p].pc = "rebuild" /\ opener' = [opener EXCEPT ![p].pc = "stamp"] /\ UNCHANGED <<results, aside>>
            /\ usage' = [usage EXCEPT !.check = "new", !.priced = {}, !.guarded = FALSE]
        BY <3>16 DEF Opened!RebuildsConstrained, Opened!At, Opened!To
      <4>2. opener'[p].pc = "stamp" /\ \A q \in Processes \ {p} : opener'[q] = opener[q] BY <1>0, <4>1 DEF RaceTyped
      <4>3. usage'.check = "new" /\ priced = {} BY <1>0, <4>1 DEF RaceTyped, Rebuilt, Costed
      <4>4. Rebuilt(p)' /\ Costed' /\ (Renewed => Renewed')
        BY <1>0, <2>0, <4>1, <4>2, <4>3 DEF Rebuilt, Ready, Costed, Renewed, Rebuilding
      <4>5. Preserved' BY <1>0, <2>0, <4>1 DEF Preserved, Opened!Rows, Opened!RowsAside
      <4>. QED BY <1>0, <2>0, <3>1, <3>3, <4>1, <4>2, <4>3, <4>4, <4>5, OpeningKept DEF OpenSteps, Rebuilding
    <3>17. CASE Opened!Stamps(p)
      <4>1. opener[p].pc = "stamp" /\ opener' = [opener EXCEPT ![p].pc = "open"] /\ UNCHANGED <<results, aside, usage>>
        BY <3>17 DEF Opened!Stamps, Opened!At, Opened!To
      <4>2. opener'[p].pc = "open" /\ \A q \in Processes \ {p} : opener'[q] = opener[q] BY <1>0, <4>1 DEF RaceTyped
      <4>. QED BY <1>0, <3>6, <4>1, <4>2 DEF OpenSteps, Rebuilding, Ready
    <3>. QED BY <2>2, <3>7, <3>8, <3>9, <3>10, <3>11, <3>12, <3>13, <3>14, <3>15, <3>16, <3>17
            DEF Opened!Migrate, Opened!Rebuild
  <2>. QED BY <1>6, <2>1, <2>2 DEF Opened!Open
<1>. QED BY <1>1, <1>2, <1>3, <1>4, <1>5, <1>6

\* A database that nobody has opened yet has its rows.
LEMMA OpeningInitially == Raced!Init => OpeningInv
<1>. SUFFICES ASSUME Raced!Init PROVE OpeningInv OBVIOUS
<1>1. /\ aside = None /\ priced = {} /\ results \in Raced!Tables /\ results.rows = recorded
      /\ opener = [p \in Processes |-> [pc |-> "closed", missing |-> {}]]
  BY DEF Raced!Init, Raced!Tables
<1>2. results # None BY <1>1, NoTable
<1>. QED BY <1>1, <1>2
        DEF OpeningInv, InTurn, Opened!Opening, Rebuilt, Rebuilding, Preserved, Opened!Rows, Opened!RowsAside, Costed, Renewed

\* The invariants imply what the migration promises.
LEMMA DatabaseKept == RaceInv /\ (part = "opening" => OpeningInv) => DatabaseIsKept
<1>. SUFFICES ASSUME RaceInv, part = "opening" => OpeningInv PROVE DatabaseIsKept OBVIOUS
<1>1. Raced!TypeOK BY DEF RaceInv, RaceTyped, Raced!TypeOK
<1>2. Raced!StampIsTrue
  <2>1. CASE version = "current" BY <2>1 DEF RaceInv
  <2>2. CASE version # "current" BY <2>2 DEF Raced!StampIsTrue
  <2>. QED BY <2>1, <2>2
<1>3. ASSUME OpeningInv PROVE Opened!NoReceiptIsDestroyed /\ Opened!CostsAreKept
  <2>1. Opened!NoReceiptIsDestroyed
    BY <1>3 DEF OpeningInv, Preserved, Opened!NoReceiptIsDestroyed, Opened!Rows, Opened!RowsAside
  <2>2. Opened!CostsAreKept BY <1>3 DEF OpeningInv, Costed, Opened!CostsAreKept
  <2>. QED BY <2>1, <2>2
<1>. QED BY <1>1, <1>2, <1>3 DEF DatabaseIsKept

(***************************************************************************)
(* The executor of an attempt: what is in the log of a run was bought, once,*)
(* and a log that ends is whole.                                           *)
(***************************************************************************)
Wires == [output : Nat, reasoning : Nat]
Records == [kind : {"step", "junk", "error", "end"}, call : Nat \cup {None}, usage : Wires \cup {None}, last : BOOLEAN]
Runs == [of : Attempts \cup {None}, on : {None, "harness", "opencode"}, pc : {"idle", "selected", "running", "closed"},
         calls : Seq(Costs), log : Seq(Records), written : Nat, stderr : {"", "signature"},
         exit : {None, "zero", "nonzero"}, timedOut : BOOLEAN, error : {None, "configuration", "refused"}]

RunTyped ==
  /\ disabled \in BOOLEAN /\ run \in Runs
  /\ run.pc # "idle" => run.of \in Attempts /\ run.on \in {"harness", "opencode"}
  /\ run.stderr = "signature" => run.calls = <<>> /\ run.pc = "closed"

\* A record of a call has its tokens or none, and Harness writes one record of each.
Recorded(i) ==
  /\ run.log[i].kind = "step" =>
       /\ run.log[i].call \in 1..run.written
       /\ run.log[i].usage \in {None, Executed!Wire(run.on, run.calls[run.log[i].call])}
  /\ run.on = "harness" /\ run.log[i].kind = "end" => run.log[i].last
  /\ run.log[i].last => run.written = Len(run.calls)
LogInv ==
  /\ run.written <= Len(run.calls)
  /\ \A i \in DOMAIN run.log : Recorded(i)
  /\ run.on = "harness" => \A i, j \in Executed!Steps : run.log[i].call = run.log[j].call => i = j
  /\ \A c \in 1..run.written : \/ \E i \in Executed!Steps : run.log[i].call = c
                               \/ \E i \in DOMAIN run.log : run.log[i].kind = "junk"

\* A receipt that was written says no more than was spent.
ReceiptInv(e) ==
  \/ e.receipt.status = "UNKNOWN" /\ e.receipt.tokens = None /\ e.receipt.reference = None
  \/ e.receipt.status = "NO_PROVIDER_CONTACT" /\ e.receipt.tokens = 0 /\ e.receipt.reference = 0 /\ e.spent = 0
  \/ /\ e.receipt.status \in {"COMPLETE", "PARTIAL"} /\ e.receipt.tokens \in Nat
     /\ e.receipt.tokens <= e.spent
     /\ e.receipt.status = "COMPLETE" /\ (e.on = "harness" \/ e.verdict = "SUCCEEDED") => e.receipt.tokens = e.spent
EntryInv(e) == e.spent \in Nat /\ (e.receipt # None => ReceiptInv(e))

LedgerInv == DOMAIN ledger = Attempts /\ \A a \in Attempts : ledger[a] # None => EntryInv(ledger[a])
ExecutorsInv == RunTyped /\ LogInv /\ LedgerInv

\* The parts of a run.
LEMMA RunFields ==
  RunTyped => /\ run.log \in Seq(Records) /\ run.calls \in Seq(Costs) /\ run.written \in Nat
              /\ run.on \in {None, "harness", "opencode"}
              /\ Len(run.log) \in Nat /\ DOMAIN run.log = 1..Len(run.log)
              /\ Len(run.calls) \in Nat /\ DOMAIN run.calls = 1..Len(run.calls)
<1>. SUFFICES ASSUME RunTyped PROVE /\ run.log \in Seq(Records) /\ run.calls \in Seq(Costs) /\ run.written \in Nat
                                    /\ run.on \in {None, "harness", "opencode"}
  <2>. HIDE DEF Records
  <2>. QED OBVIOUS
<1>1. run \in Runs BY DEF RunTyped
<1>. QED BY <1>1 DEF Runs

\* A run that was started and has nothing yet is a run.
LEMMA RunStarts ==
  ASSUME NEW a \in Attempts \cup {None}, NEW on \in {None, "harness", "opencode"}, NEW pc \in {"idle", "selected"}
  PROVE  [of |-> a, on |-> on, pc |-> pc, calls |-> <<>>, log |-> <<>>, written |-> 0,
          stderr |-> "", exit |-> None, timedOut |-> FALSE, error |-> None] \in Runs
<1>1. <<>> \in Seq(Costs) /\ <<>> \in Seq(Records) OBVIOUS
<1>. HIDE DEF Records
<1>. QED BY <1>1 DEF Runs

\* A call costs so many tokens.
LEMMA CostsAreNumbers == \A c \in Costs : c.visible \in Nat /\ c.reasoning \in Nat
BY HostAssumption DEF HostAssumption, Executed!ExecutorsAssumption

\* The sums of the component are sums.
LEMMA ExecutedTotal == \A f, S : Executed!Total(f, S) = Total(f, S)
BY DEF Executed!Total, Total, Executed!MapThenSumSet, MapThenSumSet, Executed!MapThenFoldSet, MapThenFoldSet

\* What is written of a call adds up to what the call has cost.
LEMMA WireTyped ==
  ASSUME NEW on, NEW c \in Costs
  PROVE  /\ Executed!Wire(on, c) \in Wires
         /\ Executed!Tokens(c) \in Nat
         /\ Executed!Canonical(on, Executed!Wire(on, c)) + Executed!Wire(on, c).reasoning = Executed!Tokens(c)
BY CostsAreNumbers DEF Executed!Wire, Executed!Tokens, Executed!Canonical, Wires

\* What is bought of a call that is observed is what it cost.
LEMMA Shares ==
  ASSUME RunTyped, LogInv, run.pc # "idle"
  PROVE  /\ IsFiniteSet(Executed!Usable) /\ IsFiniteSet(DOMAIN run.calls) /\ Executed!Usable \subseteq Executed!Steps
         /\ \A i \in Executed!Steps : run.log[i].call \in DOMAIN run.calls
         /\ \A c \in DOMAIN run.calls : Executed!Tokens(run.calls[c]) \in Nat
         /\ \A i \in Executed!Usable : Executed!Share(i) = Executed!Tokens(run.calls[run.log[i].call])
         /\ \A i, j \in Executed!Usable : run.log[i].call = run.log[j].call => i = j
<1>1. /\ run.log \in Seq(Records) /\ run.calls \in Seq(Costs) /\ run.written \in Nat
      /\ run.on \in {"harness", "opencode"}
  BY DEF RunTyped, Runs
<1>2. DOMAIN run.log = 1..Len(run.log) /\ Len(run.log) \in Nat /\ DOMAIN run.calls = 1..Len(run.calls)
      /\ Len(run.calls) \in Nat
  BY <1>1
<1>3. IsFiniteSet(DOMAIN run.log) /\ IsFiniteSet(DOMAIN run.calls)
  <2>1. \A n \in Nat : IsFiniteSet(1..n) BY FS_Interval
  <2>. QED BY <1>2, <2>1
<1>4. Executed!Usable \subseteq Executed!Counted /\ Executed!Counted \subseteq Executed!Steps
      /\ Executed!Steps \subseteq DOMAIN run.log
  BY DEF Executed!Usable, Executed!Counted, Executed!Steps
<1>5. IsFiniteSet(Executed!Usable)
  <2>1. Executed!Usable \in SUBSET DOMAIN run.log BY <1>4
  <2>. QED BY <1>3, <2>1, FS_Subset
<1>6. ASSUME NEW i \in Executed!Steps PROVE run.log[i].call \in DOMAIN run.calls
  <2>1. run.log[i].call \in 1..run.written BY <1>4 DEF LogInv, Recorded, Executed!Steps
  <2>. QED BY <1>1, <1>2, <2>1 DEF LogInv
<1>7. \A c \in DOMAIN run.calls : run.calls[c] \in Costs /\ Executed!Tokens(run.calls[c]) \in Nat
  <2>1. \A c \in DOMAIN run.calls : run.calls[c] \in Costs BY <1>1
  <2>. QED BY <2>1, WireTyped
<1>8. ASSUME NEW i \in Executed!Usable PROVE Executed!Share(i) = Executed!Tokens(run.calls[run.log[i].call])
  <2>1. i \in Executed!Steps /\ run.log[i].usage # None BY <1>4 DEF Executed!Usable
  <2>2. run.log[i].usage = Executed!Wire(run.on, run.calls[run.log[i].call])
    BY <1>4, <2>1 DEF LogInv, Recorded, Executed!Steps
  <2>3. run.calls[run.log[i].call] \in Costs BY <1>6, <1>7, <2>1
  <2>. QED BY <2>2, <2>3, WireTyped DEF Executed!Share
<1>9. ASSUME NEW i \in Executed!Usable, NEW j \in Executed!Usable, run.log[i].call = run.log[j].call PROVE i = j
  <2>1. i \in Executed!Steps /\ j \in Executed!Steps /\ i \in Executed!Counted /\ j \in Executed!Counted
        /\ i \in Nat /\ j \in Nat
    BY <1>2, <1>4
  <2>2. CASE run.on = "harness" BY <1>9, <2>1, <2>2 DEF LogInv
  <2>3. CASE run.on = "opencode"
    <3>1. Executed!First(i) /\ Executed!First(j) BY <2>1, <2>3 DEF Executed!Counted
    <3>2. i <= j /\ j <= i BY <1>9, <2>1, <3>1 DEF Executed!First
    <3>. QED BY <2>1, <3>2
  <2>. QED BY <1>1, <2>2, <2>3
<1>. QED BY <1>3, <1>4, <1>5, <1>6, <1>7, <1>8, <1>9

\* No token is counted twice.
LEMMA NotOverstated ==
  ASSUME RunTyped, LogInv, run.pc # "idle"
  PROVE  Executed!Observed \in Nat /\ Executed!Spent \in Nat /\ Executed!Observed <= Executed!Spent
<1>. DEFINE f == [i \in Executed!Usable |-> Executed!Share(i)]
            g == [c \in DOMAIN run.calls |-> Executed!Tokens(run.calls[c])]
            m == [i \in Executed!Usable |-> run.log[i].call]
<1>1. m \in [Executed!Usable -> DOMAIN run.calls] /\ \A i, j \in Executed!Usable : m[i] = m[j] => i = j BY Shares
<1>2. \A c \in DOMAIN run.calls : g[c] \in Nat BY Shares
<1>3. \A i \in Executed!Usable : f[i] \in Nat /\ f[i] <= g[m[i]]
  <2>1. \A i \in Executed!Usable : m[i] \in DOMAIN run.calls /\ f[i] = g[m[i]] BY Shares
  <2>. HIDE DEF f, g, m
  <2>. QED BY <1>2, <2>1
<1>4. IsFiniteSet(Executed!Usable) /\ IsFiniteSet(DOMAIN run.calls) BY Shares
<1>5. Executed!Observed = Total(f, Executed!Usable) /\ Executed!Spent = Total(g, DOMAIN run.calls)
  BY ExecutedTotal DEF Executed!Observed, Executed!Spent
<1>. HIDE DEF f, g, m
<1>. QED BY <1>1, <1>2, <1>3, <1>4, <1>5, TotalMatched, TotalType

\* A log that has its last record, every line of which could be read, is all that was bought.
LEMMA BillWhole ==
  ASSUME RunTyped, LogInv, run.pc # "idle", Executed!Finished \/ (run.on = "harness" /\ Executed!Terminated),
         ~(Executed!Malformed > 0)
  PROVE  Executed!Observed = Executed!Spent
<1>1. /\ \A i \in DOMAIN run.log : run.log[i].kind # "junk"
      /\ \A i \in Executed!Counted : i \in Executed!Usable
  <2>. DEFINE Bad == {i \in DOMAIN run.log : run.log[i].kind = "junk"} \cup Executed!Conflicts
                       \cup (Executed!Counted \ Executed!Usable)
  <2>1. Bad \in SUBSET DOMAIN run.log BY DEF Executed!Conflicts, Executed!Counted, Executed!Steps
  <2>2. IsFiniteSet(DOMAIN run.log)
    <3>1. DOMAIN run.log = 1..Len(run.log) /\ Len(run.log) \in Nat BY RunFields
    <3>2. \A n \in Nat : IsFiniteSet(1..n) BY FS_Interval
    <3>. QED BY <3>1, <3>2
  <2>3. Executed!Malformed = Cardinality(Bad) BY DEF Executed!Malformed, Executed!Cardinality, Cardinality
  <2>. HIDE DEF Bad
  <2>4. Cardinality(Bad) \in Nat /\ (Cardinality(Bad) = 0 <=> Bad = {})
    BY <2>1, <2>2, FS_Subset, FS_CardinalityType, FS_EmptySet
  <2>5. Bad = {} BY <2>3, <2>4
  <2>. USE DEF Bad
  <2>6. \A i \in DOMAIN run.log : run.log[i].kind # "junk" BY <2>5
  <2>7. \A i \in Executed!Counted : i \in Executed!Usable BY <2>5
  <2>. QED BY <2>6, <2>7
<1>2. run.written = Len(run.calls) /\ DOMAIN run.calls = 1..Len(run.calls)
  <2>1. run.calls \in Seq(Costs) BY DEF RunTyped, Runs
  <2>2. \E i \in DOMAIN run.log : run.log[i].last BY DEF Executed!Terminated, Executed!Finished, LogInv, Recorded
  <2>. QED BY <2>1, <2>2 DEF LogInv, Recorded
<1>3. \A c \in DOMAIN run.calls : \E i \in Executed!Usable : run.log[i].call = c
  <2>. SUFFICES ASSUME NEW c \in DOMAIN run.calls PROVE \E i \in Executed!Counted : run.log[i].call = c BY <1>1
  <2>. DEFINE Mine == {i \in Executed!Steps : run.log[i].call = c}
  <2>1. Mine # {} BY <1>1, <1>2 DEF LogInv
  <2>2. Mine \subseteq Nat
    <3>1. DOMAIN run.log = 1..Len(run.log) /\ Len(run.log) \in Nat BY RunFields
    <3>. QED BY <3>1 DEF Executed!Steps
  <2>3. PICK i \in Mine : \A j \in Mine : i <= j BY <2>1, <2>2, LeastNumber
  <2>4. i \in Executed!Counted BY <2>3 DEF Executed!Counted, Executed!First
  <2>. QED BY <2>4
<1>. DEFINE f == [i \in Executed!Usable |-> Executed!Share(i)]
            g == [c \in DOMAIN run.calls |-> Executed!Tokens(run.calls[c])]
            m == [c \in DOMAIN run.calls |-> CHOOSE i \in Executed!Usable : run.log[i].call = c]
<1>4. \A c \in DOMAIN run.calls : m[c] \in Executed!Usable /\ run.log[m[c]].call = c
  <2>. SUFFICES ASSUME NEW c \in DOMAIN run.calls PROVE m[c] \in Executed!Usable /\ run.log[m[c]].call = c OBVIOUS
  <2>1. m[c] = CHOOSE i \in Executed!Usable : run.log[i].call = c OBVIOUS
  <2>. HIDE DEF m
  <2>. QED BY <1>3, <2>1
<1>5. m \in [DOMAIN run.calls -> Executed!Usable]
  <2>1. m = [c \in DOMAIN run.calls |-> m[c]] OBVIOUS
  <2>. HIDE DEF m
  <2>. QED BY <1>4, <2>1
<1>6. \A c \in DOMAIN run.calls : g[c] \in Nat BY Shares
<1>7. \A i \in Executed!Usable : run.log[i].call \in DOMAIN run.calls /\ f[i] = g[run.log[i].call] BY Shares
<1>8. IsFiniteSet(Executed!Usable) /\ IsFiniteSet(DOMAIN run.calls) BY Shares
<1>9. Executed!Observed = Total(f, Executed!Usable) /\ Executed!Spent = Total(g, DOMAIN run.calls)
  BY ExecutedTotal DEF Executed!Observed, Executed!Spent
<1>. HIDE DEF f, g, m
<1>10. \A c, d \in DOMAIN run.calls : m[c] = m[d] => c = d
  <2>. SUFFICES ASSUME NEW c \in DOMAIN run.calls, NEW d \in DOMAIN run.calls, m[c] = m[d] PROVE c = d OBVIOUS
  <2>1. run.log[m[c]].call = c /\ run.log[m[d]].call = d BY <1>4
  <2>. QED BY <2>1
<1>11. \A c \in DOMAIN run.calls : g[c] <= f[m[c]]
  <2>. SUFFICES ASSUME NEW c \in DOMAIN run.calls PROVE g[c] <= f[m[c]] OBVIOUS
  <2>1. m[c] \in Executed!Usable /\ run.log[m[c]].call = c BY <1>4
  <2>2. f[m[c]] = g[c] BY <1>7, <2>1
  <2>. QED BY <1>6, <2>2
<1>12. \A i \in Executed!Usable : f[i] \in Nat BY <1>6, <1>7
<1>13. Executed!Spent <= Executed!Observed BY <1>5, <1>6, <1>8, <1>9, <1>10, <1>11, <1>12, TotalMatched
<1>. QED BY <1>13, NotOverstated

\* A run that made no call has cost nothing.
LEMMA EmptySpent == RunTyped /\ run.calls = <<>> => Executed!Spent = 0
<1>. SUFFICES ASSUME RunTyped, run.calls = <<>> PROVE Executed!Spent = 0 OBVIOUS
<1>1. DOMAIN run.calls = {} OBVIOUS
<1>. QED BY <1>1, ExecutedTotal, TotalChoice, FS_EmptySet DEF Executed!Spent

\* What is written of an attempt that is over.
LEMMA Judged == ExecutorsInv /\ Executed!Judge => ExecutorsInv'
<1>. SUFFICES ASSUME ExecutorsInv, Executed!Judge PROVE ExecutorsInv' OBVIOUS
<1>0. RunTyped /\ LogInv /\ LedgerInv /\ run.pc = "closed" /\ run \in Runs
  BY DEF ExecutorsInv, Executed!Judge, Executed!At, RunTyped
<1>1. run.of \in Attempts /\ run.on \in {"harness", "opencode"} BY <1>0 DEF RunTyped
<1>2. PICK receipt \in {Executed!Receipt, None} :
        ledger' = [ledger EXCEPT ![run.of] =
           [on |-> run.on, error |-> run.error, receipt |-> receipt, verdict |-> Executed!Verdict,
            finished |-> Executed!Finished, spent |-> Executed!Spent]]
  BY DEF Executed!Judge
<1>3. PICK e : e = [on |-> run.on, error |-> run.error, receipt |-> receipt, verdict |-> Executed!Verdict,
                    finished |-> Executed!Finished, spent |-> Executed!Spent]
  OBVIOUS
<1>4. /\ e.on = run.on /\ e.receipt = receipt /\ e.verdict = Executed!Verdict /\ e.spent = Executed!Spent
  BY <1>3
<1>5. Executed!Observed \in Nat /\ Executed!Spent \in Nat /\ Executed!Observed <= Executed!Spent
  BY <1>0, NotOverstated
<1>7. run.on = "opencode" /\ Executed!Verdict = "SUCCEEDED" => Executed!Finished
  <2>. SUFFICES ASSUME run.on = "opencode", Executed!Verdict = "SUCCEEDED" PROVE Executed!Finished OBVIOUS
  <2>1. run.error = None /\ ~run.timedOut /\ run.exit = "zero" BY DEF Executed!Verdict
  <2>2. Executed!Transcript = "SUCCEEDED" BY <2>1 DEF Executed!Verdict
  <2>3. \E i \in Executed!Steps : run.log[i].last BY <2>2 DEF Executed!Transcript
  <2>. QED BY <2>3 DEF Executed!Finished, Executed!Steps
<1>6. ASSUME receipt # None PROVE ReceiptInv(e)
  <2>1. receipt = Executed!Receipt BY <1>6
  <2>2. CASE Executed!PreProvider
    <3>1. receipt = [status |-> "NO_PROVIDER_CONTACT", tokens |-> 0, reference |-> 0]
      BY <2>1, <2>2 DEF Executed!Receipt
    <3>2. Executed!Spent = 0 BY <1>0, <2>2, EmptySpent DEF Executed!PreProvider, RunTyped
    <3>. QED BY <1>4, <3>1, <3>2 DEF ReceiptInv
  <2>3. CASE ~Executed!PreProvider /\ Executed!Usable = {}
    BY <1>4, <2>1, <2>3 DEF Executed!Receipt, Executed!Parsed, Executed!Unknown, ReceiptInv
  <2>4. CASE ~Executed!PreProvider /\ Executed!Usable # {}
    <3>1. PICK status \in {"PARTIAL", "COMPLETE"} :
            status = IF Executed!Malformed > 0 \/ ~Executed!Terminated THEN "PARTIAL" ELSE "COMPLETE"
      OBVIOUS
    <3>2. receipt = [status |-> status, tokens |-> Executed!Observed, reference |-> Executed!Reference]
      BY <2>1, <2>4, <3>1 DEF Executed!Receipt, Executed!Parsed
    <3>3. status = "COMPLETE" /\ (run.on = "harness" \/ Executed!Verdict = "SUCCEEDED") =>
            Executed!Observed = Executed!Spent
      <4>. SUFFICES ASSUME status = "COMPLETE", run.on = "harness" \/ Executed!Verdict = "SUCCEEDED"
                    PROVE  Executed!Observed = Executed!Spent
        OBVIOUS
      <4>1. Executed!Terminated /\ ~(Executed!Malformed > 0) BY <3>1
      <4>2. run.on = "opencode" => Executed!Finished BY <1>7
      <4>. QED BY <1>0, <1>1, <4>1, <4>2, BillWhole
    <3>. QED BY <1>4, <1>5, <3>1, <3>2, <3>3 DEF ReceiptInv
  <2>. QED BY <2>2, <2>3, <2>4
<1>8. EntryInv(e) BY <1>4, <1>5, <1>6 DEF EntryInv
<1>9. LedgerInv'
  <2>1. ledger' = [ledger EXCEPT ![run.of] = e] BY <1>2, <1>3
  <2>2. DOMAIN ledger' = Attempts /\ \A a \in Attempts : ledger'[a] = IF a = run.of THEN e ELSE ledger[a]
    BY <1>0, <1>1, <2>1 DEF LedgerInv
  <2>. QED BY <1>0, <1>8, <2>2 DEF LedgerInv
<1>10. run' = Executed!Idle /\ disabled' \in BOOLEAN BY DEF Executed!Judge
<1>11. RunTyped'
  <2>1. Executed!Idle \in Runs BY RunStarts DEF Executed!Idle
  <2>. QED BY <1>10, <2>1 DEF RunTyped, Executed!Idle
<1>12. LogInv'
  <2>1. run'.written = 0 /\ run'.log = <<>> /\ run'.calls = <<>> /\ run'.on = None BY <1>10 DEF Executed!Idle
  <2>2. Executed!Steps' = {} /\ DOMAIN run'.log = {} BY <2>1 DEF Executed!Steps
  <2>. QED BY <2>1, <2>2 DEF LogInv
<1>. QED BY <1>9, <1>11, <1>12 DEF ExecutorsInv

\* A run whose log and calls are as they were.
LEMMA LogStays ==
  ASSUME LogInv, run'.log = run.log, run'.calls = run.calls, run'.written = run.written, run'.on = run.on
  PROVE  LogInv'
<1>1. Executed!Steps' = Executed!Steps BY DEF Executed!Steps
<1>. QED BY <1>1 DEF LogInv, Recorded

\* One more record.
LEMMA LogGrows ==
  ASSUME RunTyped, LogInv, NEW record \in Records, NEW written \in Nat, ~Executed!Finished,
         run' = [run EXCEPT !.log = Append(run.log, record), !.written = written],
         record.last => written = Len(run.calls),
         \/ written = run.written /\ record.kind = "error" /\ run.on # "harness"
         \/ written = run.written /\ record.kind = "end" /\ record.last
         \/ /\ written = run.written /\ record.kind = "step" /\ run.on # "harness" /\ record.call = written
               /\ written > 0
            /\ record.usage \in {None, Executed!Wire(run.on, run.calls[written])}
         \/ /\ written = run.written + 1 /\ written <= Len(run.calls) /\ record.kind = "step" /\ record.call = written
            /\ record.usage \in {None, Executed!Wire(run.on, run.calls[written])}
         \/ written = run.written + 1 /\ written <= Len(run.calls) /\ record.kind = "junk"
  PROVE  LogInv'
<1>1. /\ run.log \in Seq(Records) /\ run.calls \in Seq(Costs) /\ run.written \in Nat /\ Len(run.calls) \in Nat
      /\ run.on \in {None, "harness", "opencode"}
  BY RunFields
<1>2. PICK n, log : n = Len(run.log) + 1 /\ log = Append(run.log, record) OBVIOUS
<1>3. /\ run'.log = log /\ run'.written = written /\ run'.calls = run.calls /\ run'.on = run.on
  BY <1>2 DEF RunTyped, Runs
<1>4. /\ DOMAIN log = DOMAIN run.log \cup {n} /\ n \notin DOMAIN run.log /\ log[n] = record
      /\ \A i \in DOMAIN run.log : log[i] = run.log[i]
  BY <1>1, <1>2
<1>5. Executed!Steps' = Executed!Steps \cup (IF record.kind = "step" THEN {n} ELSE {})
  BY <1>3, <1>4 DEF Executed!Steps
<1>6. run'.written <= Len(run'.calls) BY <1>1, <1>3 DEF LogInv
<1>7. ASSUME NEW i \in DOMAIN log PROVE Recorded(i)'
  <2>1. CASE i \in DOMAIN run.log
    <3>1. log[i] = run.log[i] /\ Recorded(i) BY <1>4, <2>1 DEF LogInv
    <3>2. run.log[i].kind = "step" => run.log[i].call \in 1..written BY <1>1, <3>1 DEF Recorded
    <3>3. ~run.log[i].last BY <2>1 DEF Executed!Finished
    <3>. QED BY <1>3, <3>1, <3>2, <3>3 DEF Recorded
  <2>2. CASE i = n
    <3>1. log[i] = record BY <1>4, <2>2
    <3>2. record.kind = "step" => record.call \in 1..written
          /\ record.usage \in {None, Executed!Wire(run.on, run.calls[written])}
                                  /\ record.call = written
      BY <1>1
    <3>3. run.on = "harness" /\ record.kind = "end" => record.last OBVIOUS
    <3>. QED BY <1>3, <3>1, <3>2, <3>3 DEF Recorded
  <2>. QED BY <1>4, <2>1, <2>2
<1>0. \A i \in Executed!Steps : i \in DOMAIN run.log /\ log[i] = run.log[i] /\ run.log[i].call \in 1..run.written
  BY <1>4 DEF LogInv, Recorded, Executed!Steps
<1>8. ASSUME run.on = "harness", NEW i \in Executed!Steps', NEW j \in Executed!Steps', log[i].call = log[j].call
      PROVE  i = j
  <2>1. record.kind = "step" => record.call = run.written + 1 /\ record.call \notin 1..run.written BY <1>1, <1>8
  <2>2. CASE i \in Executed!Steps /\ j \in Executed!Steps BY <1>0, <1>8, <2>2 DEF LogInv
  <2>3. CASE i \notin Executed!Steps BY <1>0, <1>4, <1>5, <1>8, <2>1, <2>3
  <2>4. CASE j \notin Executed!Steps BY <1>0, <1>4, <1>5, <1>8, <2>1, <2>4
  <2>. QED BY <2>2, <2>3, <2>4
<1>9. ASSUME NEW c \in 1..written
      PROVE  \/ \E i \in Executed!Steps' : log[i].call = c
             \/ \E i \in DOMAIN log : log[i].kind = "junk"
  <2>1. CASE c \in 1..run.written
    <3>1. \/ \E i \in Executed!Steps : run.log[i].call = c
          \/ \E i \in DOMAIN run.log : run.log[i].kind = "junk"
      BY <2>1 DEF LogInv
    <3>. QED BY <1>0, <1>4, <1>5, <3>1
  <2>2. CASE c \notin 1..run.written
    <3>1. written = run.written + 1 /\ c = written /\ record.kind \in {"step", "junk"} BY <1>1, <2>2
    <3>2. CASE record.kind = "junk" BY <1>4, <3>2
    <3>3. CASE record.kind = "step"
      <4>1. record.call = c BY <1>1, <3>1, <3>3
      <4>. QED BY <1>4, <1>5, <3>3, <4>1
    <3>. QED BY <3>1, <3>2, <3>3
  <2>. QED BY <2>1, <2>2
<1>10. \A i \in DOMAIN run'.log : Recorded(i)' BY <1>3, <1>7
<1>11. run'.on = "harness" => \A i, j \in Executed!Steps' : run'.log[i].call = run'.log[j].call => i = j BY <1>3, <1>8
<1>12. \A c \in 1..run'.written : \/ \E i \in Executed!Steps' : run'.log[i].call = c
                                \/ \E i \in DOMAIN run'.log : run'.log[i].kind = "junk"
  BY <1>3, <1>9
<1>. QED BY <1>6, <1>10, <1>11, <1>12 DEF LogInv

\* Every step of a run, of its log and of its judgement keeps the invariant.
LEMMA ExecutorsStep == ExecutorsInv /\ Executed!Next => ExecutorsInv'
<1>. SUFFICES ASSUME ExecutorsInv, Executed!Next PROVE ExecutorsInv' OBVIOUS
<1>0. RunTyped /\ LogInv /\ LedgerInv /\ run \in Runs BY DEF ExecutorsInv, RunTyped
<1>1. CASE Executed!Judge BY <1>1, Judged
<1>2. CASE Executed!Select
  <2>1. PICK a \in Attempts, on \in {"harness", "opencode"} :
          run' = [Executed!Idle EXCEPT !.of = a, !.pc = "selected", !.on = on]
    BY <1>2 DEF Executed!Select
  <2>2. UNCHANGED <<disabled, ledger>> BY <1>2 DEF Executed!Select
  <2>3. run' = [of |-> a, on |-> on, pc |-> "selected", calls |-> <<>>, log |-> <<>>, written |-> 0,
                stderr |-> "", exit |-> None, timedOut |-> FALSE, error |-> None]
    BY <2>1 DEF Executed!Idle
  <2>4. RunTyped'
    <3>1. run' \in Runs BY <2>3, RunStarts
    <3>. QED BY <1>0, <2>2, <2>3, <3>1 DEF RunTyped
  <2>5. run'.written = 0 /\ run'.log = <<>> /\ run'.calls = <<>> BY <2>3
  <2>6. Executed!Steps' = {} /\ DOMAIN run'.log = {} BY <2>5 DEF Executed!Steps
  <2>7. LogInv' BY <2>5, <2>6 DEF LogInv
  <2>8. LedgerInv' BY <1>0, <2>2 DEF LedgerInv
  <2>. QED BY <2>4, <2>7, <2>8 DEF ExecutorsInv
\* Only where the run stands changes.
<1>3. ASSUME run' \in Runs, UNCHANGED <<disabled, ledger>>, run.pc # "idle", run'.of = run.of, run'.on = run.on,
             run'.log = run.log, run'.calls = run.calls, run'.written = run.written,
             run'.stderr = "signature" => run.calls = <<>> /\ run'.pc = "closed"
      PROVE  ExecutorsInv'
  <2>1. RunTyped' BY <1>0, <1>3 DEF RunTyped
  <2>2. LogInv' BY <1>0, <1>3, LogStays
  <2>3. LedgerInv' BY <1>0, <1>3 DEF LedgerInv
  <2>. QED BY <2>1, <2>2, <2>3 DEF ExecutorsInv
<1>4. CASE Executed!ComposeFails \/ Executed!SpawnRefused
  <2>1. PICK error \in {"configuration", "refused"} : run' = [run EXCEPT !.pc = "closed", !.error = error]
    BY <1>4 DEF Executed!ComposeFails, Executed!SpawnRefused, Executed!Throws
  <2>2. run.pc = "selected" /\ UNCHANGED <<disabled, ledger>>
    BY <1>4 DEF Executed!ComposeFails, Executed!SpawnRefused, Executed!Throws, Executed!At
  <2>3. /\ run' \in Runs /\ run'.of = run.of /\ run'.on = run.on /\ run'.log = run.log /\ run'.calls = run.calls
        /\ run'.written = run.written /\ run'.stderr = run.stderr /\ run'.pc = "closed"
    BY <1>0, <2>1 DEF Runs
  <2>. QED BY <1>0, <1>3, <2>2, <2>3 DEF RunTyped
<1>5. CASE Executed!Spawn
  <2>1. run' = [run EXCEPT !.pc = "running"] /\ run.pc = "selected" /\ UNCHANGED <<disabled, ledger>>
    BY <1>5 DEF Executed!Spawn, Executed!At
  <2>2. /\ run' \in Runs /\ run'.of = run.of /\ run'.on = run.on /\ run'.log = run.log /\ run'.calls = run.calls
        /\ run'.written = run.written /\ run'.stderr = run.stderr
    BY <1>0, <2>1 DEF Runs
  <2>. QED BY <1>0, <1>3, <2>1, <2>2 DEF RunTyped
<1>6. CASE Executed!InitFails
  <2>1. /\ run' = [run EXCEPT !.pc = "closed", !.stderr = "signature", !.exit = "nonzero"] /\ run.pc = "running"
        /\ UNCHANGED <<disabled, ledger>> /\ run.calls = <<>>
    BY <1>6 DEF Executed!InitFails, Executed!Executes, Executed!At
  <2>2. /\ run' \in Runs /\ run'.of = run.of /\ run'.on = run.on /\ run'.log = run.log /\ run'.calls = run.calls
        /\ run'.written = run.written /\ run'.pc = "closed"
    BY <1>0, <2>1 DEF Runs
  <2>. QED BY <1>3, <2>1, <2>2
<1>7. CASE Executed!Exits \/ Executed!TimesOut
  <2>1. run.pc = "running" /\ UNCHANGED <<disabled, ledger>>
    BY <1>7 DEF Executed!Exits, Executed!TimesOut, Executed!Executes, Executed!At
  <2>2. PICK exit \in {"zero", "nonzero"} :
          \/ run' = [run EXCEPT !.pc = "closed", !.exit = exit]
          \/ run' = [run EXCEPT !.pc = "closed", !.exit = exit, !.timedOut = TRUE]
    BY <1>7 DEF Executed!Exits, Executed!TimesOut, Executed!Executes
  <2>3. /\ run' \in Runs /\ run'.of = run.of /\ run'.on = run.on /\ run'.log = run.log /\ run'.calls = run.calls
        /\ run'.written = run.written /\ run'.stderr = run.stderr /\ run'.pc = "closed"
    <3>1. CASE run' = [run EXCEPT !.pc = "closed", !.exit = exit] BY <1>0, <3>1 DEF Runs
    <3>2. CASE run' = [run EXCEPT !.pc = "closed", !.exit = exit, !.timedOut = TRUE] BY <1>0, <3>2 DEF Runs
    <3>. QED BY <2>2, <3>1, <3>2
  <2>. QED BY <1>0, <1>3, <2>1, <2>3 DEF RunTyped
<1>8. CASE Executed!Calls
  <2>1. PICK c \in Costs : run' = [run EXCEPT !.calls = Append(run.calls, c)]
    BY <1>8 DEF Executed!Calls, Executed!Executes
  <2>2. run.pc = "running" /\ UNCHANGED <<disabled, ledger>> /\ ~Executed!Finished
    BY <1>8 DEF Executed!Calls, Executed!Executes, Executed!At
  <2>3. /\ run.calls \in Seq(Costs) /\ run.written \in Nat /\ run.log \in Seq(Records)
        /\ Append(run.calls, c) \in Seq(Costs) /\ Len(Append(run.calls, c)) = Len(run.calls) + 1
        /\ \A i \in 1..Len(run.calls) : Append(run.calls, c)[i] = run.calls[i]
        /\ Len(run.calls) \in Nat
    <3>1. run.calls \in Seq(Costs) /\ run.written \in Nat /\ run.log \in Seq(Records) BY <1>0, RunFields
    <3>. HIDE DEF Records
    <3>. QED BY <3>1
  <2>4. /\ run' \in Runs /\ run'.of = run.of /\ run'.on = run.on /\ run'.log = run.log
        /\ run'.calls = Append(run.calls, c) /\ run'.written = run.written /\ run'.stderr = run.stderr
           /\ run'.pc = run.pc
    BY <1>0, <2>1, <2>3 DEF Runs
  <2>5. RunTyped' BY <1>0, <2>2, <2>4 DEF RunTyped
  <2>6. LogInv'
    <3>1. Executed!Steps' = Executed!Steps BY <2>4 DEF Executed!Steps
    <3>2. run'.written <= Len(run'.calls) BY <1>0, <2>3, <2>4 DEF LogInv
    <3>3. ASSUME NEW i \in DOMAIN run.log PROVE Recorded(i)'
      <4>1. Recorded(i) BY <1>0 DEF LogInv
      <4>2. ~run.log[i].last BY <2>2 DEF Executed!Finished
      <4>3. run.log[i].kind = "step" => run'.calls[run.log[i].call] = run.calls[run.log[i].call]
        BY <1>0, <2>3, <2>4, <4>1 DEF Recorded, LogInv
      <4>. QED BY <2>4, <4>1, <4>2, <4>3 DEF Recorded
    <3>. QED BY <1>0, <2>4, <3>1, <3>2, <3>3 DEF LogInv
  <2>7. LedgerInv' BY <1>0, <2>2 DEF LedgerInv
  <2>. QED BY <2>5, <2>6, <2>7 DEF ExecutorsInv
\* What is written to the log.
<1>9. ASSUME NEW record \in Records, NEW written \in Nat, Executed!Puts(record, written), LogInv' PROVE ExecutorsInv'
  <2>1. run' = [run EXCEPT !.log = Append(run.log, record), !.written = written] /\ UNCHANGED <<disabled, ledger>>
        /\ run.pc = "running"
    BY <1>9 DEF Executed!Puts, Executed!Executes, Executed!At
  <2>2. Append(run.log, record) \in Seq(Records)
    <3>1. run.log \in Seq(Records) BY <1>0, RunFields
    <3>. QED BY <1>9, <3>1
  <2>3. run' \in Runs /\ run'.of = run.of /\ run'.on = run.on /\ run'.stderr = run.stderr /\ run'.calls = run.calls
        /\ run'.pc = run.pc
    BY <1>0, <2>1, <2>2 DEF Runs
  <2>4. RunTyped' BY <1>0, <2>1, <2>3 DEF RunTyped
  <2>5. LedgerInv' BY <1>0, <2>1 DEF LedgerInv
  <2>. QED BY <1>9, <2>4, <2>5 DEF ExecutorsInv
<1>10. run.written \in Nat /\ run.calls \in Seq(Costs) /\ Len(run.calls) \in Nat /\ run.written <= Len(run.calls)
  BY <1>0, RunFields DEF LogInv
<1>11. \A n \in 1..Len(run.calls) : Executed!Wire(run.on, run.calls[n]) \in Wires
  <2>1. \A n \in 1..Len(run.calls) : run.calls[n] \in Costs BY <1>10
  <2>. QED BY <2>1, WireTyped
<1>12. CASE Executed!WritesStep
  <2>1. PICK bill \in {None, Executed!Wire(run.on, run.calls[run.written + 1])}, last \in BOOLEAN :
          /\ last => run.written + 1 = Len(run.calls)
          /\ Executed!Puts(Executed!Record("step", run.written + 1, bill, last), run.written + 1)
    BY <1>12 DEF Executed!WritesStep
  <2>2. run.written < Len(run.calls) BY <1>12 DEF Executed!WritesStep
  <2>3. PICK r, w : r = Executed!Record("step", run.written + 1, bill, last) /\ w = run.written + 1 OBVIOUS
  <2>4. w \in Nat /\ w <= Len(run.calls) /\ w \in 1..Len(run.calls) BY <1>10, <2>2, <2>3
  <2>5. bill \in Wires \cup {None} BY <1>11, <2>1, <2>3, <2>4
  <2>6. r \in Records /\ r.kind = "step" /\ r.call = w /\ r.usage = bill /\ r.last = last
    BY <2>3, <2>4, <2>5 DEF Executed!Record, Records
  <2>7. Executed!Puts(r, w) BY <2>1, <2>3
  <2>8. LogInv'
    <3>1. r.last => w = Len(run.calls) BY <2>1, <2>3, <2>6
    <3>2. run' = [run EXCEPT !.log = Append(run.log, r), !.written = w] /\ ~Executed!Finished
      BY <2>7 DEF Executed!Puts, Executed!Executes
    <3>3. r.usage \in {None, Executed!Wire(run.on, run.calls[w])} BY <2>1, <2>3, <2>6
    <3>. QED BY <1>0, <2>3, <2>4, <2>6, <3>1, <3>2, <3>3, LogGrows
  <2>. QED BY <1>9, <2>4, <2>6, <2>7, <2>8
<1>13. CASE Executed!Replays
  <2>1. PICK bill \in {None, Executed!Wire(run.on, run.calls[run.written])} :
          Executed!Puts(Executed!Record("step", run.written, bill, FALSE), run.written)
    BY <1>13 DEF Executed!Replays
  <2>2. run.written > 0 /\ run.on # "harness" BY <1>13 DEF Executed!Replays
  <2>3. PICK r : r = Executed!Record("step", run.written, bill, FALSE) OBVIOUS
  <2>4. run.written \in 1..Len(run.calls) BY <1>10, <2>2
  <2>5. bill \in Wires \cup {None} BY <1>11, <2>1, <2>4
  <2>6. r \in Records /\ r.kind = "step" /\ r.call = run.written /\ r.usage = bill /\ ~r.last
    BY <1>10, <2>3, <2>5 DEF Executed!Record, Records
  <2>7. Executed!Puts(r, run.written) BY <2>1, <2>3
  <2>8. LogInv' BY <1>0, <1>10, <2>1, <2>2, <2>6, <2>7, LogGrows DEF Executed!Puts, Executed!Executes
  <2>. QED BY <1>9, <1>10, <2>6, <2>7, <2>8
<1>14. CASE Executed!WritesJunk
  <2>1. PICK r, w : r = Executed!Record("junk", None, None, FALSE) /\ w = run.written + 1 OBVIOUS
  <2>2. Executed!Puts(r, w) /\ run.written < Len(run.calls) BY <1>14, <2>1 DEF Executed!WritesJunk
  <2>3. w \in Nat /\ w <= Len(run.calls) BY <1>10, <2>1, <2>2
  <2>4. r \in Records /\ r.kind = "junk" /\ ~r.last BY <2>1 DEF Executed!Record, Records
  <2>5. LogInv' BY <1>0, <2>1, <2>2, <2>3, <2>4, LogGrows DEF Executed!Puts, Executed!Executes
  <2>. QED BY <1>9, <2>2, <2>3, <2>4, <2>5
<1>15. CASE Executed!WritesError
  <2>1. PICK r : r = Executed!Record("error", None, None, FALSE) OBVIOUS
  <2>2. Executed!Puts(r, run.written) /\ run.on # "harness" BY <1>15, <2>1 DEF Executed!WritesError
  <2>3. r \in Records /\ r.kind = "error" /\ ~r.last BY <2>1 DEF Executed!Record, Records
  <2>4. LogInv' BY <1>0, <1>10, <2>2, <2>3, LogGrows DEF Executed!Puts, Executed!Executes
  <2>. QED BY <1>9, <1>10, <2>2, <2>3, <2>4
<1>16. CASE Executed!WritesEnd
  <2>1. PICK r : r = Executed!Record("end", None, None, TRUE) OBVIOUS
  <2>2. Executed!Puts(r, run.written) /\ run.written = Len(run.calls) BY <1>16, <2>1 DEF Executed!WritesEnd
  <2>3. r \in Records /\ r.kind = "end" /\ r.last BY <2>1 DEF Executed!Record, Records
  <2>4. LogInv' BY <1>0, <1>10, <2>2, <2>3, LogGrows DEF Executed!Puts, Executed!Executes
  <2>. QED BY <1>9, <1>10, <2>2, <2>3, <2>4
<1>. QED BY <1>1, <1>2, <1>4, <1>5, <1>6, <1>7, <1>8, <1>12, <1>13, <1>14, <1>15, <1>16
        DEF Executed!Next, Executed!Executor

\* At first nothing runs and nothing was judged.
LEMMA ExecutorsInitially == Executed!Init => ExecutorsInv
<1>. SUFFICES ASSUME Executed!Init PROVE ExecutorsInv OBVIOUS
<1>1. RunTyped
  <2>1. Executed!Idle \in Runs BY RunStarts DEF Executed!Idle
  <2>. QED BY <2>1 DEF Executed!Init, Executed!Idle, RunTyped
<1>2. run.written = 0 /\ run.log = <<>> /\ run.calls = <<>> BY DEF Executed!Init, Executed!Idle
<1>3. Executed!Steps = {} /\ DOMAIN run.log = {} BY <1>2 DEF Executed!Steps
<1>4. LogInv BY <1>2, <1>3 DEF LogInv
<1>5. LedgerInv BY DEF LedgerInv, Executed!Init
<1>. QED BY <1>1, <1>4, <1>5 DEF ExecutorsInv

\* The invariant implies what a receipt promises.
LEMMA ExecutorsHonest == ExecutorsInv => ReceiptsAreHonest
<1>. SUFFICES ASSUME ExecutorsInv PROVE ReceiptsAreHonest OBVIOUS
<1>1. \A a \in Attempts : ledger[a] # None => EntryInv(ledger[a]) BY DEF ExecutorsInv, LedgerInv
<1>2. Executed!TypeOK
  <2>1. disabled \in BOOLEAN /\ run.of \in Attempts \cup {None} /\ run.on \in {None, "harness", "opencode"}
    BY DEF ExecutorsInv, RunTyped, Runs
  <2>2. \A a \in Executed!Receipted : ReceiptInv(ledger[a]) BY <1>1 DEF Executed!Receipted, Executed!Over, EntryInv
  <2>. QED BY <2>1, <2>2 DEF Executed!TypeOK, ReceiptInv
<1>3. Executed!NeverOverstated
  BY <1>1 DEF Executed!NeverOverstated, Executed!Receipted, Executed!Over, EntryInv, ReceiptInv
<1>4. Executed!FreeIsUnspent
  BY <1>1 DEF Executed!FreeIsUnspent, Executed!Receipted, Executed!Over, EntryInv, ReceiptInv
<1>5. Executed!BillIsWhole BY <1>1 DEF Executed!BillIsWhole, Executed!Receipted, Executed!Over, EntryInv, ReceiptInv
<1>. QED BY <1>2, <1>3, <1>4, <1>5 DEF ReceiptsAreHonest

(***************************************************************************)
(* The costs of the turns: a receipt, where there is one, has what was used,*)
(* or says that it does not know.                                          *)
(***************************************************************************)
Splits == [input : Int, cached : Int, output : Int, reasoning : Int]
Reports == [used : Reported!Usage,
            receipt : [status : {"COMPLETE", "PARTIAL", "UNKNOWN"}, split : Splits \cup {None},
                       total : Nat \cup {None}] \cup {None}]

\* A receipt has the total that was used, or none, and a complete one the counts.
Faithful(x) ==
  x.receipt # None =>
    /\ x.receipt.total \in {None, Reported!Whole(x.used)}
    /\ x.receipt.status \in {"COMPLETE", "PARTIAL", "UNKNOWN"}
    /\ x.receipt.status = "UNKNOWN" => x.receipt.total = None
    /\ x.receipt.status = "COMPLETE" => \A kind \in Reported!Kinds : x.receipt.split[kind] = x.used[kind]

ReportsInv == turns \in Seq(Reports) /\ \A i \in DOMAIN turns : Faithful(turns[i])

\* What is counted are numbers.
LEMMA NaturalCounts == Counts \subseteq Nat /\ None \notin Nat
BY HostAssumption DEF HostAssumption, Reported!CodexAssumption

\* The sums of the component are sums.
LEMMA ReportedTotal == \A f, S : Reported!Total(f, S) = Total(f, S)
BY DEF Reported!Total, Total, Reported!MapThenSumSet, MapThenSumSet, Reported!MapThenFoldSet, MapThenFoldSet

\* The tokens of a turn are numbers, and their sum is one.
LEMMA UsedCounts ==
  ASSUME NEW used \in Reported!Usage
  PROVE  /\ \A kind \in Reported!Kinds : used[kind] \in Nat
         /\ Reported!Whole(used) \in Nat /\ Reported!Whole(used) # None
<1>1. \A kind \in Reported!Kinds : used[kind] \in Nat BY NaturalCounts DEF Reported!Usage
<1>. QED BY <1>1, NaturalCounts DEF Reported!Kinds, Reported!Whole

\* What was used is a reading of every report that has its total: readings that agree agree with it.
LEMMA Observes ==
  ASSUME NEW used \in Reported!Usage, NEW inside \in Reported!Readings, NEW total \in BOOLEAN, NEW x,
         x = [used |-> used, receipt |-> Reported!Observe(Reported!Report(used, inside, total))]
  PROVE  x \in Reports /\ Faithful(x)
<1>. DEFINE u == Reported!Report(used, inside, total)
<1>1. used["input"] \in Nat /\ used["cached"] \in Nat /\ used["output"] \in Nat /\ used["reasoning"] \in Nat
  BY UsedCounts DEF Reported!Kinds
<1>3. /\ u.input = used["input"] + (IF "cached" \in inside THEN used["cached"] ELSE 0) /\ u.cached = used["cached"]
      /\ u.output = used["output"] + (IF "reasoning" \in inside THEN used["reasoning"] ELSE 0)
         /\ u.reasoning = used["reasoning"]
      /\ u.total = IF total THEN Reported!Whole(used) ELSE None
  BY DEF Reported!Report
<1>. HIDE DEF u
<1>4. u.input \in Nat /\ u.cached \in Nat /\ u.output \in Nat /\ u.reasoning \in Nat BY <1>1, <1>3
<1>5. Reported!Raw(u) \in Splits /\ \A s \in Reported!Readings : Reported!Split(u, s) \in Splits
  BY <1>4 DEF Reported!Raw, Reported!Split, Splits
<1>6. CASE ~total
  <2>1. Reported!Viable(u) = {} BY <1>3, <1>6 DEF Reported!Viable
  <2>2. x.used = used /\ x.receipt = [status |-> "PARTIAL", split |-> Reported!Raw(u), total |-> None]
    BY <1>3, <1>6, <2>1 DEF Reported!Observe, u
  <2>. QED BY <1>5, <2>2 DEF Reports, Faithful
<1>7. CASE total
  <2>1. u.total = Reported!Whole(used) /\ u.total \in Nat /\ u.total # None BY <1>3, <1>7, UsedCounts
  <2>2. Reported!Fits(u, inside) BY <1>1, <1>3 DEF Reported!Fits
  <2>3. Reported!Predict(u, inside) = u.total
    <3>1. Reported!Predict(u, inside) = u.input + u.output + (IF "cached" \in inside THEN 0 ELSE u.cached)
                                         + (IF "reasoning" \in inside THEN 0 ELSE u.reasoning)
      BY DEF Reported!Predict
    <3>2. u.total = used["input"] + used["cached"] + used["output"] + used["reasoning"] BY <2>1 DEF Reported!Whole
    <3>. QED BY <1>1, <1>3, <3>1, <3>2
  <2>4. inside \in Reported!Viable(u) BY <2>1, <2>2, <2>3 DEF Reported!Viable
  <2>5. PICK s : s = CHOOSE reading \in Reported!Viable(u) : TRUE OBVIOUS
  <2>6. s \in Reported!Viable(u) /\ s \in Reported!Readings BY <2>4, <2>5 DEF Reported!Viable
  <2>7. PICK status \in {"COMPLETE", "PARTIAL"} : status = IF Reported!Agree(u) THEN "COMPLETE" ELSE "PARTIAL" OBVIOUS
  <2>8. x.used = used /\ x.receipt = [status |-> status, split |-> Reported!Split(u, s), total |-> u.total]
    BY <2>4, <2>5, <2>7 DEF Reported!Observe, u
  <2>9. x \in Reports
    <3>1. x = [used |-> used, receipt |-> [status |-> status, split |-> Reported!Split(u, s), total |-> u.total]]
      BY <2>8
    <3>. QED BY <1>5, <2>1, <2>6, <3>1 DEF Reports
  <2>10. ASSUME status = "COMPLETE", NEW kind \in Reported!Kinds PROVE x.receipt.split[kind] = used[kind]
    <3>1. Reported!Split(u, s) = Reported!Split(u, inside) BY <2>4, <2>6, <2>7, <2>10 DEF Reported!Agree
    <3>2. Reported!Split(u, inside) = [input |-> used["input"], cached |-> used["cached"], output |-> used["output"],
                                       reasoning |-> used["reasoning"]]
      BY <1>1, <1>3 DEF Reported!Split
    <3>. QED BY <2>8, <3>1, <3>2 DEF Reported!Kinds
  <2>. QED BY <2>1, <2>8, <2>9, <2>10 DEF Faithful
<1>. QED BY <1>6, <1>7

\* Every report of a turn keeps the invariant.
LEMMA ReportsStep == ReportsInv /\ Reported!Next => ReportsInv'
<1>. SUFFICES ASSUME ReportsInv, Reported!Next PROVE ReportsInv' OBVIOUS
<1>1. PICK x : turns' = Append(turns, x) /\ x \in Reports /\ Faithful(x)
  <2>1. PICK used \in Reported!Usage :
          \/ \E inside \in SUBSET {"cached", "reasoning"}, total \in BOOLEAN :
                turns' = Append(turns, [used |-> used,
                                        receipt |-> Reported!Observe(Reported!Report(used, inside, total))])
          \/ turns' = Append(turns, [used |-> used, receipt |-> Reported!UnknownUsage])
          \/ turns' = Append(turns, [used |-> used, receipt |-> None])
    BY DEF Reported!Next, Reported!Turn, Reported!Readings
  <2>2. CASE turns' = Append(turns, [used |-> used, receipt |-> Reported!UnknownUsage])
    <3>1. PICK x : x = [used |-> used, receipt |-> Reported!UnknownUsage] OBVIOUS
    <3>. QED BY <2>2, <3>1 DEF Reported!UnknownUsage, Reports, Faithful
  <2>4. CASE turns' = Append(turns, [used |-> used, receipt |-> None])
    <3>1. PICK x : x = [used |-> used, receipt |-> None] OBVIOUS
    <3>. QED BY <2>4, <3>1 DEF Reports, Faithful
  <2>3. ASSUME NEW inside \in SUBSET {"cached", "reasoning"}, NEW total \in BOOLEAN,
               turns' = Append(turns, [used |-> used,
                                       receipt |-> Reported!Observe(Reported!Report(used, inside, total))])
        PROVE  \E x : turns' = Append(turns, x) /\ x \in Reports /\ Faithful(x)
    BY <2>3, Observes DEF Reported!Readings
  <2>. QED BY <2>1, <2>2, <2>3, <2>4
<1>2. turns' \in Seq(Reports) BY <1>1 DEF ReportsInv
<1>3. ASSUME NEW i \in DOMAIN turns' PROVE Faithful(turns'[i])
  BY <1>1, <1>3 DEF ReportsInv
<1>. QED BY <1>2, <1>3 DEF ReportsInv, Faithful

\* At first no turn was reported.
LEMMA ReportsInitially == Reported!Init => ReportsInv
BY DEF Reported!Init, ReportsInv

\* The invariant implies what the summary promises.
LEMMA ReportsTrue == ReportsInv => SplitsAreTrue
<1>. SUFFICES ASSUME ReportsInv PROVE SplitsAreTrue OBVIOUS
<1>1. \A i \in DOMAIN turns : turns[i] \in Reports /\ Faithful(turns[i]) BY DEF ReportsInv
<1>2. IsFiniteSet(DOMAIN turns)
  <2>1. DOMAIN turns = 1..Len(turns) /\ Len(turns) \in Nat BY DEF ReportsInv
  <2>. QED BY <2>1, FS_Interval
<1>0. Reported!Receipted \subseteq DOMAIN turns /\ \A i \in Reported!Receipted : turns[i].receipt # None
  BY DEF Reported!Receipted
<1>3. Reported!TypeOK
  <2>1. \A i \in DOMAIN turns : turns[i].used \in Reported!Usage BY <1>1 DEF Reports
  <2>. QED BY <1>0, <1>1, <2>1 DEF Reported!TypeOK, Faithful
<1>4. Reported!CompleteIsTrue BY <1>0, <1>1 DEF Reported!CompleteIsTrue, Faithful
<1>5. ASSUME NEW kind \in Reported!Summed PROVE Reported!Components(kind) <= Reported!Used(kind)
  <2>. DEFINE M == Reported!Measured
              f == [i \in M |-> turns[i].receipt.split[kind]]
              g == [i \in DOMAIN turns |-> turns[i].used[kind]]
  <2>0. kind \in Reported!Kinds BY DEF Reported!Summed, Reported!Kinds
  <2>1. M \in SUBSET DOMAIN turns BY <1>0 DEF Reported!Measured
  <2>2. \A i \in DOMAIN turns : g[i] \in Nat
    <3>1. \A i \in DOMAIN turns : turns[i].used \in Reported!Usage BY <1>1 DEF Reports
    <3>. QED BY <2>0, <3>1, UsedCounts
  <2>3. \A i \in M : f[i] = g[i] BY <1>0, <1>1, <2>0, <2>1 DEF Reported!Measured, Faithful
  <2>4. Reported!Components(kind) = Total(f, M) /\ Reported!Used(kind) = Total(g, DOMAIN turns)
    BY ReportedTotal DEF Reported!Components, Reported!Used
  <2>. HIDE DEF f, g, M
  <2>5. \A i \in M : f[i] \in Nat /\ f[i] <= g[i] BY <2>1, <2>2, <2>3
  <2>. QED BY <1>2, <2>1, <2>2, <2>4, <2>5, TotalMonotone
<1>. DEFINE h == [i \in Reported!Totalled |-> turns[i].receipt.total]
            w == [i \in DOMAIN turns |-> Reported!Whole(turns[i].used)]
<1>6. /\ Reported!Totalled \in SUBSET DOMAIN turns
      /\ \A i \in Reported!Totalled : turns[i].receipt.total = Reported!Whole(turns[i].used)
  BY <1>0, <1>1 DEF Reported!Totalled, Faithful
<1>7. \A i \in DOMAIN turns : Reported!Whole(turns[i].used) \in Nat
  <2>1. \A i \in DOMAIN turns : turns[i].used \in Reported!Usage BY <1>1 DEF Reports
  <2>. QED BY <2>1, UsedCounts
<1>8. Reported!TotalTokens <= Reported!WholeOf(DOMAIN turns)
  <2>1. Reported!TotalTokens = Total(h, Reported!Totalled) /\ Reported!WholeOf(DOMAIN turns) = Total(w, DOMAIN turns)
    BY ReportedTotal DEF Reported!TotalTokens, Reported!WholeOf
  <2>2. (\A i \in DOMAIN turns : w[i] \in Nat) /\ \A i \in Reported!Totalled : h[i] \in Nat /\ h[i] <= w[i]
    BY <1>6, <1>7
  <2>. HIDE DEF h, w
  <2>. QED BY <1>2, <1>6, <2>1, <2>2, TotalMonotone
<1>9. ASSUME Reported!TotalComplete PROVE Reported!TotalTokens = Reported!WholeOf(Reported!Receipted)
  <2>1. Reported!Totalled = Reported!Receipted BY <1>9 DEF Reported!TotalComplete
  <2>2. h = [i \in Reported!Receipted |-> Reported!Whole(turns[i].used)] BY <1>6, <2>1
  <2>. QED BY <2>1, <2>2 DEF Reported!TotalTokens, Reported!WholeOf
<1>. QED BY <1>3, <1>4, <1>5, <1>8, <1>9
        DEF SplitsAreTrue, Reported!ComponentsDoNotOverlap, Reported!TotalIsExact

(***************************************************************************)
(* The composition.                                                        *)
(***************************************************************************)
\* Of the processes that open the database in turn, more is known than of those that race.
HostInv ==
  /\ SupervisorInv /\ StoreInv /\ TransportInv /\ RaceInv /\ ExecutorsInv /\ ReportsInv
  /\ part = "opening" => OpeningInv

\* A step of another component keeps the invariant of this one.
LEMMA SupervisorStays == SupervisorInv /\ UNCHANGED taskVars => SupervisorInv'
BY DEF taskVars, SupervisorInv, SupervisorTyped, Held, Halts, Halted, Silent

\* A step of another component keeps the credentials.
LEMMA StoreStays == StoreInv /\ UNCHANGED secretVars => StoreInv'
BY DEF secretVars, StoreInv, StoreTyped, Startable, OneCommand, Prepared, Active, Secrets!Complete, Secrets!Has

\* A step of another component keeps the turns.
LEMMA TransportStays == TransportInv /\ UNCHANGED turnVars => TransportInv'
<1>. SUFFICES ASSUME TransportInv, UNCHANGED turnVars PROVE TransportInv' OBVIOUS
<1>1. UNCHANGED <<server, process, active, turn, work, wire>> BY DEF turnVars
<1>2. \A t \in Turns : Of(t)' = Of(t) /\ (Answered!InPlay(t)' <=> Answered!InPlay(t)) BY <1>1 DEF Of, Answered!InPlay
<1>3. TransportTyped' BY <1>1 DEF TransportInv, TransportTyped
<1>4. Taken' BY <1>1, <1>2 DEF TransportInv, Taken
<1>5. ASSUME NEW t \in Turns PROVE WireInv(t)' /\ TurnInv(t)' /\ Alone(t)'
  <2>1. WireInv(t)' BY <1>1, <1>2 DEF TransportInv, WireInv
  <2>2. TurnInv(t)' BY <1>1, <1>2 DEF TransportInv, TurnInv
  <2>3. Alone(t)' BY <1>1, <1>2 DEF TransportInv, Alone
  <2>. QED BY <2>1, <2>2, <2>3
<1>. QED BY <1>3, <1>4, <1>5 DEF TransportInv

\* A step of another component keeps the database.
LEMMA RaceStays == RaceInv /\ UNCHANGED databaseVars => RaceInv'
<1>. SUFFICES ASSUME RaceInv, UNCHANGED databaseVars PROVE RaceInv' OBVIOUS
<1>1. UNCHANGED <<results, aside, usage, columns, version, opener, recorded, priced, crashes>> BY DEF databaseVars
<1>2. Raced!StampIsTrue => Raced!StampIsTrue' BY <1>1 DEF Raced!StampIsTrue
<1>3. RaceTyped' BY <1>1 DEF RaceInv, RaceTyped
<1>4. ASSUME NEW p \in Processes PROVE Ready(p)' BY <1>1 DEF RaceInv, Ready, Renewed
<1>. QED BY <1>1, <1>2, <1>3, <1>4 DEF RaceInv

\* A step of another component keeps the rows of the database.
LEMMA OpeningStays == OpeningInv /\ UNCHANGED databaseVars => OpeningInv'
<1>. SUFFICES ASSUME OpeningInv, UNCHANGED databaseVars PROVE OpeningInv' OBVIOUS
<1>1. UNCHANGED <<results, aside, usage, columns, version, opener, recorded, priced, crashes>> BY DEF databaseVars
<1>2. InTurn' BY <1>1 DEF OpeningInv, InTurn, Opened!Opening
<1>3. ASSUME NEW p \in Processes PROVE Rebuilt(p)' BY <1>1 DEF OpeningInv, Rebuilt, Renewed
<1>4. Preserved' /\ Costed' BY <1>1 DEF OpeningInv, Preserved, Opened!Rows, Opened!RowsAside, Costed
<1>. QED BY <1>2, <1>3, <1>4 DEF OpeningInv

\* A step of another component keeps the runs and what was judged.
LEMMA ExecutorsStay == ExecutorsInv /\ UNCHANGED executorVars => ExecutorsInv'
<1>. SUFFICES ASSUME ExecutorsInv, UNCHANGED executorVars PROVE ExecutorsInv' OBVIOUS
<1>1. UNCHANGED <<disabled, run, ledger>> BY DEF executorVars
<1>2. RunTyped' BY <1>1 DEF ExecutorsInv, RunTyped
<1>3. LogInv' BY <1>1, LogStays DEF ExecutorsInv
<1>4. LedgerInv' BY <1>1 DEF ExecutorsInv, LedgerInv
<1>. QED BY <1>2, <1>3, <1>4 DEF ExecutorsInv

\* A step of another component keeps the reports.
LEMMA ReportsStay == ReportsInv /\ UNCHANGED turns => ReportsInv'
BY DEF ReportsInv

\* Every component starts as its invariant says.
LEMMA HostInitially == Init => HostInv
BY SupervisorInitially, StoreInitially, TransportInitially, RaceInitially, OpeningInitially, ExecutorsInitially,
   ReportsInitially DEF Init, HostInv

\* A step is one of the component that is exercised, and the others stay as they are.
LEMMA HostStep == HostInv /\ [Next]_vars => HostInv'
<1>. SUFFICES ASSUME HostInv, [Next]_vars PROVE HostInv' OBVIOUS
<1>0. /\ SupervisorInv /\ StoreInv /\ TransportInv /\ RaceInv /\ ExecutorsInv /\ ReportsInv
      /\ part = "opening" => OpeningInv
  BY DEF HostInv
<1>1. SupervisorInv'
  <2>1. Supervised!Next \/ UNCHANGED taskVars BY DEF Next, vars
  <2>. QED BY <1>0, <2>1, SupervisorStep, SupervisorStays
<1>2. StoreInv'
  <2>1. Secrets!Next \/ UNCHANGED secretVars BY DEF Next, vars
  <2>. QED BY <1>0, <2>1, StoreStep, StoreStays
<1>3. TransportInv'
  <2>1. Answered!Next \/ UNCHANGED turnVars BY DEF Next, vars
  <2>. QED BY <1>0, <2>1, TransportStep, TransportStays
<1>4. RaceInv'
  <2>1. Raced!Next \/ Opened!Next \/ UNCHANGED databaseVars BY DEF Next, vars
  <2>2. Opened!Next => Raced!Next BY <1>0, OpenedIsRaced DEF RaceInv
  <2>. QED BY <1>0, <2>1, <2>2, RaceStep, RaceStays
<1>5. (part = "opening" => OpeningInv)'
  <2>. SUFFICES ASSUME part' = "opening" PROVE OpeningInv' OBVIOUS
  <2>1. part = "opening" BY DEF Next, vars
  <2>2. Opened!Next \/ UNCHANGED databaseVars BY <2>1 DEF Next, vars
  <2>. QED BY <1>0, <2>1, <2>2, OpeningStep, OpeningStays
<1>6. ExecutorsInv'
  <2>1. Executed!Next \/ UNCHANGED executorVars BY DEF Next, vars
  <2>. QED BY <1>0, <2>1, ExecutorsStep, ExecutorsStay
<1>7. ReportsInv'
  <2>1. Reported!Next \/ UNCHANGED turns BY DEF Next, vars
  <2>. QED BY <1>0, <2>1, ReportsStep, ReportsStay
<1>. QED BY <1>1, <1>2, <1>3, <1>4, <1>5, <1>6, <1>7 DEF HostInv

\* The invariant of every component holds in every behaviour of the host.
THEOREM HostInvariant == Spec => []HostInv
<1>. QED BY HostInitially, HostStep, PTL DEF Spec

\* Supervisor.stop, uninstall: what was stopped stays stopped, an uninstall leaves nothing that listens, and a stop
\* that reports success has seen the port free, whoever was starting or was killed meanwhile.
THEOREM TaskObeyed == Spec => TaskIsObeyed
<1>1. HostInv => Supervised!TypeOK /\ Supervised!NoOrphan /\ Supervised!StoppedStays
  BY DEF HostInv, SupervisorInv, SupervisorTyped, Held, Halts, Silent, Supervised!TypeOK, Supervised!NoOrphan,
         Supervised!StoppedStays, Supervised!Listening
<1>2. HostInv /\ [Next]_vars =>
        [(op.pc = "wait" /\ op'.pc # "wait" /\ report' # "failed") => ~Supervised!Listening]_(Supervised!vars)
  <2>. SUFFICES ASSUME HostInv, [Next]_vars, op.pc = "wait", op'.pc # "wait", report' # "failed"
                PROVE  ~Supervised!Listening
    OBVIOUS
  <2>1. Supervised!Next BY DEF Next, vars, taskVars
  <2>. QED BY <2>1, SupervisorTells DEF HostInv, Supervised!Listening
<1>. QED BY <1>1, <1>2, HostInvariant, PTL DEF Spec, TaskIsObeyed, Supervised!StopTellsTruth

\* SecretStore.provision, addRole, migrate: a store that exists can start the runtime; a value leaves the environment
\* only when it is the one the store has, except when add-role found another there, which stays; and a change of one
\* record keeps the others, wherever a command dies.
THEOREM CredentialsKept == Spec => CredentialsAreKept
<1>1. HostInv => Secrets!TypeOK /\ Secrets!AlwaysStartable
  BY DEF HostInv, StoreInv, StoreTyped, Startable, Credentials, Secrets!TypeOK, Secrets!AlwaysStartable
<1>2. HostInv /\ [Next]_vars =>
        [\A r \in Roles : (Secrets!Has(env, r) /\ ~Secrets!Has(env', r)) =>
            \/ records[r] = env[r] /\ records'[r] = env[r]
            \/ Secrets!FoundStored(r) /\ Secrets!Has(records, r) /\ records'[r] = records[r]]_(Secrets!vars)
  <2>. SUFFICES ASSUME HostInv, [Next]_vars, ~UNCHANGED Secrets!vars
                PROVE  \A r \in Roles : Secrets!Has(env, r) /\ ~Secrets!Has(env', r) =>
                          \/ records[r] = env[r] /\ records'[r] = env[r]
                          \/ Secrets!FoundStored(r) /\ Secrets!Has(records, r) /\ records'[r] = records[r]
    OBVIOUS
  <2>1. Secrets!Next BY DEF Next, vars, secretVars, Secrets!vars
  <2>. QED BY <2>1, StoreClears DEF HostInv
<1>3. HostInv /\ [Next]_vars =>
        [\A c \in Cmds : (cmd[c].kind \in {"add", "present", "migrate"} /\ cmd'[c] # cmd[c]) =>
            \A r \in Roles : Secrets!Has(records, r) => records'[r] = records[r]]_(Secrets!vars)
  <2>. SUFFICES ASSUME HostInv, [Next]_vars, ~UNCHANGED Secrets!vars
                PROVE  \A c \in Cmds : cmd[c].kind \in {"add", "present", "migrate"} /\ cmd'[c] # cmd[c] =>
                          \A r \in Roles : Secrets!Has(records, r) => records'[r] = records[r]
    OBVIOUS
  <2>1. Secrets!Next BY DEF Next, vars, secretVars, Secrets!vars
  <2>. QED BY <2>1, StoreAdds DEF HostInv
<1>. QED
  BY <1>1, <1>2, <1>3, HostInvariant, PTL DEF Spec, CredentialsAreKept, Secrets!ClearedIsStored, Secrets!RolesAreKept

\* runTurn: a completed turn has run and its text is its own, a turn that was refused or is replayed has not run and
\* will not, and one that is reported as failed has not either as long as the app server has not exited, however the
\* messages of the turns of a thread are mixed and whenever the server complains or exits.
THEOREM AnswersTrue == Spec => []AnswersAreTrue
<1>1. HostInv => AnswersAreTrue BY TransportAnswers DEF HostInv
<1>. QED BY <1>1, HostInvariant, PTL

\* migrate: a version that is stamped is true, whoever races or dies; and while one process after the other opens the
\* database, and any of them may die at any statement, no receipt of a cancellation is destroyed and no price is lost.
THEOREM DatabaseSafe == Spec => []DatabaseIsKept
<1>1. HostInv => DatabaseIsKept BY DatabaseKept DEF HostInv
<1>. QED BY <1>1, HostInvariant, PTL

\* The receipts of an attempt: no token counted twice, what is free has cost nothing, and a complete receipt of
\* Harness, or of an attempt that succeeded, is the whole bill, for any number of calls and any order in which the log
\* repeats and loses them.
THEOREM ReceiptsHonest == Spec => []ReceiptsAreHonest
<1>1. HostInv => ReceiptsAreHonest BY ExecutorsHonest DEF HostInv
<1>. QED BY <1>1, HostInvariant, PTL

\* summarize: no component of the total and no total of a run is more than was used, and a complete total is exactly
\* what the turns with a receipt used, for any number of turns, any of which may have none.
THEOREM SplitsTrue == Spec => []SplitsAreTrue
<1>1. HostInv => SplitsAreTrue BY ReportsTrue DEF HostInv
<1>. QED BY <1>1, HostInvariant, PTL
=============================================================================
