---------------------------- MODULE SecretStore ----------------------------
(***************************************************************************)
(* DpapiSecretStore (src/src/supervisor.js): the file of sealed            *)
(* credentials, and the commands that write it: install (provision),       *)
(* add-role and migrate-secrets.  Each is a process of its own that reads   *)
(* the file, waits for DPAPI, and replaces the file; the credentials come   *)
(* from the user's persistent environment and are cleared from it.          *)
(* A record is the value it was sealed from; nothing but load unseals one.  *)
(***************************************************************************)
EXTENDS Naturals, FiniteSets

CONSTANTS
    Roles,       \* credential roles
    Required,    \* those the runtime cannot start without
    Values,      \* the values a credential has over time
    Cmds,        \* commands, each run once
    Concurrent,  \* commands may overlap
    Faults,      \* DPAPI, a write or the cleanup may fail, and a process may die
    None

StoreAssumption == Required \subseteq Roles /\ None \notin Values /\ {Concurrent, Faults} \subseteq BOOLEAN

VARIABLES
    format,   \* of the file: none, legacy, scoped, or torn
    records,  \* what is in it
    env,      \* HKCU\Environment
    cmd       \* the commands

vars == <<format, records, env, cmd>>
store == <<format, records>>

NoRecords == [r \in Roles |-> None]
Unused == [kind |-> "none", pc |-> "unused", mine |-> NoRecords, clear |-> {}]

Has(recs, r) == recs[r] # None
Ready(c, pc) == cmd[c].pc = pc
Complete(recs) == \A r \in Required : Has(recs, r)

Begin(c, kind, pc, mine, clear) ==
    cmd' = [cmd EXCEPT ![c] = [kind |-> kind, pc |-> pc, mine |-> mine, clear |-> clear]]
To(c, pc) == cmd' = [cmd EXCEPT ![c].pc = pc]

Quiet == Concurrent \/ \A d \in Cmds : cmd[d].pc \in {"unused", "ended"}
MayBegin(c) == Ready(c, "unused") /\ Quiet

\* The user sets a credential, for an install or an add-role.
Supply ==
    /\ Quiet
    /\ \E r \in Roles, v \in Values : env[r] = None /\ env' = [env EXCEPT ![r] = v]
    /\ UNCHANGED <<store, cmd>>

\* Mutant: whatever is there is sealed.
CollectedAnyhow(source) == \E r \in Required : Has(source, r)

\* collectRoleRecords: a required role without its token is refused.
Collected(source) == Complete(source)

\* provision with credentials: every role of the environment, and only those, make the new store.
Provision(c) ==
    /\ MayBegin(c) /\ Collected(env)
    /\ Begin(c, "provision", "sealing", env, Roles)
    /\ UNCHANGED <<store, env>>

\* Mutant: the optional roles are not read back.
AddsAlone(c) ==
    /\ MayBegin(c) /\ format = "scoped"
    /\ \E r \in Roles :
          /\ Has(env, r) /\ ~Has(records, r)
          /\ Begin(c, "add", "sealing", [q \in Roles |-> IF q = r THEN env[r] ELSE IF q \in Required THEN records[q] ELSE None], {r})
    /\ UNCHANGED <<store, env>>

\* addRole: the records of now, with one more; a role that is there already is only cleared, whatever its value.
AddRole(c) ==
    /\ MayBegin(c) /\ format = "scoped"
    /\ \E r \in Roles :
          /\ Has(env, r)
          /\ IF Has(records, r) THEN Begin(c, "present", "clearing", NoRecords, {r})
             ELSE Begin(c, "add", "sealing", [records EXCEPT ![r] = env[r]], {r})
    /\ UNCHANGED <<store, env>>

\* migrateLegacyStore: the combined bundle is unsealed, and every role sealed on its own.
Migrate(c) ==
    /\ MayBegin(c) /\ format = "legacy" /\ Collected(records)
    /\ Begin(c, "migrate", "sealing", records, {})
    /\ UNCHANGED <<store, env>>

\* protect
Seals(c) == Ready(c, "sealing") /\ To(c, "writing") /\ UNCHANGED <<store, env>>

\* writeStore: a sibling is written and flushed, and then it is the file.
WritesTemporary(c) == Ready(c, "writing") /\ To(c, "renaming") /\ UNCHANGED <<store, env>>

Renames(c) ==
    /\ Ready(c, "renaming")
    /\ format' = "scoped" /\ records' = cmd[c].mine
    /\ To(c, IF cmd[c].clear = {} THEN "ended" ELSE "clearing")
    /\ UNCHANGED env

\* Mutant: the environment is cleared before the store is replaced.
ClearsEarly(c) ==
    /\ cmd[c].pc \in {"writing", "clearing"} /\ (Ready(c, "writing") => cmd[c].clear # {})
    /\ env' = [r \in Roles |-> IF r \in cmd[c].clear THEN None ELSE env[r]]
    /\ IF Ready(c, "writing") THEN UNCHANGED cmd ELSE To(c, "ended")
    /\ UNCHANGED store

\* clearUserEnvironmentScript, for every role or for the one that was added.
Clears(c) ==
    /\ Ready(c, "clearing")
    /\ env' = [r \in Roles |-> IF r \in cmd[c].clear THEN None ELSE env[r]]
    /\ To(c, "ended")
    /\ UNCHANGED store

\* A step fails, or the process dies; `finally' removes the temporary file, and otherwise it is a file nobody reads.
Fails(c) ==
    /\ Faults /\ cmd[c].pc \in {"sealing", "writing", "renaming", "clearing"}
    /\ To(c, "ended")
    /\ UNCHANGED <<store, env>>

\* The state at first: nothing installed, or the combined bundle of an earlier version.
Init ==
    /\ env = NoRecords /\ cmd = [c \in Cmds |-> Unused]
    /\ \/ format = "none" /\ records = NoRecords
       \/ format = "legacy" /\ records \in [Roles -> Values \cup {None}] /\ Complete(records)

Next ==
    \/ Supply
    \/ \E c \in Cmds :
          \/ Provision(c) \/ AddRole(c) \/ Migrate(c) \/ Seals(c) \/ WritesTemporary(c) \/ Renames(c)
          \/ Clears(c) \/ Fails(c)

Spec == Init /\ [][Next]_vars

(***************************************************************************)
(* Properties.                                                             *)
(***************************************************************************)
\* Every record is a value of its role, and the file has a format.
TypeOK == format \in {"none", "legacy", "scoped"} /\ {records, env} \subseteq [Roles -> Values \cup {None}]

\* SUP-005d, SUP-005c: whatever fails and wherever, a store that exists can start the runtime.
AlwaysStartable == format # "none" => Complete(records)

\* addRole found the role in the store.
FoundStored(r) == \E c \in Cmds : cmd[c].kind = "present" /\ Ready(c, "clearing") /\ cmd[c].clear = {r}

\* SUP-005, SUP-012: the value of a credential leaves the environment only when that value is in the store, its one
\* other copy, whatever fails; except that add-role clears a role that the store has, whose record then stays.
ClearedIsStored ==
    [][\A r \in Roles : (Has(env, r) /\ ~Has(env', r)) =>
          \/ records[r] = env[r] /\ records'[r] = env[r]
          \/ FoundStored(r) /\ Has(records, r) /\ records'[r] = records[r]]_vars

\* SUP-012: add-role preserves every other record, and migrate-secrets every record.
RolesAreKept ==
    [][\A c \in Cmds : (cmd[c].kind \in {"add", "present", "migrate"} /\ cmd'[c] # cmd[c]) =>
          \A r \in Roles : Has(records, r) => records'[r] = records[r]]_vars
=============================================================================
