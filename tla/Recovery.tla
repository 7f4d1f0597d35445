------------------------------ MODULE Recovery ------------------------------
(***************************************************************************)
(* Backup and restore: src/src/recovery.js, called by the server through   *)
(* Dispatcher.backup, restore and resolveRestore (src/src/service.js).      *)
(* The database is "operational truth", the integration branches of the    *)
(* registered projects are "code truth"; a restore replaces the first and   *)
(* moves the second, one repository after the other.  Meanwhile the server  *)
(* integrates, projects are retired, developers move branches, repositories *)
(* disappear, and the server can die.  runIntegration is one step here, its *)
(* inside is Integration.tla.                                               *)
(***************************************************************************)
EXTENDS Naturals, FiniteSets

CONSTANTS
    Repos,           \* registered projects, each with its repository
    MaxCommits,      \* bound: commits made
    MaxOps,          \* bound: backups and restores requested
    MaxRetirings,    \* bound: projects retired or taken up again
    Crashing,        \* the server may die
    None

VARIABLES
    up,          \* the server runs
    db,          \* the live database, or None between its removal and its copy
    branch,      \* head of each integration branch, None when the repository is gone
    backups,     \* backups with a manifest
    marker,      \* restore-needs-reconciliation.json exists
    op,          \* the backup or restore under way
    commits,     \* history: commits made
    ops,         \* history: operations requested
    retirings,   \* history: projects retired or taken up again
    owed         \* history: repositories a replaced database still needs moved

vars == <<up, db, branch, backups, marker, op, commits, ops, retirings, owed>>

Commit == 0..MaxCommits
Database == [heads : [Repos -> Commit \cup {None}], active : SUBSET Repos]

RecoveryAssumption ==
    /\ {MaxCommits, MaxOps, MaxRetirings} \subseteq Nat /\ None \notin Nat \cup Database
    /\ Crashing \in BOOLEAN

Blank == [heads |-> [r \in Repos |-> None], active |-> {}]

Idle == [pc |-> "idle", snap |-> None, required |-> {}, heads |-> [r \in Repos |-> None], todo |-> {},
         from |-> None, both |-> FALSE, blocked |-> FALSE, seen |-> None, failed |-> {}]

At(pc) == up /\ op.pc = pc
\* The server's handle is closed from the end of the safety backup until the restore is over.
HandleOpen == up /\ op.pc \in {"idle", "listing", "heads"}

\* Mutant: every repository of the backup takes part.
RequiredAll(b) == Repos

\* A manifest of this build says which repositories take part; for an older one the snapshot does.
Required(b) == IF b.required = None THEN b.db.active ELSE b.required

(***************************************************************************)
(* createBackup: the snapshot, the project list, then each head, an await  *)
(* between any two; it counts once its manifest is written.                *)
(***************************************************************************)
Begin(from, both) ==
    /\ At("idle") /\ ops < MaxOps
    /\ ops' = ops + 1
    /\ op' = [Idle EXCEPT !.pc = "listing", !.snap = db, !.from = from, !.both = both]
    /\ UNCHANGED <<up, db, branch, backups, marker, commits, retirings, owed>>

BackupCreate == Begin(None, FALSE)

\* Dispatcher.restore takes a safety backup of its own before it closes the database.
BackupRestore == \E b \in backups, both \in BOOLEAN : Begin(b, both)

ListProjects ==
    /\ At("listing")
    /\ op' = [op EXCEPT !.pc = "heads", !.required = db.active, !.todo = Repos]
    /\ UNCHANGED <<up, db, branch, backups, marker, commits, ops, retirings, owed>>

ReadHead(r) ==
    /\ At("heads") /\ r \in op.todo
    /\ op' = [op EXCEPT !.heads[r] = branch[r], !.todo = @ \ {r}]
    /\ UNCHANGED <<up, db, branch, backups, marker, commits, ops, retirings, owed>>

\* The manifest ends a backup; of a restore it ends the first part, and the handle is closed.
WriteManifest ==
    /\ At("heads") /\ op.todo = {}
    /\ backups' = backups \cup {[db |-> op.snap, heads |-> op.heads, required |-> op.required]}
    /\ op' = IF op.from = None THEN Idle
             ELSE [Idle EXCEPT !.pc = "preflight", !.from = op.from, !.both = op.both,
                               !.todo = IF op.both THEN Required(op.from) ELSE {}]
    /\ UNCHANGED <<up, db, branch, marker, commits, ops, retirings, owed>>

(***************************************************************************)
(* restoreBackup.                                                          *)
(***************************************************************************)
\* Nothing recorded to go back to, or no repository to ask.
Unreturnable(r) == op.from.heads[r] = None \/ branch[r] = None

Preflight(r) ==
    /\ At("preflight") /\ r \in op.todo
    /\ op' = [op EXCEPT !.todo = @ \ {r}, !.blocked = @ \/ Unreturnable(r)]
    /\ UNCHANGED <<up, db, branch, backups, marker, commits, ops, retirings, owed>>

Refuse ==
    /\ At("preflight") /\ op.todo = {} /\ op.blocked
    /\ op' = Idle
    /\ UNCHANGED <<up, db, branch, backups, marker, commits, ops, retirings, owed>>

\* Mutant: the safety backup of Dispatcher.restore is taken to be enough.
RemoveUncopied ==
    /\ At("preflight") /\ op.todo = {} /\ ~op.blocked
    /\ db' = None
    /\ op' = [op EXCEPT !.pc = "copying"]
    /\ UNCHANGED <<up, branch, backups, marker, commits, ops, retirings, owed>>

\* Mutant: a failed copy goes unnoticed.
RemoveOnly ==
    /\ At("preflight") /\ op.todo = {} /\ ~op.blocked
    /\ backups' = backups \cup {[db |-> db, heads |-> Idle.heads, required |-> {}]}
    /\ db' = None
    /\ op' = [op EXCEPT !.pc = "moving"]
    /\ UNCHANGED <<up, branch, marker, commits, ops, retirings, owed>>

\* The files of the closed database are copied aside, with no word of any repository, and removed.
Remove ==
    /\ At("preflight") /\ op.todo = {} /\ ~op.blocked
    /\ backups' = backups \cup {[db |-> db, heads |-> Idle.heads, required |-> {}]}
    /\ db' = None
    /\ op' = [op EXCEPT !.pc = "copying"]
    /\ UNCHANGED <<up, branch, marker, commits, ops, retirings, owed>>

ToMove == IF op.both THEN Required(op.from) ELSE {}

\* A step before the database is removed throws: the snapshot, the manifest, the safety copy or the removal.
Throws ==
    /\ up /\ op.pc \in {"listing", "heads", "preflight"}
    /\ op' = Idle
    /\ UNCHANGED <<up, db, branch, backups, marker, commits, ops, retirings, owed>>

\* copyFileSync throws: what is opened again is an empty database, and nothing is marked.
CopyThrows ==
    /\ At("copying")
    /\ db' = Blank /\ op' = Idle /\ owed' = {}
    /\ UNCHANGED <<up, branch, backups, marker, commits, ops, retirings>>

Copy ==
    /\ At("copying")
    /\ db' = op.from.db
    /\ op' = [op EXCEPT !.pc = "moving", !.todo = ToMove]
    /\ owed' = { r \in ToMove : branch[r] # op.from.heads[r] }
    /\ UNCHANGED <<up, branch, backups, marker, commits, ops, retirings>>

ReadBranch(r) ==
    /\ At("moving") /\ op.seen = None /\ r \in op.todo
    /\ op' = CASE branch[r] = None -> [op EXCEPT !.todo = @ \ {r}, !.failed = @ \cup {r}]
               [] branch[r] # None /\ branch[r] = op.from.heads[r] -> [op EXCEPT !.todo = @ \ {r}]
               [] OTHER -> [op EXCEPT !.seen = [repo |-> r, head |-> branch[r]]]
    /\ UNCHANGED <<up, db, branch, backups, marker, commits, ops, retirings, owed>>

Handled(r, failed) == [op EXCEPT !.seen = None, !.todo = @ \ {r}, !.failed = @ \cup failed]

\* updateRefCas: a lease on the head that was read.
MoveBranch ==
    LET r == op.seen.repo IN
    /\ At("moving") /\ op.seen # None
    /\ branch[r] = op.seen.head
    /\ branch' = [branch EXCEPT ![r] = op.from.heads[r]]
    /\ owed' = owed \ {r}
    /\ op' = Handled(r, {})
    /\ UNCHANGED <<up, db, backups, marker, commits, ops, retirings>>

\* The branch moved, the repository is gone, or git refuses for a reason of its own.
MoveFails ==
    /\ At("moving") /\ op.seen # None
    /\ op' = Handled(op.seen.repo, {op.seen.repo})
    /\ UNCHANGED <<up, db, branch, backups, marker, commits, ops, retirings, owed>>

\* Mutant: whether the restore is coherent is judged by its preflight.
FinishPreflighted ==
    /\ At("moving") /\ op.todo = {} /\ op.seen = None
    /\ marker' = (marker \/ op.blocked)
    /\ op' = Idle
    /\ UNCHANGED <<up, db, branch, backups, commits, ops, retirings, owed>>

Finish ==
    /\ At("moving") /\ op.todo = {} /\ op.seen = None
    /\ marker' = (marker \/ op.failed # {})
    /\ op' = Idle
    /\ UNCHANGED <<up, db, branch, backups, commits, ops, retirings, owed>>

\* A person has dealt with the repositories of an earlier restore and says so.  The file goes before the event is
\* written: during another restore, when the handle is closed, the call fails and the marker is cleared.
ResolveRestore ==
    /\ up /\ marker
    /\ marker' = FALSE /\ owed' = IF op.pc = "moving" THEN owed ELSE {}
    /\ UNCHANGED <<up, db, branch, backups, op, commits, ops, retirings>>

(***************************************************************************)
(* Everybody else.                                                         *)
(***************************************************************************)
Committed(r) == commits' = commits + 1 /\ branch' = [branch EXCEPT ![r] = commits + 1]

Integrate(r) ==
    /\ HandleOpen
    /\ r \in db.active /\ branch[r] # None /\ commits < MaxCommits
    /\ Committed(r)
    /\ db' = [db EXCEPT !.heads[r] = commits + 1]
    /\ UNCHANGED <<up, backups, marker, op, ops, retirings, owed>>

RetireProject(r) ==
    /\ HandleOpen /\ db.heads[r] # None /\ retirings < MaxRetirings
    /\ retirings' = retirings + 1
    /\ db' = [db EXCEPT !.active = IF r \in @ THEN @ \ {r} ELSE @ \cup {r}]
    /\ UNCHANGED <<up, branch, backups, marker, op, commits, ops, owed>>

Outside(r) ==
    /\ branch[r] # None
    /\ \/ commits < MaxCommits /\ Committed(r)
       \/ branch' = [branch EXCEPT ![r] = None] /\ UNCHANGED commits
    /\ UNCHANGED <<up, db, backups, marker, op, ops, retirings, owed>>

Crash ==
    /\ Crashing /\ up
    /\ up' = FALSE /\ op' = Idle
    /\ UNCHANGED <<db, branch, backups, marker, commits, ops, retirings, owed>>

\* openDatabase makes a database where there is none.
Restart ==
    /\ ~up /\ up' = TRUE
    /\ db' = IF db = None THEN Blank ELSE db
    /\ UNCHANGED <<branch, backups, marker, op, commits, ops, retirings, owed>>

First(active) == [heads |-> [r \in Repos |-> 0], active |-> active]

\* There may be a backup that an older build has made of it, whose manifest says nothing of retirement.
Init ==
    /\ up = TRUE /\ branch = [r \in Repos |-> 0]
    /\ \E active \in SUBSET Repos :
          /\ db = First(active)
          /\ backups \in {{}, {[db |-> First(active), heads |-> branch, required |-> None]}}
    /\ marker = FALSE /\ op = Idle /\ commits = 0 /\ ops = 0 /\ retirings = 0 /\ owed = {}

Next ==
    \/ BackupCreate \/ BackupRestore \/ ListProjects \/ WriteManifest
    \/ Throws \/ CopyThrows \/ Refuse \/ Remove \/ Copy \/ MoveBranch \/ MoveFails \/ Finish \/ ResolveRestore
    \/ \E r \in Repos : ReadHead(r) \/ Preflight(r) \/ ReadBranch(r) \/ Integrate(r) \/ RetireProject(r) \/ Outside(r)
    \/ Crash \/ Restart

Spec == Init /\ [][Next]_vars

(***************************************************************************)
(* Properties.                                                             *)
(***************************************************************************)
Backup == [db : Database, heads : [Repos -> Commit \cup {None}], required : (SUBSET Repos) \cup {None}]

\* The database is a database whenever a handler may read it, and every backup can be restored.
TypeOK ==
    /\ {up, marker} \subseteq BOOLEAN
    /\ db \in Database \cup {None} /\ (HandleOpen => db # None)
    /\ branch \in [Repos -> Commit \cup {None}]
    /\ backups \subseteq Backup
    /\ op.from \in backups \cup {None} /\ op.todo \subseteq Repos /\ op.failed \subseteq Repos

\* recovery.js:17 "A restore that could not be completed coherently leaves this marker behind": when no restore is
\* under way and a database was put back whose repositories did not follow, the marker says so, until a person has
\* dealt with them.  (One that was removed and not put back is not marked: EmptiedIsMarked.)
DividedIsMarked == (At("idle") /\ owed # {}) => marker

\* recovery.js:176: "losing the pre-restore state because the restore was the wrong choice would be the
\* worst possible outcome": whatever a restore replaces is in a backup, the writes of its last awaits too.
ReplacedIsKept == [][(db # None /\ db' = None) => \E b \in backups' : b.db = db]_vars

\* A restore moves the branch of a repository.
Moved(r) == At("moving") /\ commits' = commits /\ branch'[r] \notin {branch[r], None}

\* restoreBackup: "silently moving a branch in a repository the operator has moved on from": a branch is moved only
\* where the restored database tracks the project, or where the project list of its backup does: one that was taken
\* up between the snapshot and the list (OnlyTrackedMoves).
OnlyListedMoves ==
    [][\A r \in Repos : Moved(r) => r \in db.active \/ (op.from.required # None /\ r \in op.from.required)]_vars
-----------------------------------------------------------------------------
(* Promises of the repository that the code does not keep: section 8 of the  *)
(* README has the behaviour that contradicts each.                           *)

\* recovery.js:85 "Operational truth and code truth must be restorable together": the heads of a backup are
\* those its database knows.
BackupAgrees == \A b \in backups : \A r \in Required(b) : b.heads[r] \in {b.db.heads[r], None}

\* recovery.js:61: a backup captures "crucially where every registered repository's integration branch
\* stood at that moment".
BackupHasHeads == \A b \in backups : b.db.active \subseteq Required(b)

\* recovery.js:17, of a restore that removed the database and could not copy the other one.
EmptiedIsMarked == (At("idle") /\ db = Blank) => marker

\* recovery.js, restoreBackup: "A retired project's branch is left exactly where it is."
OnlyTrackedMoves == [][\A r \in Repos : Moved(r) => r \in db.active]_vars
=============================================================================
