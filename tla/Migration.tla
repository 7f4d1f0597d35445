------------------------------ MODULE Migration ------------------------------
(***************************************************************************)
(* openDatabase and migrate (src/src/db.js): every process that opens the  *)
(* database brings it up to date first, one statement at a time.  Two       *)
(* tables stand for those that are rebuilt: cancellation_results, whose     *)
(* rebuild is a script of statements that commit one by one, and            *)
(* manager_usage_receipts, whose rebuild is one transaction.  Both hold     *)
(* receipts, which are written once and never changed.                      *)
(***************************************************************************)
EXTENDS Naturals, FiniteSets

CONSTANTS
    Processes,   \* processes that open the database
    Receipts,    \* receipts, of a cancellation or of the usage of a turn
    Columns,     \* columns that a migration adds
    Together,    \* processes may open it at one time
    MaxCrashes,  \* bound: processes that die while they open it
    None

Tables == [check : {"old", "new"}, rows : SUBSET Receipts, guarded : BOOLEAN]

MigrationAssumption ==
    /\ Together \in BOOLEAN /\ MaxCrashes \in Nat
    /\ \A table \in Tables : table # None
    /\ \A rows \in SUBSET Receipts : rows # None

VARIABLES
    results,   \* cancellation_results: its CHECK, its rows, its immutability triggers; None: no such table
    aside,     \* cancellation_results_rebuilt: its rows; None: no such table
    usage,     \* manager_usage_receipts, and the rows of it that have a price
    columns,   \* the columns that were added
    version,   \* schema_version in metadata
    proc,      \* the processes
    recorded,  \* history: cancellation receipts that were written
    priced,    \* history: usage receipts that were written with their price
    crashes    \* history: processes that died

tables == <<results, aside, usage, columns, version>>
vars == <<tables, proc, recorded, priced, crashes>>

At(p, pc) == proc[p].pc = pc
To(p, pc) == proc' = [proc EXCEPT ![p].pc = pc]

\* A statement fails: openDatabase throws.
Throws(p) == To(p, "closed") /\ UNCHANGED tables

Opening(p) == proc[p].pc \notin {"closed", "open"}

(***************************************************************************)
(* openDatabase.                                                           *)
(***************************************************************************)
Fresh == [check |-> "new", rows |-> {}, guarded |-> TRUE]

\* SCHEMA: every table and every trigger that is missing.
RunsSchema(p) ==
    /\ At(p, "closed") /\ (Together \/ \A q \in Processes : ~Opening(q))
    /\ results' = IF results = None THEN Fresh ELSE [results EXCEPT !.guarded = TRUE]
    /\ usage' = [usage EXCEPT !.guarded = TRUE]
    /\ To(p, "check") /\ UNCHANGED <<aside, columns, version>>

\* Mutant: the table is rebuilt by every open.
AlwaysStale == results # None

Stale == results # None /\ results.check = "old"

ReadsCheck(p) ==
    /\ At(p, "check") /\ To(p, IF Stale THEN "triggers" ELSE "columns")
    /\ UNCHANGED tables

(***************************************************************************)
(* The rebuild of cancellation_results: a script, not a transaction.       *)
(***************************************************************************)
DropsTriggers(p) ==
    /\ At(p, "triggers") /\ To(p, "create")
    /\ results' = IF results = None THEN None ELSE [results EXCEPT !.guarded = FALSE]
    /\ UNCHANGED <<aside, usage, columns, version>>

CreatesAside(p) ==
    /\ At(p, "create")
    /\ \/ aside # None /\ Throws(p)
       \/ aside = None /\ aside' = {} /\ To(p, "copy") /\ UNCHANGED <<results, usage, columns, version>>

Copies(p) ==
    /\ At(p, "copy")
    /\ LET fits == aside # None /\ results # None /\ aside \cap results.rows = {} IN
       \/ ~fits /\ Throws(p)
       \/ fits /\ aside' = aside \cup results.rows /\ To(p, "drop") /\ UNCHANGED <<results, usage, columns, version>>

Drops(p) ==
    /\ At(p, "drop")
    /\ \/ results = None /\ Throws(p)
       \/ results # None /\ results' = None /\ To(p, "rename") /\ UNCHANGED <<aside, usage, columns, version>>

Renames(p) ==
    /\ At(p, "rename")
    /\ LET fits == aside # None /\ results = None IN
       \/ ~fits /\ Throws(p)
       \/ /\ fits /\ aside' = None
          /\ results' = [check |-> "new", rows |-> aside, guarded |-> FALSE]
          /\ To(p, "columns") /\ UNCHANGED <<usage, columns, version>>

Rebuild(p) == DropsTriggers(p) \/ CreatesAside(p) \/ Copies(p) \/ Drops(p) \/ Renames(p)

(***************************************************************************)
(* The rest of migrate.                                                    *)
(***************************************************************************)
ReadsColumns(p) ==
    /\ At(p, "columns")
    /\ proc' = [proc EXCEPT ![p] = [pc |-> "alter", missing |-> Columns \ columns]]
    /\ UNCHANGED tables

\* A column that somebody else has added meanwhile is a duplicate.
AddsColumn(p) ==
    /\ At(p, "alter")
    /\ \E c \in proc[p].missing :
          \/ c \in columns /\ Throws(p)
          \/ /\ c \notin columns /\ columns' = columns \cup {c}
             /\ proc' = [proc EXCEPT ![p].missing = @ \ {c}]
             /\ UNCHANGED <<results, aside, usage, version>>

\* Mutants: constraints are left as they are; tables are rebuilt by every open.
NoPending == FALSE
AlwaysPending == TRUE

Pending == usage.check = "old"

ReadsConstraints(p) ==
    /\ At(p, "alter") /\ proc[p].missing = {}
    /\ To(p, IF Pending THEN "rebuild" ELSE "stamp")
    /\ UNCHANGED tables

\* rebuildConstrainedTables, in one transaction: the columns that the old table had are copied, and the triggers
\* go with it.
RebuildsConstrained(p) ==
    /\ At(p, "rebuild") /\ To(p, "stamp")
    /\ usage' = [usage EXCEPT !.check = "new", !.priced = {}, !.guarded = FALSE]
    /\ UNCHANGED <<results, aside, columns, version>>

Stamps(p) ==
    /\ At(p, "stamp") /\ version' = "current" /\ To(p, "open")
    /\ UNCHANGED <<results, aside, usage, columns>>

(***************************************************************************)
(* What the processes do with it.                                          *)
(***************************************************************************)
\* A cancellation writes its result; one row of each receipt.
RecordsResult(p) ==
    /\ At(p, "open") /\ results # None
    /\ \E r \in Receipts \ recorded :
          /\ results' = [results EXCEPT !.rows = @ \cup {r}]
          /\ recorded' = recorded \cup {r}
    /\ UNCHANGED <<aside, usage, columns, version, proc, priced, crashes>>

\* A turn of the manager writes its usage, with its price.
RecordsUsage(p) ==
    /\ At(p, "open")
    /\ \E r \in Receipts \ usage.rows :
          /\ usage' = [usage EXCEPT !.rows = @ \cup {r}, !.priced = @ \cup {r}]
          /\ priced' = priced \cup {r}
    /\ UNCHANGED <<results, aside, columns, version, proc, recorded, crashes>>

Closes(p) == At(p, "open") /\ To(p, "closed") /\ UNCHANGED <<tables, recorded, priced, crashes>>

Crashes(p) ==
    /\ crashes < MaxCrashes /\ Opening(p)
    /\ crashes' = crashes + 1 /\ To(p, "closed") /\ UNCHANGED <<tables, recorded, priced>>

\* A database of an older version, with receipts.
Init ==
    /\ recorded \in SUBSET Receipts /\ priced = {} /\ crashes = 0
    /\ results = [check |-> "old", rows |-> recorded, guarded |-> TRUE] /\ aside = None
    /\ usage \in [check : {"old"}, rows : SUBSET Receipts, priced : {{}}, guarded : {TRUE}]
    /\ columns = {} /\ version = "older"
    /\ proc = [p \in Processes |-> [pc |-> "closed", missing |-> {}]]

Migrate(p) ==
    \/ ReadsCheck(p) \/ Rebuild(p) \/ ReadsColumns(p) \/ AddsColumn(p)
    \/ ReadsConstraints(p) \/ RebuildsConstrained(p) \/ Stamps(p)

Open(p) == (RunsSchema(p) \/ Migrate(p)) /\ UNCHANGED <<recorded, priced, crashes>>

Next == \E p \in Processes : Open(p) \/ RecordsResult(p) \/ RecordsUsage(p) \/ Closes(p) \/ Crashes(p)

Spec == Init /\ [][Next]_vars

\* A process goes on, and a command that failed is given again.
FairSpec == Spec /\ \A p \in Processes : WF_vars(Open(p))

(***************************************************************************)
(* Properties.                                                             *)
(***************************************************************************)
TypeOK ==
    /\ recorded \subseteq Receipts /\ priced \subseteq usage.rows /\ usage.priced \subseteq usage.rows
    /\ columns \subseteq Columns /\ \A p \in Processes : proc[p].missing \subseteq Columns

\* rebuildConstrainedTables: "The schema version must not be stamped until this is untrue", whoever else is
\* migrating and whoever died doing so: a database with the current version has every column and every constraint.
StampIsTrue ==
    version = "current" =>
        /\ columns = Columns /\ usage.check = "new"
        /\ results # None => results.check = "new"

Quiet == \A p \in Processes : ~Opening(p)

Rows == IF results = None THEN {} ELSE results.rows
RowsAside == IF aside = None THEN {} ELSE aside

\* migrate: "these rows are immutable evidence, and losing them to a schema change would be exactly the wrong
\* trade": at every moment of the rebuild, wherever processes that open the database in turn die, each cancellation
\* receipt that was written is in one of the two tables; and a database that has been opened has them all in the
\* table that is read, unless a process that died in the rebuild has left the other behind.
NoReceiptIsDestroyed ==
    /\ recorded \subseteq Rows \cup RowsAside
    /\ (Quiet /\ aside = None /\ \E p \in Processes : At(p, "open")) => (results # None /\ recorded \subseteq results.rows)

\* manager_usage_receipts: "A receipt priced at observation time keeps that figure in its own row".
CostsAreKept == priced \subseteq usage.priced

\* migrate, openDatabase: a process that tries again opens the database in the end, however processes that
\* migrate it get in each other's way.  (One that dies in the rebuild may prevent it for ever: README, section 8.)
Opens == \A p \in Processes : []<>At(p, "open")
-----------------------------------------------------------------------------
(* Promises of the repository that the code does not keep: section 8 of the  *)
(* README has the behaviour that contradicts each.                           *)

\* migrate, the same words: in a database that has been opened, every cancellation receipt that was written can be
\* read.
ReceiptsAreKept ==
    (Quiet /\ \E p \in Processes : At(p, "open")) => (results # None /\ recorded \subseteq results.rows)

\* The receipts are immutable wherever a process can write: a fresh database and a migrated one have the same triggers.
Protected ==
    \A p \in Processes : (Quiet /\ At(p, "open")) => (results # None => results.guarded) /\ usage.guarded
=============================================================================
