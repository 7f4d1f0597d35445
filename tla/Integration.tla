----------------------------- MODULE Integration -----------------------------
(***************************************************************************)
(* From a validated candidate to the integration branch and back           *)
(* (service.js): proposals, approvals, declines, the integration run that  *)
(* moves the branch, rollbacks, and the recovery of a lost rollback        *)
(* receipt.                                                                *)
(*                                                                         *)
(* One Control API server at a time serves several requests concurrently;  *)
(* a request runs undisturbed up to its next await, so what lies between    *)
(* two awaits is one action.  The branch lives in git, where developers    *)
(* move it too, and a `git push' the server started outlives the server.   *)
(***************************************************************************)
EXTENDS Integers, SequencesExt

CONSTANTS
  Jobs,          \* write jobs, each with the one candidate its checks passed
  Projects,
  Project,       \* Jobs -> Projects
  Principals,    \* who approves
  Requests,      \* concurrent requests of the server
  None,
  MaxReceipts,   \* bound on approvals granted
  MaxOutside,    \* bound on what developers do to the branches
  MaxCrashes,    \* bound on crashes of the server
  MaxLost        \* bound on abandoned attempts for reconcile to recover

ASSUME IntegrationAssumption ==
  /\ Project \in [Jobs -> Projects]
  /\ None \notin Requests \cup Jobs
  /\ MaxReceipts \in Nat /\ MaxOutside \in Nat /\ MaxCrashes \in Nat /\ MaxLost \in Nat

\* A commit is what was applied since the start: an integration operation's number
\* for a cherry-pick, 0 for a developer's work.
OpIds  == 1..MaxReceipts
Commit == Seq(OpIds \cup {0})

Stages == {"idle", "proposing", "claimed", "listed", "prechecked", "validated", "relisted",
           "advancing", "advanced", "refused", "failing",
           "undoing", "undoPushing", "undone", "reconciling", "reading", "repairing"}

Receipt   == [job : Jobs, principal : Principals, expired : BOOLEAN]
Operation == [job : Jobs, receipt : 1..MaxReceipts, outcome : {"none", "SUCCEEDED", "FAILED"}]
Request   == [stage : Stages, job : Jobs \cup {None}, op : OpIds \cup {0},
              head : Commit, todo : SUBSET Jobs]
Push      == [by : Requests \cup {None}, project : Projects, old : Commit, new : Commit]

VARIABLES
  jobs,         \* jobs.status
  expected,     \* expected_integration_head of the candidate's proposal, None before it
  receipts,     \* approval_receipts, in the order granted
  operations,   \* integration_operations with their terminal records
  declined,     \* jobs whose proposal has an INTEGRATION_DECLINED event
  rollbacks,    \* number of integration_rollbacks rows of each job's proposal
  requests,     \* the calls in progress
  alive,        \* whether a server is running
  lost,         \* whether some attempt awaits recovery, its processes all dead
  branch,       \* integration branch of each project
  checkedOut,   \* whether a worktree has it checked out
  pushes,       \* `git push' processes running
  reflog,       \* operations whose commit the branch has been moved to
  outsideLeft, crashesLeft, lostLeft

ledger == <<jobs, expected, receipts, operations, declined, rollbacks>>
git    == <<branch, checkedOut, pushes, reflog>>
world  == <<alive, lost, outsideLeft, crashesLeft, lostLeft>>
vars   == <<jobs, expected, receipts, operations, declined, rollbacks, requests, alive, lost,
            branch, checkedOut, pushes, reflog, outsideLeft, crashesLeft, lostLeft>>
-----------------------------------------------------------------------------
(* Queries over the ledger *)

Ops             == DOMAIN operations
OpsOf(j)        == {o \in Ops : operations[o].job = j}
Integrated(j)   == \E o \in OpsOf(j) : operations[o].outcome = "SUCCEEDED"
UnresolvedOf(j) == {o \in OpsOf(j) : operations[o].outcome = "none"}
Unresolved      == {o \in Ops : operations[o].outcome = "none"}
LandedOp(j)     == CHOOSE o \in OpsOf(j) : operations[o].outcome = "SUCCEEDED"

\* The candidate of operation o, cherry-picked onto the head its proposal recorded.
NewHead(o)      == Append(expected[operations[o].job], o)

\* Unused by Next: an operator named for a slip (SpendableAgain, MayStartBeside,
\* MayStartOver, ClosedAnyway, FailedAsReported, MovedAway, Unleased) is the definition
\* after it with that slip in it.
Consumed(n)     == \E o \in Ops : operations[o].receipt = n
Unspent(n)      == ~receipts[n].expired /\ ~Consumed(n)
SpendableAgain(j, n) == receipts[n].job = j /\ ~receipts[n].expired
Spendable(j, n) == receipts[n].job = j /\ Unspent(n)

\* No integration of any project may start while an operation is unresolved.
MayStartBeside(j) == ~Integrated(j) /\ UnresolvedOf(j) = {}
MayStartOver(j)   == Unresolved = {}
MayStart(j)       == ~Integrated(j) /\ Unresolved = {}
-----------------------------------------------------------------------------
(* Requests *)

Idle == [stage |-> "idle", job |-> None, op |-> 0, head |-> <<>>, todo |-> {}]
At(c, s)      == alive /\ requests[c].stage = s
Goto(c, s)    == requests' = [requests EXCEPT ![c].stage = s]
Return(c)     == requests' = [requests EXCEPT ![c] = Idle]
HeadOf(c)     == branch[Project[requests[c].job]]

\* proposeIntegration resolves the branch head, then writes the proposal unless the
\* candidate has one; a proposal of another head is refused.
Propose(c, j) ==
  /\ At(c, "idle") /\ jobs[j] = "READY_FOR_INTEGRATION"
  /\ requests' = [requests EXCEPT ![c] = [Idle EXCEPT !.stage = "proposing", !.job = j,
                                                      !.head = branch[Project[j]]]]
  /\ UNCHANGED <<ledger, git, world>>

RecordProposal(c) ==
  /\ At(c, "proposing") /\ Return(c)
  /\ LET j == requests[c].job IN
     expected' = [expected EXCEPT ![j] = IF @ = None THEN requests[c].head ELSE @]
  /\ UNCHANGED <<jobs, receipts, operations, declined, rollbacks, git, world>>

\* grantApproval: a principal's live approval is returned while it is unspent.
\* Whether the candidate was declined is not asked.
Outstanding(j, h) ==
  \E n \in DOMAIN receipts :
    /\ receipts[n].job = j /\ receipts[n].principal = h /\ Unspent(n)
    /\ \A m \in DOMAIN receipts :
         m > n /\ receipts[m].job = j /\ receipts[m].principal = h => receipts[m].expired

GrantApproval(j, h) ==
  /\ alive /\ expected[j] # None /\ ~Integrated(j)
  /\ ~Outstanding(j, h) /\ Len(receipts) < MaxReceipts
  /\ receipts' = Append(receipts, [job |-> j, principal |-> h, expired |-> FALSE])
  /\ UNCHANGED <<jobs, expected, operations, declined, rollbacks, requests, git, world>>

Expire(n) ==
  /\ n \in DOMAIN receipts /\ ~receipts[n].expired
  /\ receipts' = [receipts EXCEPT ![n].expired = TRUE]
  /\ UNCHANGED <<jobs, expected, operations, declined, rollbacks, requests, git, world>>

DeclineIntegration(j) ==
  /\ alive /\ expected[j] # None /\ ~Integrated(j) /\ j \notin declined
  /\ declined' = declined \cup {j}
  /\ jobs' = [jobs EXCEPT ![j] = "CANCELLED"]
  /\ UNCHANGED <<expected, receipts, operations, rollbacks, requests, git, world>>
-----------------------------------------------------------------------------
(* runIntegration *)

\* The claim transaction takes the oldest approval that still counts.
Claim(c, j) ==
  /\ At(c, "idle") /\ expected[j] # None /\ MayStart(j)
  /\ \E n \in DOMAIN receipts :
       /\ Spendable(j, n) /\ \A m \in 1..(n - 1) : ~Spendable(j, m)
       /\ operations' = Append(operations, [job |-> j, receipt |-> n, outcome |-> "none"])
  /\ requests' = [requests EXCEPT ![c] = [Idle EXCEPT !.stage = "claimed", !.job = j,
                                                      !.op = Len(operations) + 1]]
  /\ UNCHANGED <<jobs, expected, receipts, declined, rollbacks, git, world>>

\* assertIntegrationHeadUnchanged lists the worktrees, then reads the head; it runs
\* before and after the candidate is prepared.  Any git command may also just fail.
Fail(c) ==
  /\ \E s \in {"claimed", "listed", "prechecked", "validated", "relisted"} : At(c, s)
  /\ Goto(c, "failing")
  /\ UNCHANGED <<ledger, git, world>>

ListWorktrees(c) ==
  /\ \/ At(c, "claimed")   /\ Goto(c, "listed")
     \/ At(c, "validated") /\ Goto(c, "relisted")
  /\ ~checkedOut[Project[requests[c].job]]
  /\ UNCHANGED <<ledger, git, world>>

CheckHead(c) ==
  /\ At(c, "listed") /\ HeadOf(c) = expected[requests[c].job]
  /\ Goto(c, "prechecked")
  /\ UNCHANGED <<ledger, git, world>>

\* Ancestry, a clean worktree, the cherry-pick and the stored checks all went well.
PrepareCandidate(c) ==
  /\ At(c, "prechecked") /\ Goto(c, "validated")
  /\ UNCHANGED <<ledger, git, world>>

\* BRANCH_ADVANCE_INTENDED, then the compare-and-swap is sent.
SendAdvance(c) ==
  /\ At(c, "relisted") /\ HeadOf(c) = expected[requests[c].job]
  /\ Goto(c, "advancing")
  /\ pushes' = pushes \cup {[by |-> c, project |-> Project[requests[c].job],
                             old |-> HeadOf(c), new |-> NewHead(requests[c].op)]}
  /\ UNCHANGED <<ledger, branch, checkedOut, reflog, world>>

Resolve(c, outcome) == operations' = [operations EXCEPT ![requests[c].op].outcome = outcome]

\* The job is closed with the operation only if it still awaits integration.  A
\* record that cannot be written leaves the operation unresolved.
ClosedAnyway(j)   == "SUCCEEDED"
ClosedIfReady(j)  == IF jobs[j] = "READY_FOR_INTEGRATION" THEN "SUCCEEDED" ELSE jobs[j]
RecordSuccess(c) ==
  /\ At(c, "advanced") /\ Return(c)
  /\ \/ /\ Resolve(c, "SUCCEEDED")
        /\ jobs' = [jobs EXCEPT ![requests[c].job] = ClosedIfReady(requests[c].job)]
     \/ UNCHANGED <<operations, jobs>>
  /\ UNCHANGED <<expected, receipts, declined, rollbacks, git, world>>

\* The push reported failure: only a head still where it was expected proves that the
\* branch did not move.  Otherwise, or if git cannot tell, the operation stays open.
FailedAsReported(c) == TRUE
FailedForCertain(c) == HeadOf(c) = expected[requests[c].job]
InspectHead(c) ==
  /\ At(c, "refused")
  /\ \/ FailedForCertain(c) /\ Goto(c, "failing")
     \/ Return(c)
  /\ UNCHANGED <<ledger, git, world>>

RecordFailure(c) ==
  /\ At(c, "failing") /\ Return(c)
  /\ Resolve(c, "FAILED") \/ UNCHANGED operations
  /\ UNCHANGED <<jobs, expected, receipts, declined, rollbacks, git, world>>
-----------------------------------------------------------------------------
(* rollbackIntegration and reconcileRollbacks *)

\* The commits are the recorded ones: back to the head the proposal expected.
Rollback(c, j) ==
  /\ At(c, "idle") /\ Integrated(j)
  /\ requests' = [requests EXCEPT ![c] = [Idle EXCEPT !.stage = "undoing", !.job = j]]
  /\ UNCHANGED <<ledger, git, world>>

SendRollback(c) ==
  /\ At(c, "undoing")
  /\ LET j == requests[c].job IN
     \/ /\ HeadOf(c) = NewHead(LandedOp(j))
        /\ Goto(c, "undoPushing")
        /\ pushes' = pushes \cup {[by |-> c, project |-> Project[j], old |-> HeadOf(c),
                                   new |-> expected[j]]}
     \/ Return(c) /\ UNCHANGED pushes
  /\ UNCHANGED <<ledger, branch, checkedOut, reflog, world>>

\* The receipt follows the move; nothing asks whether there is one already.
RecordRollback(c) ==
  /\ At(c, "undone") /\ Return(c)
  /\ \/ rollbacks' = [rollbacks EXCEPT ![requests[c].job] = @ + 1]
     \/ UNCHANGED rollbacks
  /\ UNCHANGED <<jobs, expected, receipts, operations, declined, git, world>>

\* reconcile({apply}) gets this far only when it has just closed abandoned attempts;
\* with none it returns first.
Reconcile(c) ==
  /\ At(c, "idle") /\ lost
  /\ lost' = FALSE
  /\ requests' = [requests EXCEPT ![c] = [Idle EXCEPT !.stage = "reconciling",
                                                      !.todo = {j \in Jobs : Integrated(j)}]]
  /\ UNCHANGED <<ledger, git, alive, outsideLeft, crashesLeft, lostLeft>>

ReconcileRow(c) ==
  /\ At(c, "reconciling")
  /\ \/ requests[c].todo = {} /\ Return(c)
     \/ \E j \in requests[c].todo :
          requests' = [requests EXCEPT ![c].todo = @ \ {j}, ![c].job = j,
                         ![c].stage = IF rollbacks[j] > 0 THEN @ ELSE "reading"]
  /\ UNCHANGED <<ledger, git, world>>

MovedAway(c)       == HeadOf(c) # NewHead(LandedOp(requests[c].job))
BackWhereItWas(c)  == HeadOf(c) = expected[requests[c].job]
ReadHead(c) ==
  /\ At(c, "reading")
  /\ \/ BackWhereItWas(c) /\ Goto(c, "repairing")
     \/ Goto(c, "reconciling")
  /\ UNCHANGED <<ledger, git, world>>

RepairReceipt(c) ==
  /\ At(c, "repairing") /\ Goto(c, "reconciling")
  /\ rollbacks' = [rollbacks EXCEPT ![requests[c].job] = @ + 1]
  /\ UNCHANGED <<jobs, expected, receipts, operations, declined, git, world>>
-----------------------------------------------------------------------------
(* git, developers and crashes *)

\* The reply of a push reaches the request that sent it, if its server still runs.
Reply(push, ok) ==
  IF push.by = None THEN UNCHANGED requests
  ELSE LET stage == requests[push.by].stage IN
       requests' = IF ok THEN [requests EXCEPT ![push.by].stage =
                                 IF stage = "advancing" THEN "advanced" ELSE "undone"]
                   ELSE IF stage = "advancing" THEN [requests EXCEPT ![push.by].stage = "refused"]
                   ELSE [requests EXCEPT ![push.by] = Idle]

\* --force-with-lease on a branch that is nowhere checked out; a ref already at the new
\* commit is up to date.  A push killed at its timeout reports failure either way.
Unleased(push) == ~checkedOut[push.project]
Leased(push)   == branch[push.project] = push.old /\ ~checkedOut[push.project]
PushEnds(push) ==
  /\ push \in pushes /\ pushes' = pushes \ {push}
  /\ \/ /\ Leased(push)
        /\ branch' = [branch EXCEPT ![push.project] = push.new]
        /\ reflog' = reflog \cup (IF push.new = <<>> THEN {} ELSE {push.new[Len(push.new)]} \ {0})
        /\ \E ok \in BOOLEAN : Reply(push, ok)
     \/ /\ branch[push.project] = push.new
        /\ UNCHANGED <<branch, reflog>> /\ Reply(push, TRUE)
     \/ UNCHANGED <<branch, reflog>> /\ Reply(push, FALSE)
  /\ UNCHANGED <<ledger, checkedOut, world>>

\* A developer commits to the branch, resets it, checks it out or leaves it.
Outside(p) ==
  /\ outsideLeft > 0 /\ outsideLeft' = outsideLeft - 1
  /\ \/ branch' = [branch EXCEPT ![p] = Append(@, 0)] /\ UNCHANGED checkedOut
     \/ /\ branch[p] # <<>>
        /\ branch' = [branch EXCEPT ![p] = Front(@)] /\ UNCHANGED checkedOut
     \/ checkedOut' = [checkedOut EXCEPT ![p] = ~@] /\ UNCHANGED branch
  /\ UNCHANGED <<ledger, requests, pushes, reflog, alive, lost, crashesLeft, lostLeft>>

Crash ==
  /\ alive /\ crashesLeft > 0 /\ crashesLeft' = crashesLeft - 1
  /\ alive' = FALSE
  /\ requests' = [c \in Requests |-> Idle]
  /\ pushes' = {[push EXCEPT !.by = None] : push \in pushes}
  /\ UNCHANGED <<ledger, branch, checkedOut, reflog, lost, outsideLeft, lostLeft>>

Restart == ~alive /\ alive' = TRUE
           /\ UNCHANGED <<ledger, requests, git, lost, outsideLeft, crashesLeft, lostLeft>>

\* The Dispatcher module's part: an attempt whose processes have died.
AttemptLost ==
  /\ ~lost /\ lostLeft > 0
  /\ lost' = TRUE /\ lostLeft' = lostLeft - 1
  /\ UNCHANGED <<ledger, requests, git, alive, outsideLeft, crashesLeft>>
-----------------------------------------------------------------------------
Init ==
  /\ jobs = [j \in Jobs |-> "READY_FOR_INTEGRATION"]
  /\ expected = [j \in Jobs |-> None]
  /\ receipts = <<>> /\ operations = <<>> /\ declined = {}
  /\ rollbacks = [j \in Jobs |-> 0]
  /\ requests = [c \in Requests |-> Idle]
  /\ alive = TRUE /\ lost = FALSE
  /\ branch = [p \in Projects |-> <<>>] /\ checkedOut = [p \in Projects |-> FALSE]
  /\ pushes = {} /\ reflog = {}
  /\ outsideLeft = MaxOutside /\ crashesLeft = MaxCrashes /\ lostLeft = MaxLost

Advance(c) ==
  \/ RecordProposal(c) \/ Fail(c) \/ ListWorktrees(c) \/ CheckHead(c) \/ PrepareCandidate(c)
  \/ SendAdvance(c) \/ RecordSuccess(c) \/ InspectHead(c) \/ RecordFailure(c)
  \/ SendRollback(c) \/ RecordRollback(c) \/ ReconcileRow(c) \/ ReadHead(c) \/ RepairReceipt(c)

Next ==
  \/ \E c \in Requests : Advance(c) \/ Reconcile(c)
  \/ \E c \in Requests, j \in Jobs : Propose(c, j) \/ Claim(c, j) \/ Rollback(c, j)
  \/ \E j \in Jobs, h \in Principals : GrantApproval(j, h)
  \/ \E j \in Jobs : DeclineIntegration(j)
  \/ \E n \in 1..MaxReceipts : Expire(n)
  \/ \E push \in pushes : PushEnds(push)
  \/ \E p \in Projects : Outside(p)
  \/ Crash \/ Restart \/ AttemptLost

Spec == Init /\ [][Next]_vars

\* Fairness: a request keeps running, a push ends at its timeout if not before, the
\* scheduled task starts the server again and the operator keeps asking to reconcile.
FairSpec ==
  /\ Spec
  /\ \A c \in Requests : WF_vars(Advance(c))
  /\ WF_vars(\E push \in pushes : PushEnds(push))
  /\ WF_vars(Restart) /\ WF_vars(\E c \in Requests : Reconcile(c))
-----------------------------------------------------------------------------
(* What integration promises (docs/APPROVED-INTEGRATION-SPEC.md) *)

TypeOK ==
  /\ jobs \in [Jobs -> {"READY_FOR_INTEGRATION", "SUCCEEDED", "CANCELLED"}]
  /\ expected \in [Jobs -> Commit \cup {None}]
  /\ receipts \in Seq(Receipt) /\ operations \in Seq(Operation)
  /\ Len(operations) <= Len(receipts) /\ Len(receipts) <= MaxReceipts
  /\ declined \subseteq Jobs /\ rollbacks \in [Jobs -> Nat]
  /\ requests \in [Requests -> Request]
  /\ alive \in BOOLEAN /\ lost \in BOOLEAN
  /\ branch \in [Projects -> Commit] /\ checkedOut \in [Projects -> BOOLEAN]
  /\ pushes \subseteq Push /\ reflog \subseteq Ops
  /\ outsideLeft \in Nat /\ crashesLeft \in Nat /\ lostLeft \in Nat

\* At most one operation of all projects is open, however runs, crashes and lost
\* replies overlap (INT-RUN-002).
SerialIntegration == \A o1, o2 \in Unresolved : o1 = o2

\* An approval is spent by one operation only, of the job it was granted for
\* (INT-RUN-001), although it is taken after an await and never marked.
ApprovalSpentOnce ==
  \A o1, o2 \in Ops :
    /\ receipts[operations[o1].receipt].job = operations[o1].job
    /\ operations[o1].receipt = operations[o2].receipt => o1 = o2

OnBranch(o) == LET b == branch[Project[operations[o].job]] IN \E i \in DOMAIN b : b[i] = o

\* A terminal record is true of the branch: an operation that succeeded moved it; of one
\* that failed nothing is on it and no push is still to come (INT-RUN-010, INT-RUN-014).
OutcomeIsTrue ==
  \A o \in Ops :
    /\ operations[o].outcome = "SUCCEEDED" => o \in reflog
    /\ operations[o].outcome = "FAILED" =>
         ~OnBranch(o) /\ \A push \in pushes : push.new # NewHead(o)

\* A candidate moves the branch once: not again after a lost reply, nor after it was
\* rolled back.  A failed operation moved it only if a developer took it off at once.
LandsOnce ==
  \A o1, o2 \in {o \in reflog : operations[o].outcome # "FAILED"} :
    operations[o1].job = operations[o2].job => o1 = o2

\* A declined job stays closed, even if an integration of it was under way.
DeclineIsFinal == \A j \in declined : jobs[j] = "CANCELLED"

\* What runIntegration, declineIntegration and the recovery of rollbacks record agrees with what
\* the branch has been through, whoever else pushed and whatever reply was lost.
RecordsAgree == TypeOK /\ OutcomeIsTrue /\ LandsOnce /\ DeclineIsFinal

\* A rollback receipt is only written for a change the branch no longer contains,
\* whichever of rollbackIntegration and reconcileRollbacks writes it.
RollbackReceiptIsTrue ==
  [][\A j \in Jobs : rollbacks'[j] > rollbacks[j] => ~OnBranch(LandedOp(j))]_vars

\* declineIntegration says of a declined candidate that "nobody is going to integrate
\* it"; nothing in grantApproval or runIntegration asks (README, section 8).
Landed(j) == \E o \in OpsOf(j) : o \in reflog
DeclinedStaysOff == [][\A j \in declined : ~Landed(j) => ~Landed(j)']_vars

\* db.js says that reconciliation detects and resolves a branch rolled back without a
\* receipt, so that a removed change is not reported as integrated for ever.  It does so only when
\* an attempt needs recovery too (README, section 8).
Misreported(j) == Integrated(j) /\ rollbacks[j] = 0 /\ ~OnBranch(LandedOp(j))
LostReceiptIsCompleted == \A j \in Jobs : Misreported(j) ~> ~Misreported(j)
-----------------------------------------------------------------------------
(* Integration implements BranchAuthority. *)

LabelJob(l) == IF l = 0 THEN None ELSE operations[l].job
AbstractHead     == [p \in Projects |-> [i \in DOMAIN branch[p] |-> LabelJob(branch[p][i])]]
AbstractMandates == [j \in Jobs |-> Cardinality({n \in DOMAIN receipts : Spendable(j, n)})]
AbstractHolder   == IF Unresolved = {} THEN None ELSE operations[CHOOSE o \in Unresolved : TRUE].job
AbstractSpent    == \E o \in Unresolved : o \in reflog
AbstractDone     == {j \in Jobs : Integrated(j)}

Authority == INSTANCE BranchAuthority
  WITH head <- AbstractHead, mandates <- AbstractMandates, holder <- AbstractHolder,
       spent <- AbstractSpent, done <- AbstractDone, outsiders <- MaxOutside - outsideLeft
AuthoritySpec == Authority!Spec
=============================================================================
