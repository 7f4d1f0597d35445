--------------------------- MODULE WorkProposals ---------------------------
(***************************************************************************)
(* How a request becomes a job: Dispatcher.proposeWork,                    *)
(* authorizeWorkProposal, rejectWorkProposal, createJob, the start of      *)
(* runJob, retireProject and restoreProject (src/src/service.js), for one  *)
(* project.  Calls of the service run side by side and give way to each    *)
(* other while git resolves the branch; the clock, developers and the      *)
(* workers go on meanwhile.  A goal stands for everything that is asked    *)
(* for: the text, the mode, the strategy and the ceiling.                  *)
(***************************************************************************)
EXTENDS Naturals, Sequences, FiniteSetsExt

CONSTANTS
    Keys,         \* idempotency keys; a key is the identity of its proposal
    Goals,        \* what can be asked for
    Requests,     \* calls of the service
    Window,       \* how long a proposal can be authorized, in ticks
    MaxAttempts,  \* max_attempts of every job
    MaxJobs,      \* bound: jobs
    MaxHead,      \* bound: movements of the branch
    MaxTime,      \* bound: ticks of the clock
    None

WorkAssumption ==
    /\ {Window, MaxAttempts, MaxJobs, MaxHead} \subseteq Nat /\ MaxTime \in Nat \ {0}
    /\ None \notin Keys \cup Goals \cup {"AUTHORIZED", "REJECTED", "SAME"}

VARIABLES
    time,       \* the clock, in milliseconds
    head,       \* the integration branch
    jobs,       \* the jobs of the project, in the order of their rows
    proposals,  \* work_proposals by idempotency key
    decisions,  \* work_proposal_decisions by proposal
    project,    \* projects.retired_at, and whether retireProject has looked for work
    req,        \* the calls
    changes     \* history: how often a job of the project changed

vars == <<time, head, jobs, proposals, decisions, project, req, changes>>
world == <<time, head>>
papers == <<proposals, decisions>>

JobIds == DOMAIN jobs
Startable == {"PENDING", "NEEDS_ATTENTION"}
Undecided == [decision |-> None, job |-> 0]

\* insertJobRow
NewJob(by, parent, goal, base) ==
    [by |-> by, parent |-> parent, goal |-> goal, base |-> base, status |-> "PENDING", updated |-> time, tries |-> 0]

Inserted(job) == jobs' = Append(jobs, job) /\ changes' = changes + 1

Updated(j, status, tries) ==
    /\ jobs' = [jobs EXCEPT ![j].status = status, ![j].tries = tries, ![j].updated = time]
    /\ changes' = changes + 1

\* projectStateVersion: what is hashed, and no more.
StateVersion == [jobs |-> Len(jobs), latest |-> Max({0} \cup {jobs[j].updated : j \in JobIds})]

(***************************************************************************)
(* The calls.  resolveRevision is awaited once in each of them.            *)
(***************************************************************************)
Idle == [pc |-> "idle", key |-> None, goal |-> None, job |-> 0, version |-> None, expires |-> 0,
         asOf |-> 0, fresh |-> FALSE, head |-> None, answer |-> None]

Begins(r, frame) == req' = [req EXCEPT ![r] = frame]
Answer(r, a) == req' = [req EXCEPT ![r].pc = "done", ![r].answer = a]
Resolved(r, pc) == req[r].pc = pc /\ req[r].head # None

ResolveRevision(r) ==
    /\ req[r].pc \in {"proposing", "authorizing", "creating", "starting"} /\ req[r].head = None
    /\ req' = [req EXCEPT ![r].head = head]
    /\ UNCHANGED <<world, jobs, papers, project, changes>>

\* proposeWork.
ProposeBegins(r) ==
    /\ req[r].pc = "idle"
    /\ \E k \in Keys, g \in Goals :
          Begins(r, [Idle EXCEPT !.pc = "proposing", !.key = k, !.goal = g, !.version = StateVersion,
                                 !.expires = time + Window, !.asOf = changes])
    /\ UNCHANGED <<world, jobs, papers, project, changes>>

\* Mutant: the digest is of the defaults only.
DigestOfDefaults(goal, version, base) == <<version, base>>

\* workActionDigest: the goal, and with it the version and the head the server filled in.
ActionDigest(goal, version, base) == <<goal, version, base>>

Proposal(r) ==
    [goal |-> req[r].goal, version |-> req[r].version, base |-> req[r].head, expires |-> req[r].expires,
     asOf |-> req[r].asOf, digest |-> ActionDigest(req[r].goal, req[r].version, req[r].head)]

ProposeCommits(r) ==
    /\ Resolved(r, "proposing")
    /\ LET old == proposals[req[r].key] IN
       IF old = None
       THEN proposals' = [proposals EXCEPT ![req[r].key] = Proposal(r)] /\ Answer(r, "PROPOSED")
       ELSE /\ Answer(r, IF old.digest = Proposal(r).digest THEN "SAME" ELSE "CONFLICT")
            /\ UNCHANGED proposals
    /\ UNCHANGED <<world, jobs, decisions, project, changes>>

\* The job of a proposal is advanced at once: a job that can be started is started.
Advance(r, j, status) ==
    IF status \in Startable
    THEN req' = [req EXCEPT ![r].pc = "starting", ![r].job = j, ![r].head = None,
                            ![r].fresh = (j > Len(jobs) \/ jobs[j].tries = 0)]
    ELSE Answer(r, "AUTHORIZED")

\* authorizeWorkProposal up to its await.
AuthorizeBegins(r) ==
    /\ req[r].pc = "idle"
    /\ \E k \in Keys :
          /\ proposals[k] # None /\ decisions[k].decision # "REJECTED"
          /\ IF decisions[k].decision = "AUTHORIZED"
             THEN Advance(r, decisions[k].job, jobs[decisions[k].job].status)
             ELSE Begins(r, [Idle EXCEPT !.pc = "authorizing", !.key = k, !.version = StateVersion])
    /\ UNCHANGED <<world, jobs, papers, project, changes>>

\* Mutant: the head is resolved for the job and compared with nothing.
AuthorizableAnywhere(r, p) == time < p.expires /\ p.version = StateVersion /\ p.digest = ActionDigest(p.goal, p.version, p.base)

\* Mutant: the version is that of before the await.
AuthorizableBefore(r, p) ==
    time < p.expires /\ p.version = req[r].version /\ p.base = req[r].head
    /\ p.digest = ActionDigest(p.goal, p.version, p.base)

\* assertAuthorizable
Authorizable(r, p) ==
    /\ time < p.expires
    /\ p.version = StateVersion
    /\ p.base = req[r].head
    /\ p.digest = ActionDigest(p.goal, p.version, p.base)

\* Mutant: the decision is written after the job, and may fail to be.
DecideApart(r, k) ==
    /\ Inserted(NewJob(k, 0, proposals[k].goal, req[r].head))
    /\ \/ decisions' = [decisions EXCEPT ![k] = [decision |-> "AUTHORIZED", job |-> Len(jobs) + 1]]
       \/ UNCHANGED decisions
    /\ Advance(r, Len(jobs) + 1, "PENDING")

\* The job and its decision, in one transaction.
Decide(r, k) ==
    /\ Inserted(NewJob(k, 0, proposals[k].goal, req[r].head))
    /\ decisions' = [decisions EXCEPT ![k] = [decision |-> "AUTHORIZED", job |-> Len(jobs) + 1]]
    /\ Advance(r, Len(jobs) + 1, "PENDING")

AuthorizeCommits(r) ==
    /\ Resolved(r, "authorizing")
    /\ LET k == req[r].key IN
       \/ /\ decisions[k] = Undecided /\ Authorizable(r, proposals[k]) /\ Len(jobs) < MaxJobs
          /\ Decide(r, k)
       \/ /\ decisions[k] = Undecided /\ ~Authorizable(r, proposals[k])
          /\ Answer(r, "REFUSED") /\ UNCHANGED <<jobs, decisions, changes>>
       \/ /\ decisions[k].decision = "AUTHORIZED"
          /\ Advance(r, decisions[k].job, jobs[decisions[k].job].status)
          /\ UNCHANGED <<jobs, decisions, changes>>
       \/ /\ decisions[k].decision = "REJECTED"
          /\ Answer(r, "REFUSED") /\ UNCHANGED <<jobs, decisions, changes>>
    /\ UNCHANGED <<world, proposals, project>>

\* rejectWorkProposal does not wait for anything.
Reject(k) ==
    /\ proposals[k] # None /\ decisions[k] = Undecided
    /\ decisions' = [decisions EXCEPT ![k].decision = "REJECTED"]
    /\ UNCHANGED <<world, jobs, proposals, project, req, changes>>

\* createJob of a root.
CreateBegins(r) ==
    /\ req[r].pc = "idle"
    /\ \E g \in Goals : Begins(r, [Idle EXCEPT !.pc = "creating", !.goal = g])
    /\ UNCHANGED <<world, jobs, papers, project, changes>>

CreateCommits(r) ==
    /\ Resolved(r, "creating") /\ Len(jobs) < MaxJobs
    /\ Inserted(NewJob(None, 0, req[r].goal, req[r].head))
    /\ Answer(r, "CREATED")
    /\ UNCHANGED <<world, papers, project>>

\* Mutant: a child resolves the branch for itself.
ChildResolves(j) == head

\* A child inherits the world of its parent.
ChildBase(j) == jobs[j].base

\* createJob of an investigation, which waits for nothing.
CreateChild(j) ==
    /\ jobs[j].parent = 0 /\ jobs[j].status = "RUNNING" /\ Len(jobs) < MaxJobs
    /\ \E g \in Goals : Inserted(NewJob(None, j, g, ChildBase(j)))
    /\ UNCHANGED <<world, papers, project, req>>

(***************************************************************************)
(* runJob up to the claim, and how the attempt ends (Dispatcher.tla).      *)
(***************************************************************************)
RunBegins(r) ==
    /\ req[r].pc = "idle"
    /\ \E j \in JobIds :
          /\ jobs[j].status \in Startable
          /\ Begins(r, [Idle EXCEPT !.pc = "starting", !.job = j, !.fresh = (jobs[j].tries = 0)])
    /\ UNCHANGED <<world, jobs, papers, project, changes>>

Family(j) == IF jobs[j].parent = 0 THEN j ELSE jobs[j].parent

\* assertAuthorizedBaseIntact, then the claim.
Claimable(r, j) ==
    /\ (req[r].fresh /\ jobs[j].parent = 0) => req[r].head = jobs[j].base
    /\ jobs[j].status \in Startable /\ jobs[j].tries < MaxAttempts
    /\ \A other \in JobIds : jobs[other].status = "RUNNING" => Family(other) = Family(j)

RunClaims(r) ==
    /\ Resolved(r, "starting")
    /\ LET j == req[r].job IN
       \/ Claimable(r, j) /\ Updated(j, "RUNNING", jobs[j].tries + 1) /\ Answer(r, "STARTED")
       \/ ~Claimable(r, j) /\ Answer(r, "REFUSED") /\ UNCHANGED <<jobs, changes>>
    /\ UNCHANGED <<world, papers, project>>

AttemptEnds(j) ==
    /\ jobs[j].status = "RUNNING"
    /\ \E status \in {"NEEDS_ATTENTION", "READY_FOR_INTEGRATION"} : Updated(j, status, jobs[j].tries)
    /\ UNCHANGED <<world, papers, project, req>>

(***************************************************************************)
(* retireProject and restoreProject, which another process can come between.*)
(***************************************************************************)
Running == {j \in JobIds : jobs[j].status = "RUNNING"}

RetireChecks ==
    /\ project = "tracked" /\ Running = {}
    /\ project' = "retiring"
    /\ UNCHANGED <<world, jobs, papers, req, changes>>

RetireCommits ==
    /\ project = "retiring" /\ project' = "retired"
    /\ UNCHANGED <<world, jobs, papers, req, changes>>

RestoreProject ==
    /\ project = "retired" /\ project' = "tracked"
    /\ UNCHANGED <<world, jobs, papers, req, changes>>

\* Developers and integrations move the branch.
BranchMoves ==
    /\ head < MaxHead /\ head' = head + 1
    /\ UNCHANGED <<time, jobs, papers, project, req, changes>>

Tick ==
    /\ time < MaxTime /\ time' = time + 1
    /\ UNCHANGED <<head, jobs, papers, project, req, changes>>

Init ==
    /\ time = 1 /\ head = 0 /\ jobs = <<>> /\ project = "tracked" /\ changes = 0
    /\ proposals = [k \in Keys |-> None] /\ decisions = [k \in Keys |-> Undecided]
    /\ req = [r \in Requests |-> Idle]

Next ==
    \/ \E r \in Requests :
          \/ ResolveRevision(r) \/ ProposeBegins(r) \/ ProposeCommits(r) \/ AuthorizeBegins(r)
          \/ AuthorizeCommits(r) \/ CreateBegins(r) \/ CreateCommits(r) \/ RunBegins(r) \/ RunClaims(r)
    \/ \E k \in Keys : Reject(k)
    \/ \E j \in JobIds : CreateChild(j) \/ AttemptEnds(j)
    \/ RetireChecks \/ RetireCommits \/ RestoreProject \/ BranchMoves \/ Tick

Spec == Init /\ [][Next]_vars

(***************************************************************************)
(* Properties.                                                             *)
(***************************************************************************)
\* The rows are of their tables; a decision names a job, and only if it authorizes.
TypeOK ==
    /\ time \in 1..MaxTime /\ head \in 0..MaxHead /\ Len(jobs) <= MaxJobs
    /\ \A k \in Keys : decisions[k].decision \in {None, "AUTHORIZED", "REJECTED"}
    /\ \A k \in Keys : IF decisions[k].decision = "AUTHORIZED" THEN decisions[k].job \in JobIds ELSE decisions[k].job = 0
    /\ \A k \in Keys : decisions[k] # Undecided => proposals[k] # None

Work(k) == {j \in JobIds : jobs[j].by = k}
Authorized(k) == decisions[k].decision = "AUTHORIZED"

\* PROP-011 and PROP-012: two authorizations of a proposal, or one and a rejection, that overlap make one
\* decision and at most one job; there is no job whose decision is missing.
OneDecisionOneJob == \A k \in Keys : Work(k) = IF Authorized(k) THEN {decisions[k].job} ELSE {}

\* assertAuthorizable: the job that is run is the one that was proposed, on the commit it was written against.
AsProposed == \A k \in Keys : \A j \in Work(k) : jobs[j].goal = proposals[k].goal /\ jobs[j].base = proposals[k].base

\* PROP-010: nothing that has expired or been superseded, during the call either, is authorized.
AuthorizedInTime ==
    [][\A k \in Keys : (Authorized(k)' /\ ~Authorized(k)) =>
          time < proposals[k].expires /\ StateVersion = proposals[k].version]_vars

\* PROP-007, PROP-013: what is answered with the proposal of a key asked for what that proposal asks for.
KeyIsOneAction == \A r \in Requests : req[r].answer = "SAME" => req[r].goal = proposals[req[r].key].goal

\* createJob: an investigation commissioned while the branch moves describes the world its root works in.
OneWorld == \A j \in JobIds : jobs[j].parent # 0 => jobs[j].base = jobs[jobs[j].parent].base /\ jobs[jobs[j].parent].parent = 0
-----------------------------------------------------------------------------
(* Promises of the repository that the code does not keep: section 8 of the  *)
(* README has the behaviour that contradicts each.                           *)

\* PROP-007: "Re-sending an identical proposal under the same idempotency key MUST return the same proposal
\* identity."
RetryFindsProposal == \A r \in Requests : req[r].answer = "CONFLICT" => req[r].goal # proposals[req[r].key].goal

\* service.js:256 "A proposal that expected a different world than the one the operator is authorizing in must
\* not silently execute."
NothingChanged == [][\A k \in Keys : (Authorized(k)' /\ ~Authorized(k)) => changes = proposals[k].asOf]_vars

\* service.js:355 "before the first paid attempt, branch must still be A".
FirstAttemptOnItsBase ==
    [][\A j \in JobIds : (jobs[j].parent = 0 /\ jobs[j].tries = 0 /\ jobs'[j].tries = 1) => head = jobs[j].base]_vars

\* service.js:1358 "Live work blocks it, because retiring a project mid-attempt would hide something that is
\* still running."
RetiredIsIdle == project = "retired" => Running = {}
=============================================================================
