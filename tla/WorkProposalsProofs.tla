------------------------ MODULE WorkProposalsProofs -------------------------
(***************************************************************************)
(* Proofs about WorkProposals for every set of keys, goals and calls, and  *)
(* every window: a proposal has one decision and at most one job, and the  *)
(* job is the one that was proposed, in time.                              *)
(***************************************************************************)
EXTENDS WorkProposals, TotalsProofs, SequenceTheorems

Versions == [jobs : Nat, latest : Nat]
Statuses == Startable \cup {"RUNNING", "READY_FOR_INTEGRATION"}
Job      == [by : Keys \cup {None}, parent : Nat, goal : Goals, base : Nat, status : Statuses,
             updated : Nat, tries : Nat]
Paper    == [goal : Goals, version : Versions, base : Nat, expires : Nat, asOf : Nat,
             digest : Goals \X Versions \X Nat]
Ruling   == [decision : {None, "AUTHORIZED", "REJECTED"}, job : Nat]
Places   == {"idle", "proposing", "authorizing", "creating", "starting", "done"}
Answers  == {"PROPOSED", "SAME", "CONFLICT", "AUTHORIZED", "REFUSED", "CREATED", "STARTED"}
Frame    == [pc : Places, key : Keys \cup {None}, goal : Goals \cup {None}, job : Nat,
             version : Versions \cup {None}, expires : Nat, asOf : Nat, fresh : BOOLEAN,
             head : Nat \cup {None}, answer : Answers \cup {None}]

Typed ==
    /\ time \in 1..MaxTime /\ head \in 0..MaxHead /\ changes \in Nat
    /\ jobs \in Seq(Job) /\ Len(jobs) <= MaxJobs /\ \A j \in JobIds : jobs[j].updated <= time
    /\ proposals \in [Keys -> Paper \cup {None}] /\ decisions \in [Keys -> Ruling]
    /\ req \in [Requests -> Frame]

\* The proposal of a key, its decision, and the job that came of it.
KeyOK(k) ==
    /\ decisions[k] = Undecided \/ (decisions[k].decision = "REJECTED" /\ decisions[k].job = 0) \/ Authorized(k)
    /\ decisions[k] # Undecided => proposals[k] # None
    /\ proposals[k] # None => proposals[k].digest = ActionDigest(proposals[k].goal, proposals[k].version, proposals[k].base)
    /\ Authorized(k) => decisions[k].job \in JobIds
    /\ Work(k) = IF Authorized(k) THEN {decisions[k].job} ELSE {}
    /\ \A j \in Work(k) : jobs[j].goal = proposals[k].goal /\ jobs[j].base = proposals[k].base

\* An investigation, and the root it describes the world of.
JobOK(j) ==
    jobs[j].parent # 0 => /\ jobs[j].parent \in JobIds
                          /\ jobs[j].base = jobs[jobs[j].parent].base /\ jobs[jobs[j].parent].parent = 0

\* What a call holds while git resolves the branch.
FrameOK(f) ==
    /\ f.pc \in {"proposing", "authorizing"} => f.key \in Keys
    /\ f.pc \in {"proposing", "creating"} => f.goal \in Goals
    /\ f.pc = "proposing" => f.version \in Versions
    /\ f.pc = "authorizing" => proposals[f.key] # None
    /\ f.pc = "starting" => f.job \in JobIds
    /\ f.answer # None => f.pc = "done"
    /\ f.answer = "SAME" => f.key \in Keys /\ proposals[f.key] # None /\ f.goal = proposals[f.key].goal

KeysOK  == \A k \in Keys : KeyOK(k)
JobsOK  == \A j \in JobIds : JobOK(j)
CallsOK == \A r \in Requests : FrameOK(req[r])

WInv == Typed /\ KeysOK /\ JobsOK /\ CallsOK
-----------------------------------------------------------------------------
(* What one step leaves as it is                                             *)

\* A job keeps what it was made of, and one that is new came of no proposal.
JobsKept ==
    /\ jobs' \in Seq(Job) /\ JobIds \subseteq JobIds'
    /\ \A j \in JobIds : /\ jobs'[j].by = jobs[j].by /\ jobs'[j].parent = jobs[j].parent
                         /\ jobs'[j].goal = jobs[j].goal /\ jobs'[j].base = jobs[j].base
    /\ \A j \in JobIds' \ JobIds : jobs'[j].by = None

\* A proposal is never changed.
ProposalsKept == \A k \in Keys : proposals[k] # None => proposals'[k] = proposals[k]

\* What the assumption says of None.
LEMMA NoneIsApart ==
  ASSUME WorkAssumption
  PROVE  None \notin Keys /\ None \notin Goals /\ None # "AUTHORIZED" /\ None # "REJECTED" /\ None # "SAME"
BY DEF WorkAssumption

\* The rows of the jobs.
LEMMA JobType ==
  ASSUME Typed
  PROVE  JobIds = 1..Len(jobs) /\ Len(jobs) \in Nat /\ \A j \in JobIds : jobs[j] \in Job
BY DEF Typed, JobIds

\* The latest time of a version is the greatest there is.
LEMMA VersionType ==
  ASSUME Typed
  PROVE  StateVersion \in Versions
<1>. DEFINE S == {0} \cup {jobs[j].updated : j \in JobIds}
            Above == {n \in Nat : \A y \in S : y <= n}
<1>0. \A j \in JobIds : jobs[j] \in Job BY JobType
<1>1. S \subseteq Nat /\ 0 \in S BY <1>0 DEF Job
<1>2. time \in Above BY DEF Typed
<1>3. PICK n \in Above : \A m \in Above : n <= m
  <2>1. Above \subseteq Nat /\ Above # {} BY <1>2
  <2>. HIDE DEF Above
  <2>. QED BY <2>1, LeastNumber
<1>4. n \in S
  <2>. SUFFICES ASSUME n \notin S PROVE FALSE OBVIOUS
  <2>1. n # 0 /\ n \in Nat BY <1>1
  <2>2. n - 1 \in Nat /\ \A y \in S : y <= n - 1 BY <1>1, <1>3, <2>1
  <2>. QED BY <1>3, <2>1, <2>2
<1>5. Max(S) \in S
  <2>1. \A y \in S : n >= y BY <1>1, <1>3
  <2>. HIDE DEF S
  <2>. QED BY <1>4, <2>1 DEF Max
<1>6. Max(S) \in Nat BY <1>1, <1>5
<1>7. Len(jobs) \in Nat BY DEF Typed
<1>. QED BY <1>6, <1>7 DEF StateVersion, Versions

\* A step that writes no proposal and no decision, and inserts no job of a proposal.
LEMMA KeysStay ==
  ASSUME WorkAssumption, WInv, JobsKept, UNCHANGED papers
  PROVE  KeysOK'
<1>. SUFFICES ASSUME NEW k \in Keys PROVE KeyOK(k)' BY DEF KeysOK
<1>1. KeyOK(k) BY DEF WInv, KeysOK
<1>2. proposals' = proposals /\ decisions' = decisions BY DEF papers
<1>3. Work(k)' = Work(k) BY NoneIsApart DEF JobsKept, Work
<1>4. \A j \in Work(k) : jobs'[j].goal = jobs[j].goal /\ jobs'[j].base = jobs[j].base
  BY DEF Work, JobsKept
<1>. QED BY <1>1, <1>2, <1>3, <1>4 DEF KeyOK, Authorized, JobsKept

\* The call that takes a step holds what it needs, and the others what they held.
LEMMA CallsStay ==
  ASSUME WInv, NEW r \in Requests, NEW f \in Frame, req' = [req EXCEPT ![r] = f], FrameOK(f)',
         JobIds \subseteq JobIds', ProposalsKept
  PROVE  CallsOK' /\ req' \in [Requests -> Frame]
<1>1. req \in [Requests -> Frame] BY DEF WInv, Typed
<1>2. ASSUME NEW q \in Requests, q # r PROVE FrameOK(req[q])'
  <2>1. FrameOK(req[q]) /\ req'[q] = req[q] BY <1>1, <1>2 DEF WInv, CallsOK
  <2>. QED BY <2>1 DEF FrameOK, ProposalsKept
<1>3. FrameOK(req[r])' BY <1>1
<1>. QED BY <1>1, <1>2, <1>3 DEF CallsOK

\* Steps of a call that only read what they are about.
LEMMA Reads ==
  ASSUME WorkAssumption, WInv, NEW r \in Requests, NEW f \in Frame, req' = [req EXCEPT ![r] = f], FrameOK(f),
         UNCHANGED <<world, jobs, papers, changes>>
  PROVE  WInv'
<1>1. jobs' = jobs /\ proposals' = proposals BY DEF papers
<1>2. JobsKept BY <1>1 DEF JobsKept, WInv, Typed, JobIds
<1>3. KeysOK' BY <1>2, KeysStay
<1>4. FrameOK(f)' BY <1>1 DEF FrameOK, JobIds
<1>5. CallsOK' /\ req' \in [Requests -> Frame] BY <1>1, <1>4, CallsStay DEF JobIds, ProposalsKept
<1>6. JobsOK' BY <1>1 DEF WInv, JobsOK, JobOK, JobIds
<1>7. Typed' BY <1>5 DEF WInv, Typed, world, papers, JobIds
<1>. QED BY <1>3, <1>5, <1>6, <1>7 DEF WInv

\* A call that is answered.
LEMMA Answering ==
  ASSUME WorkAssumption, WInv, NEW r \in Requests, NEW a \in Answers, Answer(r, a)
  PROVE  \E f \in Frame : /\ req' = [req EXCEPT ![r] = f] /\ f.pc = "done" /\ f.answer = a
                          /\ f.key = req[r].key /\ f.goal = req[r].goal
<1>0. req[r] \in Frame /\ req \in [Requests -> Frame] BY DEF WInv, Typed
<1>. DEFINE f == [req[r] EXCEPT !.pc = "done", !.answer = a]
<1>1. f \in Frame /\ f.pc = "done" /\ f.answer = a /\ f.key = req[r].key /\ f.goal = req[r].goal
  BY <1>0 DEF Frame, Places
<1>2. req' = [req EXCEPT ![r] = f] BY <1>0 DEF Answer
<1>. HIDE DEF f
<1>. QED BY <1>1, <1>2

\* The field of a frame that is a Boolean.
LEMMA FreshFits ==
  ASSUME NEW f \in Frame, NEW b \in BOOLEAN
  PROVE  /\ [f EXCEPT !.fresh = b] \in Frame /\ [f EXCEPT !.fresh = b].pc = f.pc
         /\ [f EXCEPT !.fresh = b].job = f.job /\ [f EXCEPT !.fresh = b].answer = f.answer
BY DEF Frame

\* A call that goes on to start a job waits for git again, or has nothing to start.
LEMMA Advancing ==
  ASSUME WorkAssumption, WInv, NEW r \in Requests, NEW j \in Nat, NEW status, Advance(r, j, status),
         req[r].pc # "done"
  PROVE  \E f \in Frame : /\ req' = [req EXCEPT ![r] = f]
                          /\ \/ f.pc = "starting" /\ f.job = j /\ f.answer = None
                             \/ f.pc = "done" /\ f.answer = "AUTHORIZED"
<1>0. req[r] \in Frame /\ req \in [Requests -> Frame] /\ FrameOK(req[r]) BY DEF WInv, Typed, CallsOK
<1>1. CASE status \in Startable
  <2>. DEFINE fresh == (j > Len(jobs) \/ jobs[j].tries = 0)
              g == [req[r] EXCEPT !.pc = "starting", !.job = j]
              h == [g EXCEPT !.head = None]
              f == [h EXCEPT !.fresh = fresh]
  <2>1. req[r].answer = None BY <1>0 DEF FrameOK
  <2>2. fresh \in BOOLEAN OBVIOUS
  <2>3. req' = [req EXCEPT ![r] = f] BY <1>0, <1>1 DEF Advance
  <2>. HIDE DEF fresh
  <2>4. g \in Frame /\ g.pc = "starting" /\ g.job = j /\ g.answer = None
    BY <1>0, <2>1 DEF Frame, Places
  <2>. HIDE DEF g
  <2>5. h \in Frame /\ h.pc = "starting" /\ h.job = j /\ h.answer = None
    BY <2>4 DEF Frame
  <2>. HIDE DEF h
  <2>6. f \in Frame /\ f.pc = "starting" /\ f.job = j /\ f.answer = None
    BY <2>2, <2>5, FreshFits
  <2>. HIDE DEF f
  <2>. QED BY <2>3, <2>6
<1>2. CASE status \notin Startable
  <2>1. Answer(r, "AUTHORIZED") BY <1>2 DEF Advance
  <2>. QED BY <2>1, Answering DEF Answers
<1>. QED BY <1>1, <1>2

\* A proposal that was authorized before is advanced.
LEMMA AdvanceStep ==
  ASSUME WorkAssumption, WInv, NEW r \in Requests, NEW j \in JobIds, NEW status, Advance(r, j, status),
         req[r].pc # "done", UNCHANGED <<world, jobs, papers, changes>>
  PROVE  WInv'
<1>1. j \in Nat BY JobType DEF WInv
<1>2. PICK f \in Frame : /\ req' = [req EXCEPT ![r] = f]
                         /\ \/ f.pc = "starting" /\ f.job = j /\ f.answer = None
                            \/ f.pc = "done" /\ f.answer = "AUTHORIZED"
  BY <1>1, Advancing
<1>3. FrameOK(f) BY <1>2, NoneIsApart DEF FrameOK
<1>. QED BY <1>2, <1>3, Reads

\* A call begins, or is told what git says.
LEMMA BeginStep ==
  ASSUME WorkAssumption, WInv, NEW r \in Requests,
         ResolveRevision(r) \/ ProposeBegins(r) \/ AuthorizeBegins(r) \/ CreateBegins(r) \/ RunBegins(r)
  PROVE  WInv'
<1>. USE NoneIsApart
<1>0. req[r] \in Frame /\ FrameOK(req[r]) /\ req \in [Requests -> Frame] BY DEF WInv, Typed, CallsOK
<1>1. Idle \in Frame BY DEF Idle, Frame, Places
<1>2. StateVersion \in Versions /\ head \in Nat /\ changes \in Nat /\ time + Window \in Nat
  BY VersionType DEF WInv, Typed, WorkAssumption
<1>3. UNCHANGED <<world, jobs, papers, changes>>
  BY DEF ResolveRevision, ProposeBegins, AuthorizeBegins, CreateBegins, RunBegins
<1>4. CASE ResolveRevision(r)
  <2>. DEFINE f == [req[r] EXCEPT !.head = head]
  <2>1. f \in Frame /\ FrameOK(f) BY <1>0, <1>2 DEF Frame, FrameOK
  <2>2. req' = [req EXCEPT ![r] = f] BY <1>0, <1>4 DEF ResolveRevision
  <2>. HIDE DEF f
  <2>. QED BY <1>3, <2>1, <2>2, Reads
<1>5. CASE ProposeBegins(r)
  <2>1. PICK k \in Keys, g \in Goals :
          req' = [req EXCEPT ![r] = [Idle EXCEPT !.pc = "proposing", !.key = k, !.goal = g, !.version = StateVersion,
                                                 !.expires = time + Window, !.asOf = changes]]
    BY <1>5 DEF ProposeBegins, Begins
  <2>. DEFINE f == [Idle EXCEPT !.pc = "proposing", !.key = k, !.goal = g, !.version = StateVersion,
                                !.expires = time + Window, !.asOf = changes]
  <2>2. f \in Frame BY <1>1, <1>2 DEF Frame, Places
  <2>3. FrameOK(f) BY <1>2 DEF FrameOK, Idle
  <2>4. req' = [req EXCEPT ![r] = f] BY <2>1
  <2>. HIDE DEF f
  <2>. QED BY <1>3, <2>2, <2>3, <2>4, Reads
<1>6. CASE AuthorizeBegins(r)
  <2>1. PICK k \in Keys :
          /\ proposals[k] # None /\ decisions[k].decision # "REJECTED"
          /\ IF decisions[k].decision = "AUTHORIZED"
             THEN Advance(r, decisions[k].job, jobs[decisions[k].job].status)
             ELSE Begins(r, [Idle EXCEPT !.pc = "authorizing", !.key = k, !.version = StateVersion])
    BY <1>6 DEF AuthorizeBegins
  <2>2. CASE decisions[k].decision = "AUTHORIZED"
    <3>1. decisions[k].job \in JobIds /\ req[r].pc = "idle"
      BY <1>6, <2>2 DEF WInv, KeysOK, KeyOK, Authorized, AuthorizeBegins
    <3>. QED BY <1>3, <2>1, <2>2, <3>1, AdvanceStep
  <2>3. CASE decisions[k].decision # "AUTHORIZED"
    <3>. DEFINE f == [Idle EXCEPT !.pc = "authorizing", !.key = k, !.version = StateVersion]
    <3>1. f \in Frame BY <1>1, <1>2 DEF Frame, Places
    <3>2. FrameOK(f) BY <2>1 DEF FrameOK, Idle
    <3>3. req' = [req EXCEPT ![r] = f] BY <2>1, <2>3 DEF Begins
    <3>. HIDE DEF f
    <3>. QED BY <1>3, <3>1, <3>2, <3>3, Reads
  <2>. QED BY <2>2, <2>3
<1>7. CASE CreateBegins(r)
  <2>1. PICK g \in Goals : req' = [req EXCEPT ![r] = [Idle EXCEPT !.pc = "creating", !.goal = g]]
    BY <1>7 DEF CreateBegins, Begins
  <2>. DEFINE f == [Idle EXCEPT !.pc = "creating", !.goal = g]
  <2>2. f \in Frame /\ FrameOK(f) BY <1>1 DEF Frame, Places, FrameOK, Idle
  <2>3. req' = [req EXCEPT ![r] = f] BY <2>1
  <2>. HIDE DEF f
  <2>. QED BY <1>3, <2>2, <2>3, Reads
<1>8. CASE RunBegins(r)
  <2>1. PICK j \in JobIds :
          req' = [req EXCEPT ![r] = [Idle EXCEPT !.pc = "starting", !.job = j, !.fresh = (jobs[j].tries = 0)]]
    BY <1>8 DEF RunBegins, Begins
  <2>. DEFINE f == [Idle EXCEPT !.pc = "starting", !.job = j, !.fresh = (jobs[j].tries = 0)]
  <2>2. j \in Nat BY JobType DEF WInv
  <2>3. f \in Frame BY <1>1, <2>2 DEF Frame, Places
  <2>4. FrameOK(f) BY DEF FrameOK, Idle
  <2>5. req' = [req EXCEPT ![r] = f] BY <2>1
  <2>. HIDE DEF f
  <2>. QED BY <1>3, <2>3, <2>4, <2>5, Reads
<1>. QED BY <1>4, <1>5, <1>6, <1>7, <1>8

\* A proposal is recorded, or found, in one transaction.
LEMMA ProposeStep ==
  ASSUME WorkAssumption, WInv, NEW r \in Requests, ProposeCommits(r)
  PROVE  WInv'
<1>. USE NoneIsApart
<1>. DEFINE k == req[r].key
            paper == Proposal(r)
<1>1. req[r] \in Frame /\ FrameOK(req[r]) /\ req[r].pc = "proposing" /\ req[r].head # None
  BY DEF WInv, Typed, CallsOK, ProposeCommits, Resolved
<1>2. /\ k \in Keys /\ paper \in Paper /\ paper.goal = req[r].goal
      /\ paper.digest = ActionDigest(paper.goal, paper.version, paper.base)
  BY <1>1 DEF FrameOK, Frame, Proposal, Paper, ActionDigest
<1>3. UNCHANGED <<world, jobs, decisions, project, changes>> BY DEF ProposeCommits
<1>4. CASE proposals[k] # None
  <2>1. PICK a \in {"SAME", "CONFLICT"} :
          /\ Answer(r, a) /\ UNCHANGED proposals
          /\ a = "SAME" => proposals[k].digest = paper.digest
    BY <1>4 DEF ProposeCommits
  <2>2. PICK f \in Frame : /\ req' = [req EXCEPT ![r] = f] /\ f.pc = "done" /\ f.answer = a
                           /\ f.key = k /\ f.goal = req[r].goal
    BY <2>1, Answering DEF Answers
  <2>3. KeyOK(k) /\ proposals[k] \in Paper BY <1>2, <1>4 DEF WInv, KeysOK, Typed
  <2>4. a = "SAME" => proposals[k].goal = req[r].goal
    <3>1. proposals[k].digest = ActionDigest(proposals[k].goal, proposals[k].version, proposals[k].base)
      BY <1>4, <2>3 DEF KeyOK
    <3>2. paper.digest = ActionDigest(req[r].goal, paper.version, paper.base) BY <1>2
    <3>. HIDE DEF k, paper
    <3>. QED BY <2>1, <3>1, <3>2 DEF ActionDigest
  <2>5. FrameOK(f) BY <1>2, <1>4, <2>2, <2>4 DEF FrameOK
  <2>. QED BY <1>3, <2>1, <2>2, <2>5, Reads DEF papers
<1>5. CASE proposals[k] = None
  <2>1. proposals' = [proposals EXCEPT ![k] = paper] /\ Answer(r, "PROPOSED") BY <1>5 DEF ProposeCommits
  <2>2. PICK f \in Frame : req' = [req EXCEPT ![r] = f] /\ f.pc = "done" /\ f.answer = "PROPOSED"
    BY <2>1, Answering DEF Answers
  <2>. HIDE DEF k, paper
  <2>3. /\ proposals' \in [Keys -> Paper \cup {None}] /\ proposals'[k] = paper
        /\ \A q \in Keys : q # k => proposals'[q] = proposals[q]
    BY <1>2, <2>1 DEF WInv, Typed
  <2>4. ProposalsKept BY <1>5, <2>3 DEF ProposalsKept
  <2>5. FrameOK(f)' BY <2>2 DEF FrameOK
  <2>6. CallsOK' /\ req' \in [Requests -> Frame] BY <1>3, <2>2, <2>4, <2>5, CallsStay DEF JobIds
  <2>7. Typed' BY <1>3, <2>3, <2>6 DEF WInv, Typed, world, JobIds
  <2>8. JobsOK' BY <1>3 DEF WInv, JobsOK, JobOK, JobIds
  <2>9. ASSUME NEW q \in Keys PROVE KeyOK(q)'
    <3>1. KeyOK(q) /\ decisions' = decisions /\ Work(q)' = Work(q) /\ jobs' = jobs
      BY <1>3 DEF WInv, KeysOK, Work, JobIds
    <3>2. CASE q # k
      <4>1. proposals'[q] = proposals[q] BY <2>3, <3>2
      <4>. QED BY <3>1, <4>1 DEF KeyOK, Authorized, JobIds
    <3>3. CASE q = k
      <4>1. decisions[k] = Undecided BY <1>5, <3>1, <3>3 DEF KeyOK
      <4>2. ~Authorized(k) /\ Work(k) = {} BY <3>1, <3>3, <4>1 DEF KeyOK, Authorized, Undecided
      <4>. QED BY <1>2, <2>3, <3>1, <3>3, <4>1, <4>2 DEF KeyOK, Authorized
    <3>. QED BY <3>2, <3>3
  <2>. QED BY <2>6, <2>7, <2>8, <2>9 DEF WInv, KeysOK
<1>. QED BY <1>4, <1>5

\* A job that is inserted is the last.
LEMMA Inserting ==
  ASSUME Typed, NEW job \in Job, Inserted(job)
  PROVE  /\ jobs' \in Seq(Job) /\ Len(jobs') = Len(jobs) + 1 /\ JobIds' = JobIds \cup {Len(jobs) + 1}
         /\ jobs'[Len(jobs) + 1] = job /\ \A j \in JobIds : jobs'[j] = jobs[j]
         /\ Len(jobs) + 1 \notin JobIds /\ changes' = changes + 1
BY DEF Typed, Inserted, JobIds

\* insertJobRow: the row that is inserted.
LEMMA NewJobType ==
  ASSUME WorkAssumption, Typed, NEW by \in Keys \cup {None}, NEW parent \in Nat, NEW goal \in Goals, NEW base \in Nat
  PROVE  /\ NewJob(by, parent, goal, base) \in Job
         /\ NewJob(by, parent, goal, base).by = by /\ NewJob(by, parent, goal, base).parent = parent
         /\ NewJob(by, parent, goal, base).goal = goal /\ NewJob(by, parent, goal, base).base = base
         /\ NewJob(by, parent, goal, base).updated = time
BY DEF NewJob, Job, Statuses, Startable, Typed

\* A job of no proposal.
LEMMA OwnJob ==
  ASSUME WorkAssumption, WInv, NEW job \in Job, Inserted(job), Len(jobs) < MaxJobs, job.by = None,
         job.updated = time, UNCHANGED <<world, papers>>,
         job.parent = 0 \/ (job.parent \in JobIds /\ job.base = jobs[job.parent].base /\ jobs[job.parent].parent = 0),
         CallsOK' /\ req' \in [Requests -> Frame]
  PROVE  WInv'
<1>0. Typed BY DEF WInv
<1>. USE Inserting
<1>1. JobsKept BY <1>0 DEF JobsKept
<1>2. KeysOK' BY <1>1, KeysStay
<1>3. Typed'
  <2>1. MaxJobs \in Nat /\ Len(jobs) \in Nat BY <1>0, JobType DEF WorkAssumption
  <2>. QED BY <1>0, <2>1 DEF Typed, world, papers
<1>4. ASSUME NEW j \in JobIds' PROVE JobOK(j)'
  <2>1. CASE j \in JobIds
    <3>1. JobOK(j) BY <2>1 DEF WInv, JobsOK
    <3>. QED BY <1>0, <2>1, <3>1 DEF JobOK
  <2>2. CASE j = Len(jobs) + 1 BY <1>0, <2>2 DEF JobOK
  <2>. QED BY <1>0, <2>1, <2>2
<1>. QED BY <1>2, <1>3, <1>4 DEF WInv, JobsOK

\* createJob.
LEMMA CreateStep ==
  ASSUME WorkAssumption, WInv, NEW r \in Requests, CreateCommits(r)
  PROVE  WInv'
<1>1. Typed /\ req[r] \in Frame /\ FrameOK(req[r]) /\ req[r].pc = "creating" /\ req[r].head # None
  BY DEF WInv, Typed, CallsOK, CreateCommits, Resolved
<1>2. PICK job \in Job : /\ Inserted(job) /\ job.by = None /\ job.updated = time /\ job.parent = 0
  <2>1. req[r].goal \in Goals /\ req[r].head \in Nat BY <1>1 DEF FrameOK, Frame
  <2>. DEFINE job == NewJob(None, 0, req[r].goal, req[r].head)
  <2>2. job \in Job /\ job.by = None /\ job.updated = time /\ job.parent = 0
    BY <1>1, <2>1, NewJobType
  <2>3. Inserted(job) BY DEF CreateCommits
  <2>. HIDE DEF job
  <2>. QED BY <2>2, <2>3
<1>3. PICK f \in Frame : req' = [req EXCEPT ![r] = f] /\ f.pc = "done" /\ f.answer = "CREATED"
  BY Answering DEF CreateCommits, Answers
<1>4. FrameOK(f)' BY <1>3 DEF FrameOK
<1>5. UNCHANGED <<world, papers>> /\ Len(jobs) < MaxJobs BY DEF CreateCommits
<1>6. JobIds \subseteq JobIds' BY <1>1, <1>2, Inserting
<1>7. CallsOK' /\ req' \in [Requests -> Frame] BY <1>3, <1>4, <1>5, <1>6, CallsStay DEF ProposalsKept, papers
<1>. QED BY <1>2, <1>5, <1>7, OwnJob

\* createJob of an investigation.
LEMMA ChildStep ==
  ASSUME WorkAssumption, WInv, NEW j \in JobIds, CreateChild(j)
  PROVE  WInv'
<1>1. Typed /\ j \in Nat /\ jobs[j] \in Job BY JobType DEF WInv
<1>2. PICK g \in Goals : Inserted(NewJob(None, j, g, jobs[j].base)) BY DEF CreateChild, ChildBase
<1>3. jobs[j].base \in Nat BY <1>1 DEF Job
<1>4. PICK job \in Job : /\ Inserted(job) /\ job.by = None /\ job.updated = time /\ job.parent = j
                         /\ job.base = jobs[j].base
  BY <1>1, <1>2, <1>3, NewJobType
<1>5. UNCHANGED <<world, papers, req>> /\ Len(jobs) < MaxJobs /\ jobs[j].parent = 0 BY DEF CreateChild
<1>6. JobIds \subseteq JobIds' BY <1>1, <1>4, Inserting
<1>7. CallsOK' /\ req' \in [Requests -> Frame]
  BY <1>5, <1>6 DEF WInv, CallsOK, FrameOK, Typed, papers
<1>. QED BY <1>4, <1>5, <1>7, OwnJob

\* authorizeWorkProposal: the job and the decision.
LEMMA DecideStep ==
  ASSUME WorkAssumption, WInv, NEW r \in Requests, NEW k \in Keys, k = req[r].key,
         Resolved(r, "authorizing"), decisions[k] = Undecided, Authorizable(r, proposals[k]),
         Len(jobs) < MaxJobs, Decide(r, k), UNCHANGED <<world, proposals>>
  PROVE  WInv'
<1>. USE NoneIsApart
<1>. DEFINE n == Len(jobs) + 1
<1>1. /\ Typed /\ req[r] \in Frame /\ FrameOK(req[r]) /\ req[r].pc = "authorizing" /\ req[r].head # None
      /\ KeyOK(k) /\ n \in Nat
  BY JobType DEF WInv, Typed, CallsOK, Resolved, KeysOK
<1>2. proposals[k] # None /\ proposals[k] \in Paper /\ proposals[k].base = req[r].head
  BY <1>1 DEF FrameOK, Typed, Authorizable
<1>3. PICK job \in Job : /\ Inserted(job) /\ job.by = k /\ job.updated = time /\ job.parent = 0
                         /\ job.goal = proposals[k].goal /\ job.base = proposals[k].base
  <2>1. PICK g \in Goals, h \in Nat : g = proposals[k].goal /\ h = req[r].head
    BY <1>1, <1>2 DEF Paper, Frame
  <2>2. PICK job \in Job : /\ job = NewJob(k, 0, g, h) /\ job.by = k /\ job.updated = time /\ job.parent = 0
                           /\ job.goal = g /\ job.base = h
    <3>1. Typed /\ k \in Keys \cup {None} /\ 0 \in Nat BY <1>1
    <3>2. NewJob(k, 0, g, h) \in Job BY <3>1, NewJobType
    <3>3. /\ NewJob(k, 0, g, h).by = k /\ NewJob(k, 0, g, h).parent = 0 /\ NewJob(k, 0, g, h).goal = g
          /\ NewJob(k, 0, g, h).base = h /\ NewJob(k, 0, g, h).updated = time
      BY <3>1, NewJobType
    <3>. QED BY <3>2, <3>3
  <2>3. Inserted(NewJob(k, 0, g, h)) BY <2>1 DEF Decide
  <2>4. Inserted(job) BY <2>2, <2>3
  <2>. QED BY <1>2, <2>1, <2>2, <2>4
<1>4. /\ jobs' \in Seq(Job) /\ Len(jobs') = n /\ JobIds' = JobIds \cup {n} /\ n \notin JobIds
      /\ jobs'[n] = job /\ (\A j \in JobIds : jobs'[j] = jobs[j]) /\ changes' = changes + 1
  BY <1>1, <1>3, Inserting
<1>5. PICK f \in Frame : /\ req' = [req EXCEPT ![r] = f]
                         /\ \/ f.pc = "starting" /\ f.job = n /\ f.answer = None
                            \/ f.pc = "done" /\ f.answer = "AUTHORIZED"
  BY <1>1, Advancing DEF Decide
<1>6. FrameOK(f)' BY <1>4, <1>5 DEF FrameOK
<1>7. CallsOK' /\ req' \in [Requests -> Frame] BY <1>4, <1>5, <1>6, CallsStay DEF ProposalsKept
<1>8. decisions' = [decisions EXCEPT ![k] = [decision |-> "AUTHORIZED", job |-> n]] BY DEF Decide
<1>. HIDE DEF n
<1>9. /\ decisions' \in [Keys -> Ruling] /\ decisions'[k].decision = "AUTHORIZED" /\ decisions'[k].job = n
      /\ \A q \in Keys : q # k => decisions'[q] = decisions[q]
  BY <1>1, <1>8 DEF Typed, Ruling
<1>10. Typed'
  <2>1. MaxJobs \in Nat /\ n <= MaxJobs /\ time' = time /\ head' = head /\ changes' \in Nat
    BY <1>1, <1>4 DEF WorkAssumption, world, Typed, n
  <2>2. \A j \in JobIds' : jobs'[j].updated <= time'
    BY <1>1, <1>3, <1>4, <2>1 DEF Typed
  <2>. QED BY <1>1, <1>4, <1>7, <1>9, <2>1, <2>2 DEF Typed
<1>11. ASSUME NEW j \in JobIds' PROVE JobOK(j)'
  <2>1. CASE j \in JobIds
    <3>1. JobOK(j) BY <2>1 DEF WInv, JobsOK
    <3>. QED BY <1>4, <2>1, <3>1 DEF JobOK
  <2>2. CASE j = n BY <1>3, <1>4, <2>2 DEF JobOK
  <2>. QED BY <1>4, <2>1, <2>2
<1>12. ASSUME NEW q \in Keys PROVE KeyOK(q)'
  <2>1. KeyOK(q) BY DEF WInv, KeysOK
  <2>2. CASE q # k
    <3>1. Work(q)' = Work(q) BY <1>3, <1>4, <2>2 DEF Work
    <3>2. \A j \in Work(q) : jobs'[j] = jobs[j] BY <1>4 DEF Work
    <3>3. decisions'[q] = decisions[q] /\ proposals'[q] = proposals[q] /\ JobIds \subseteq JobIds'
      BY <1>4, <1>9, <2>2
    <3>4. Authorized(q)' <=> Authorized(q) BY <3>3 DEF Authorized
    <3>. QED BY <2>1, <3>1, <3>2, <3>3, <3>4 DEF KeyOK
  <2>3. CASE q = k
    <3>1. Work(k) = {} BY <1>1 DEF KeyOK, Authorized, Undecided
    <3>2. Work(k)' = {n} BY <1>3, <1>4, <3>1 DEF Work
    <3>3. decisions'[k] # Undecided /\ Authorized(k)' BY <1>9 DEF Undecided, Authorized
    <3>. QED BY <1>1, <1>2, <1>3, <1>4, <1>9, <2>3, <3>2, <3>3 DEF KeyOK
  <2>. QED BY <2>2, <2>3
<1>. QED BY <1>7, <1>10, <1>11, <1>12 DEF WInv, JobsOK, KeysOK

\* authorizeWorkProposal after its await: it decides, refuses, or finds the decision.
LEMMA AuthorizeStep ==
  ASSUME WorkAssumption, WInv, NEW r \in Requests, AuthorizeCommits(r)
  PROVE  WInv'
<1>. USE NoneIsApart
<1>1. PICK k \in Keys : k = req[r].key
  BY DEF WInv, CallsOK, FrameOK, AuthorizeCommits, Resolved
<1>2. /\ Resolved(r, "authorizing") /\ UNCHANGED <<world, proposals, project>> /\ req[r].pc # "done"
      /\ KeyOK(k)
  BY DEF AuthorizeCommits, Resolved, WInv, KeysOK
<1>3. CASE decisions[k] = Undecided /\ Authorizable(r, proposals[k]) /\ Len(jobs) < MaxJobs /\ Decide(r, k)
  BY <1>1, <1>2, <1>3, DecideStep
<1>4. CASE Answer(r, "REFUSED") /\ UNCHANGED <<jobs, decisions, changes>>
  <2>1. PICK f \in Frame : req' = [req EXCEPT ![r] = f] /\ f.pc = "done" /\ f.answer = "REFUSED"
    BY <1>4, Answering DEF Answers
  <2>2. FrameOK(f) BY <2>1 DEF FrameOK
  <2>. QED BY <1>2, <1>4, <2>1, <2>2, Reads DEF papers
<1>5. CASE /\ decisions[k].decision = "AUTHORIZED" /\ UNCHANGED <<jobs, decisions, changes>>
           /\ Advance(r, decisions[k].job, jobs[decisions[k].job].status)
  <2>1. decisions[k].job \in JobIds BY <1>2, <1>5 DEF KeyOK, Authorized
  <2>. QED BY <1>2, <1>5, <2>1, AdvanceStep DEF papers
<1>. QED BY <1>1, <1>3, <1>4, <1>5 DEF AuthorizeCommits

\* rejectWorkProposal.
LEMMA RejectStep ==
  ASSUME WorkAssumption, WInv, NEW k \in Keys, Reject(k)
  PROVE  WInv'
<1>. USE NoneIsApart
<1>1. /\ UNCHANGED <<world, jobs, proposals, project, req, changes>> /\ proposals[k] # None
      /\ decisions[k] = Undecided /\ decisions' = [decisions EXCEPT ![k].decision = "REJECTED"]
  BY DEF Reject
<1>2. /\ decisions' \in [Keys -> Ruling] /\ decisions'[k].decision = "REJECTED" /\ decisions'[k].job = 0
      /\ \A q \in Keys : q # k => decisions'[q] = decisions[q]
  BY <1>1 DEF WInv, Typed, Ruling, Undecided
<1>3. Typed' BY <1>1, <1>2 DEF WInv, Typed, world, JobIds
<1>4. JobsOK' /\ CallsOK' BY <1>1 DEF WInv, JobsOK, JobOK, JobIds, CallsOK, FrameOK
<1>5. ASSUME NEW q \in Keys PROVE KeyOK(q)'
  <2>1. KeyOK(q) /\ Work(q)' = Work(q) /\ JobIds' = JobIds BY <1>1 DEF WInv, KeysOK, Work, JobIds
  <2>2. CASE q # k BY <1>1, <1>2, <2>1, <2>2 DEF KeyOK, Authorized
  <2>3. CASE q = k
    <3>1. ~Authorized(k) /\ ~Authorized(k)' BY <1>1, <1>2 DEF Authorized, Undecided
    <3>. QED BY <1>1, <1>2, <2>1, <2>3, <3>1 DEF KeyOK
  <2>. QED BY <2>2, <2>3
<1>. QED BY <1>3, <1>4, <1>5 DEF WInv, KeysOK

\* The status of a job changes, and nothing of what it was made of.
LEMMA Updating ==
  ASSUME WorkAssumption, WInv, NEW j \in JobIds, NEW status \in Statuses, NEW tries \in Nat, Updated(j, status, tries),
         UNCHANGED <<world, papers>>, CallsOK', req' \in [Requests -> Frame]
  PROVE  WInv'
<1>1. Typed /\ jobs[j] \in Job /\ time \in Nat BY JobType DEF WInv, Typed
<1>2. PICK job \in Job : /\ jobs' = [jobs EXCEPT ![j] = job] /\ job.updated = time
                         /\ job.by = jobs[j].by /\ job.parent = jobs[j].parent
                         /\ job.goal = jobs[j].goal /\ job.base = jobs[j].base
  <2>. DEFINE job == [jobs[j] EXCEPT !.status = status, !.tries = tries, !.updated = time]
  <2>1. /\ job \in Job /\ job.updated = time /\ job.by = jobs[j].by /\ job.parent = jobs[j].parent
        /\ job.goal = jobs[j].goal /\ job.base = jobs[j].base
    BY <1>1 DEF Job
  <2>2. jobs' = [jobs EXCEPT ![j] = job] BY <1>1 DEF Updated, Typed, JobIds
  <2>. HIDE DEF job
  <2>. QED BY <2>1, <2>2
<1>3. /\ jobs' \in Seq(Job) /\ Len(jobs') = Len(jobs) /\ JobIds' = JobIds /\ jobs'[j] = job
      /\ \A i \in JobIds : i # j => jobs'[i] = jobs[i]
  BY <1>1, <1>2 DEF Typed, JobIds
<1>4. JobsKept
  <2>. SUFFICES ASSUME NEW i \in JobIds
                PROVE  /\ jobs'[i].by = jobs[i].by /\ jobs'[i].parent = jobs[i].parent
                       /\ jobs'[i].goal = jobs[i].goal /\ jobs'[i].base = jobs[i].base
    BY <1>3 DEF JobsKept
  <2>. QED BY <1>2, <1>3
<1>5. KeysOK' BY <1>4, KeysStay
<1>6. JobsOK'
  <2>. SUFFICES ASSUME NEW i \in JobIds PROVE JobOK(i)' BY <1>3 DEF JobsOK
  <2>1. JobOK(i) BY DEF WInv, JobsOK
  <2>. QED BY <1>3, <1>4, <2>1 DEF JobOK, JobsKept
<1>7. Typed'
  <2>1. changes' \in Nat /\ time' = time /\ head' = head BY <1>1 DEF Updated, world, Typed
  <2>2. \A i \in JobIds' : jobs'[i].updated <= time' BY <1>1, <1>2, <1>3, <2>1 DEF Typed
  <2>. QED BY <1>1, <1>3, <2>1, <2>2 DEF Typed, papers
<1>. QED BY <1>5, <1>6, <1>7 DEF WInv

\* The claim of runJob, or its refusal.
LEMMA RunStep ==
  ASSUME WorkAssumption, WInv, NEW r \in Requests, RunClaims(r)
  PROVE  WInv'
<1>1. PICK j \in JobIds : j = req[r].job BY DEF WInv, CallsOK, FrameOK, RunClaims, Resolved
<1>2. UNCHANGED <<world, papers, project>> /\ jobs[j] \in Job BY JobType DEF RunClaims, WInv
<1>3. PICK a \in {"STARTED", "REFUSED"} :
        /\ Answer(r, a)
        /\ Updated(j, "RUNNING", jobs[j].tries + 1) \/ UNCHANGED <<jobs, changes>>
  BY <1>1 DEF RunClaims
<1>4. PICK f \in Frame : req' = [req EXCEPT ![r] = f] /\ f.pc = "done" /\ f.answer = a
  BY <1>3, Answering DEF Answers
<1>5. FrameOK(f) /\ FrameOK(f)' BY <1>4, NoneIsApart DEF FrameOK
<1>6. CASE UNCHANGED <<jobs, changes>> BY <1>2, <1>4, <1>5, <1>6, Reads DEF papers
<1>7. CASE Updated(j, "RUNNING", jobs[j].tries + 1)
  <2>1. jobs[j].tries + 1 \in Nat /\ "RUNNING" \in Statuses BY <1>2 DEF Job, Statuses
  <2>2. JobIds' = JobIds BY <1>7 DEF Updated, JobIds, WInv, Typed
  <2>3. CallsOK' /\ req' \in [Requests -> Frame] BY <1>2, <1>4, <1>5, <2>2, CallsStay DEF ProposalsKept, papers
  <2>. QED BY <1>2, <1>7, <2>1, <2>3, Updating
<1>. QED BY <1>3, <1>6, <1>7

\* An attempt ends.
LEMMA EndStep ==
  ASSUME WorkAssumption, WInv, NEW j \in JobIds, AttemptEnds(j)
  PROVE  WInv'
<1>1. PICK status \in {"NEEDS_ATTENTION", "READY_FOR_INTEGRATION"} : Updated(j, status, jobs[j].tries)
  BY DEF AttemptEnds
<1>2. jobs[j].tries \in Nat /\ status \in Statuses BY JobType DEF WInv, Job, Statuses, Startable
<1>3. UNCHANGED <<world, papers, req>> BY DEF AttemptEnds
<1>4. JobIds' = JobIds BY <1>1 DEF Updated, JobIds, WInv, Typed
<1>5. CallsOK' /\ req' \in [Requests -> Frame] BY <1>3, <1>4 DEF WInv, CallsOK, FrameOK, Typed, papers
<1>. QED BY <1>1, <1>2, <1>3, <1>5, Updating

\* The branch moves, time passes, and the project is retired or tracked again.
LEMMA WorldStep ==
  ASSUME WorkAssumption, WInv, UNCHANGED <<jobs, papers, req, changes>>,
         BranchMoves \/ Tick \/ UNCHANGED world
  PROVE  WInv'
<1>1. Typed'
  <2>1. /\ MaxHead \in Nat /\ MaxTime \in Nat /\ head \in 0..MaxHead /\ time \in 1..MaxTime
    BY DEF WInv, Typed, WorkAssumption
  <2>2. head' \in 0..MaxHead /\ time' \in 1..MaxTime /\ time <= time'
    BY <2>1 DEF BranchMoves, Tick, world
  <2>3. \A j \in JobIds : jobs[j].updated \in Nat /\ jobs[j].updated <= time
    BY JobType DEF WInv, Typed, Job
  <2>4. \A j \in JobIds' : jobs'[j].updated <= time'
    BY <2>1, <2>2, <2>3 DEF JobIds
  <2>. QED BY <2>2, <2>4 DEF WInv, Typed, papers
<1>2. JobsOK' /\ CallsOK' BY DEF WInv, JobsOK, JobOK, JobIds, CallsOK, FrameOK, papers
<1>3. KeysOK' BY KeysStay DEF JobsKept, WInv, Typed, JobIds
<1>. QED BY <1>1, <1>2, <1>3 DEF WInv

\* There is nothing yet.
LEMMA WorkInit == WorkAssumption /\ Init => WInv
<1>. SUFFICES ASSUME WorkAssumption, Init PROVE WInv OBVIOUS
<1>. USE NoneIsApart
<1>1. JobIds = {} /\ jobs \in Seq(Job) /\ Len(jobs) = 0 BY DEF Init, JobIds
<1>2. Idle \in Frame BY DEF Idle, Frame, Places
<1>3. Undecided \in Ruling BY DEF Undecided, Ruling
<1>4. Typed BY <1>1, <1>2, <1>3 DEF Init, Typed, WorkAssumption
<1>5. KeysOK BY <1>1 DEF Init, KeysOK, KeyOK, Work, Authorized, Undecided
<1>6. CallsOK BY DEF Init, CallsOK, FrameOK, Idle
<1>. QED BY <1>1, <1>4, <1>5, <1>6 DEF WInv, JobsOK

\* Every step is one of the lemmas above.
LEMMA WorkStep ==
  ASSUME WorkAssumption, WInv, [Next]_vars
  PROVE  WInv'
<1>1. ASSUME NEW r \in Requests,
             ResolveRevision(r) \/ ProposeBegins(r) \/ AuthorizeBegins(r) \/ CreateBegins(r) \/ RunBegins(r)
      PROVE  WInv'
  BY <1>1, BeginStep
<1>2. ASSUME NEW r \in Requests, ProposeCommits(r) \/ AuthorizeCommits(r) \/ CreateCommits(r) \/ RunClaims(r)
      PROVE  WInv'
  BY <1>2, ProposeStep, AuthorizeStep, CreateStep, RunStep
<1>3. ASSUME NEW k \in Keys, Reject(k) PROVE WInv' BY <1>3, RejectStep
<1>4. ASSUME NEW j \in JobIds, CreateChild(j) \/ AttemptEnds(j) PROVE WInv' BY <1>4, ChildStep, EndStep
<1>5. CASE RetireChecks \/ RetireCommits \/ RestoreProject
  BY <1>5, WorldStep DEF RetireChecks, RetireCommits, RestoreProject
<1>6. CASE BranchMoves \/ Tick BY <1>6, WorldStep DEF BranchMoves, Tick
<1>7. CASE UNCHANGED vars BY <1>7, WorldStep DEF vars, world, papers
<1>. QED BY <1>1, <1>2, <1>3, <1>4, <1>5, <1>6, <1>7 DEF Next

\* The jobs, the proposals, their decisions and what the calls hold of them agree.
THEOREM WorkInvariant ==
  ASSUME WorkAssumption
  PROVE  Spec => []WInv
<1>1. Init => WInv BY WorkInit
<1>2. WInv /\ [Next]_vars => WInv' BY WorkStep
<1>. QED BY <1>1, <1>2, PTL DEF Spec

\* What is promised of proposals follows.
LEMMA WorkTruths ==
  ASSUME WorkAssumption, WInv
  PROVE  TypeOK /\ KeyIsOneAction /\ OneDecisionOneJob /\ AsProposed /\ OneWorld
<1>. USE NoneIsApart
<1>1. \A k \in Keys : KeyOK(k) BY DEF WInv, KeysOK
<1>2. TypeOK
  <2>1. \A k \in Keys : decisions[k].decision \in {None, "AUTHORIZED", "REJECTED"} BY DEF WInv, Typed, Ruling
  <2>2. \A k \in Keys : IF Authorized(k) THEN decisions[k].job \in JobIds ELSE decisions[k].job = 0
    BY <1>1 DEF KeyOK, Undecided, Authorized
  <2>3. \A k \in Keys : decisions[k] # Undecided => proposals[k] # None BY <1>1 DEF KeyOK
  <2>. QED BY <2>1, <2>2, <2>3 DEF TypeOK, WInv, Typed, Authorized
<1>3. KeyIsOneAction BY DEF KeyIsOneAction, WInv, CallsOK, FrameOK
<1>4. OneDecisionOneJob /\ AsProposed BY <1>1 DEF OneDecisionOneJob, AsProposed, KeyOK
<1>5. OneWorld BY DEF OneWorld, WInv, JobsOK, JobOK
<1>. QED BY <1>2, <1>3, <1>4, <1>5

\* proposeWork, authorizeWorkProposal and rejectWorkProposal, with any number of calls that overlap while git
\* resolves the branch: a key is one action; a proposal has one decision and at most one job, which is the one that
\* was proposed on the commit it was written against; and an investigation describes the world of its root.
THEOREM ProposalsAreKept ==
  ASSUME WorkAssumption
  PROVE  Spec => [](TypeOK /\ KeyIsOneAction /\ OneDecisionOneJob /\ AsProposed /\ OneWorld)
<1>1. WInv => TypeOK /\ KeyIsOneAction /\ OneDecisionOneJob /\ AsProposed /\ OneWorld BY WorkTruths
<1>. QED BY <1>1, WorkInvariant, PTL

\* Only authorizeWorkProposal authorizes, and it looks at the clock and the state of the project in that transaction.
LEMMA InTimeStep ==
  ASSUME WorkAssumption, WInv, [Next]_vars, NEW k \in Keys, Authorized(k)', ~Authorized(k)
  PROVE  time < proposals[k].expires /\ StateVersion = proposals[k].version
<1>. USE NoneIsApart
<1>1. decisions'[k] # decisions[k] BY DEF Authorized
<1>2. CASE UNCHANGED decisions BY <1>1, <1>2
<1>3. ASSUME NEW q \in Keys, Reject(q) PROVE FALSE
  <2>1. decisions' = [decisions EXCEPT ![q].decision = "REJECTED"] BY <1>3 DEF Reject
  <2>. QED BY <1>1, <2>1 DEF Authorized, WInv, Typed, Ruling
<1>4. ASSUME NEW r \in Requests, AuthorizeCommits(r), decisions' # decisions
      PROVE  time < proposals[k].expires /\ StateVersion = proposals[k].version
  <2>. DEFINE q == req[r].key
  <2>1. Authorizable(r, proposals[q]) /\ Decide(r, q) BY <1>4 DEF AuthorizeCommits
  <2>2. q = k BY <1>1, <2>1 DEF Decide, WInv, Typed
  <2>. QED BY <2>1, <2>2 DEF Authorizable
<1>5. ASSUME NEW r \in Requests,
             \/ ResolveRevision(r) \/ ProposeBegins(r) \/ ProposeCommits(r) \/ AuthorizeBegins(r)
             \/ CreateBegins(r) \/ CreateCommits(r) \/ RunBegins(r) \/ RunClaims(r)
      PROVE  UNCHANGED decisions
  BY <1>5 DEF ResolveRevision, ProposeBegins, ProposeCommits, AuthorizeBegins, CreateBegins, CreateCommits, RunBegins,
       RunClaims, papers
<1>6. ASSUME NEW j \in JobIds, CreateChild(j) \/ AttemptEnds(j) PROVE UNCHANGED decisions
  BY <1>6 DEF CreateChild, AttemptEnds, papers
<1>7. ASSUME RetireChecks \/ RetireCommits \/ RestoreProject \/ BranchMoves \/ Tick \/ UNCHANGED vars
      PROVE  UNCHANGED decisions
  BY <1>7 DEF RetireChecks, RetireCommits, RestoreProject, BranchMoves, Tick, vars, papers
<1>. QED BY <1>1, <1>2, <1>3, <1>4, <1>5, <1>6, <1>7 DEF Next

\* authorizeWorkProposal: nothing is authorized that has expired or been superseded, also while git was asked.
THEOREM InTime ==
  ASSUME WorkAssumption
  PROVE  Spec => AuthorizedInTime
<1>1. WInv /\ [Next]_vars =>
        [\A k \in Keys : (Authorized(k)' /\ ~Authorized(k)) =>
           time < proposals[k].expires /\ StateVersion = proposals[k].version]_vars
  BY InTimeStep
<1>. QED BY <1>1, WorkInvariant, PTL DEF Spec, AuthorizedInTime
=============================================================================
