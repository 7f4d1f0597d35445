---------------------------- MODULE ManagerLoop ----------------------------
(***************************************************************************)
(* The strong-model manager of one managed job: src/src/manager/service.js *)
(* with the contract of src/src/manager/contracts.js.  A "manage" process  *)
(* (src/src/cli.js) reads the run row, asks the manager one question,       *)
(* records the answer, applies it, and goes round again.  The process can   *)
(* die between any two of its steps and be started again, two of them can   *)
(* run at once, and an operator can cancel the job from the server.  The    *)
(* dispatcher's runJob is seen from outside: a worker that is claimed and   *)
(* ends; Dispatcher.tla has its inside.  The provider's conversation (the   *)
(* thread id) is data: a stale one is an outcome of a call.                 *)
(***************************************************************************)
EXTENDS Integers, Sequences, FiniteSets

CONSTANTS
    Managers,        \* "manage" processes
    Questions,       \* what an exploration can ask
    Briefs,          \* what an implementation can be told
    MaxAttempts,     \* jobs.max_attempts of the root
    MaxRounds,       \* MANAGER_LIMITS.maxExplorationRounds
    MaxTurns,        \* MANAGER_LIMITS.maxTurns
    Budgeted,        \* the job has a ceiling
    Cancellable,     \* an operator may cancel
    Recovering,      \* somebody calls ManagerService.reconcile
    StartLimit,      \* bound: how often a process is started
    None

ASSUME BoundsAssumption ==
    /\ MaxAttempts \in Nat \ {0} /\ MaxRounds \in Nat /\ MaxTurns \in Nat /\ StartLimit \in Nat
    /\ {Budgeted, Cancellable, Recovering} \subseteq BOOLEAN

VARIABLES
    job,         \* jobs.status of the root
    intact,      \* the branch is still at the job's base
    run,         \* the manager_runs row, or None
    turns,       \* manager_turns, by ordinal
    attempts,    \* the root's attempts, by ordinal
    children,    \* question -> status of its child job, None when there is none
    tries,       \* question -> attempts of its child job
    plans,       \* round -> questions in explorations-<round>.json, or None
    briefs,      \* slot -> brief in brief-<slot>.json, or None
    my,          \* what each process holds in memory
    moves,       \* history: how often the loop moved the run row
    starts       \* how often a process was started

vars == <<job, intact, run, turns, attempts, children, tries, plans, briefs, my, moves, starts>>
files == <<plans, briefs>>
work == <<attempts, children, tries>>

Min2(a, b) == IF a < b THEN a ELSE b
Stopped == {"ACCEPTED", "AWAITING_HUMAN", "FAILED", "CANCELLED"}
RunStatus == Stopped \cup {"PLANNING", "SYNTHESIZING", "EXPLORING", "IMPLEMENTING", "REVIEWING"}
JobStatus == {"PENDING", "RUNNING", "NEEDS_ATTENTION", "READY_FOR_INTEGRATION", "CANCELLED"}
ChildStatus == {None, "PENDING", "RUNNING", "SUCCEEDED", "NEEDS_ATTENTION", "CANCELLED"}
Finished == {"SUCCEEDED", "CANCELLED"}
RevisionCap == Min2(2, MaxAttempts - 1)
Slots == 1..(RevisionCap + 1)

RunRow == [status: RunStatus, xround: 0..MaxRounds, rround: 0..RevisionCap,
           candidate: Nat \cup {None}, accepted: Nat \cup {None}]

Act(a, qs, b) == [action |-> a, questions |-> qs, brief |-> b]

\* What parseManagerDecision lets through.
Decisions ==
    { Act("EXPLORE", qs, None) : qs \in (SUBSET Questions) \ {{}} }
    \cup { Act("RETHINK", qs, None) : qs \in SUBSET Questions }
    \cup { Act(a, {}, b) : a \in {"IMPLEMENT", "REVISE"}, b \in Briefs }
    \cup { Act(a, {}, None) : a \in {"ACCEPT", "ESCALATE"} }

ASSUME NoneAssumption ==
    None \notin Nat \cup Briefs \cup Decisions \cup RunRow /\ \A qs \in SUBSET Questions : qs # None

Rest == [pc |-> "idle", run |-> None, phase |-> None, rolled |-> FALSE, ordinal |-> 0,
         said |-> None, complete |-> FALSE, told |-> None, worker |-> 0, launched |-> {}, life |-> 0,
         stranded |-> {}]

Live(a) == attempts[a].terminal = "LIVE"
Busy == (\E a \in DOMAIN attempts : Live(a)) \/ (\E q \in Questions : children[q] = "RUNNING")

At(m, pc) == my[m].pc = pc
To(m, pc) == my' = [my EXCEPT ![m].pc = pc]
Enter(m, pc, r) == my' = [my EXCEPT ![m].pc = pc, ![m].run = r]
Return(m) == my' = [my EXCEPT ![m] = Rest]
Back(m) == my' = [my EXCEPT ![m] = [Rest EXCEPT !.pc = "loop", !.life = my[m].life]]
Moved(r) == run' = r /\ moves' = moves + 1

(***************************************************************************)
(* advance: the entry checks, the run row, and one turn of the loop.       *)
(***************************************************************************)
Start(m) ==
    /\ At(m, "idle") /\ starts < StartLimit
    /\ attempts = <<>> => intact
    /\ my' = [my EXCEPT ![m] = [Rest EXCEPT !.pc = IF run = None THEN "opening" ELSE "loop",
                                            !.life = starts + 1]]
    /\ starts' = starts + 1
    /\ UNCHANGED <<job, intact, run, turns, work, files, moves>>

FreshRun == [status |-> "PLANNING", xround |-> 0, rround |-> 0, candidate |-> None, accepted |-> None]

\* The thread is opened, an await, before the row is looked for again.
EnsureRun(m) ==
    /\ At(m, "opening")
    /\ run' = IF run = None THEN FreshRun ELSE run
    /\ Back(m)
    /\ UNCHANGED <<job, intact, turns, work, files, moves, starts>>

LoopStops(m) ==
    /\ At(m, "loop")
    /\ \/ run.status \in Stopped /\ UNCHANGED <<run, moves>>
       \/ /\ run.status \notin Stopped /\ job = "CANCELLED"
          /\ Moved([run EXCEPT !.status = "CANCELLED"])
    /\ Return(m)
    /\ UNCHANGED <<job, intact, turns, work, files, starts>>

Going(m, status) == At(m, "loop") /\ run.status = status /\ job # "CANCELLED"

LoopThinks(m) ==
    /\ \E p \in {<<"PLANNING", "PLAN">>, <<"SYNTHESIZING", "SYNTHESIS">>} :
          /\ Going(m, p[1])
          /\ my' = [my EXCEPT ![m].pc = "turn", ![m].run = run, ![m].phase = p[2], ![m].rolled = FALSE]
    /\ UNCHANGED <<job, intact, run, turns, work, files, moves, starts>>

\* What can be read back of one attempt when it is to be judged.
Artifact == {"PRESENT", "MISSING", "CORRUPT"}
Readable(brief, changed, diff, commit) ==
    brief = "PRESENT" /\ changed = "PRESENT" /\ (commit => diff = "PRESENT")

LoopReviews(m) ==
    /\ Going(m, "REVIEWING")
    /\ IF run.candidate = None
       THEN Enter(m, "halting", run)
       ELSE \E b, c, d \in Artifact :
              my' = [my EXCEPT ![m].pc = "turn", ![m].run = run, ![m].phase = "REVIEW", ![m].rolled = FALSE,
                               ![m].complete = Readable(b, c, d, attempts[run.candidate].commit)]
    /\ UNCHANGED <<job, intact, run, turns, work, files, moves, starts>>

(***************************************************************************)
(* runTurn: intent, call, one terminal truth.                              *)
(***************************************************************************)
Counted(m) == Len(turns)

\* The turns are counted in one statement and the row inserted in another.
Ask(m) ==
    /\ At(m, "turn")
    /\ IF Counted(m) >= MaxTurns THEN To(m, "halting")
       ELSE my' = [my EXCEPT ![m].pc = "intend", ![m].ordinal = Len(turns) + 1]
    /\ UNCHANGED <<job, intact, run, turns, work, files, moves, starts>>

Subject(m) == IF my[m].phase = "REVIEW" THEN my[m].run.candidate ELSE None

NewTurn(m) == [phase |-> my[m].phase, state |-> "INTENDED", subject |-> Subject(m), said |-> None,
               question |-> moves, life |-> my[m].life, billed |-> FALSE]

\* Mutant: ordinals are not unique.
IntendTwice(m) ==
    /\ At(m, "intend")
    /\ turns' = Append(turns, NewTurn(m)) /\ my' = [my EXCEPT ![m].pc = "called", ![m].ordinal = Len(turns) + 1]
    /\ UNCHANGED <<job, intact, run, work, files, moves, starts>>

\* UNIQUE(manager_run_id, ordinal): the slower of two processes gets an exception.
Intend(m) ==
    /\ At(m, "intend")
    /\ IF my[m].ordinal \in DOMAIN turns THEN Return(m) /\ UNCHANGED turns
       ELSE turns' = Append(turns, NewTurn(m)) /\ To(m, "called")
    /\ UNCHANGED <<job, intact, run, work, files, moves, starts>>

\* backend.runTurn is on its way: from here the provider may bill it.
Call(m) ==
    /\ At(m, "called")
    /\ turns' = [turns EXCEPT ![my[m].ordinal].billed = TRUE]
    /\ To(m, "asked")
    /\ UNCHANGED <<job, intact, run, work, files, moves, starts>>

Terminal(turn) == turn.state \notin {"INTENDED", "RUNNING"}

\* Mutant: the update has no state predicate.
FinishTurnAgain(m, state, said, billed) ==
    turns' = [turns EXCEPT ![my[m].ordinal].state = state, ![my[m].ordinal].said = said,
                           ![my[m].ordinal].billed = billed]

\* finishTurn: only from a live state, and never a second time.
FinishTurn(m, state, said, billed) ==
    LET n == my[m].ordinal IN
    /\ ~Terminal(turns[n])
    /\ turns' = [turns EXCEPT ![n].state = state, ![n].said = said, ![n].billed = billed]

AnswerRefused(m) ==
    /\ At(m, "asked") /\ Terminal(turns[my[m].ordinal])
    /\ To(m, "halting")
    /\ UNCHANGED <<job, intact, run, turns, work, files, moves, starts>>

Answers(m) ==
    /\ At(m, "asked")
    /\ \E d \in Decisions :
          /\ FinishTurn(m, "COMPLETED", d, TRUE)
          /\ my' = [my EXCEPT ![m].pc = "decided", ![m].said = d]
    /\ UNCHANGED <<job, intact, run, work, files, moves, starts>>

\* Malformed, empty, lost after acceptance, or refused outright: the run stops.
AnswersBadly(m) ==
    /\ At(m, "asked")
    /\ \/ FinishTurn(m, "COMPLETED", None, TRUE)
       \/ \E billed \in BOOLEAN : FinishTurn(m, "FAILED", None, billed)
       \/ FinishTurn(m, "UNCERTAIN", None, TRUE)
    /\ To(m, "halting")
    /\ UNCHANGED <<job, intact, run, work, files, moves, starts>>

Replayable(m) == ~my[m].rolled

\* Mutant: a call that was accepted and lost is repeated like one that was refused.
RepeatLost(m) ==
    /\ At(m, "asked") /\ Replayable(m)
    /\ FinishTurn(m, "UNCERTAIN", None, TRUE)
    /\ my' = [my EXCEPT ![m].pc = "turn", ![m].rolled = TRUE]
    /\ UNCHANGED <<job, intact, run, work, files, moves, starts>>

\* The provider refused the thread before any inference; a new one is opened, once.
StaleThread(m) ==
    /\ At(m, "asked") /\ Replayable(m)
    /\ FinishTurn(m, "FAILED", None, FALSE)
    /\ my' = [my EXCEPT ![m].pc = "turn", ![m].rolled = TRUE]
    /\ UNCHANGED <<job, intact, run, work, files, moves, starts>>

(***************************************************************************)
(* Applying a decision.                                                    *)
(***************************************************************************)
\* Mutant: the file is named by the round, and the first two rounds share one.
SlotShared(r) == IF r.rround = 0 THEN 1 ELSE r.rround

Slot(r) == r.rround + 1

Supported(phase) ==
    IF phase = "REVIEW" THEN {"ACCEPT", "REVISE", "RETHINK"}
    ELSE {"IMPLEMENT", "EXPLORE", "RETHINK"} \cup (IF phase = "SYNTHESIS" THEN {"REVISE"} ELSE {})

Said(m, actions) ==
    /\ At(m, "decided")
    /\ my[m].said.action \in actions
    /\ my[m].said.action \in Supported(my[m].phase)

Escalates(m) ==
    /\ At(m, "decided") /\ my[m].said.action \notin Supported(my[m].phase)
    /\ To(m, "halting")
    /\ UNCHANGED <<job, intact, run, turns, work, files, moves, starts>>

DecideImplement(m) ==
    /\ Said(m, {"IMPLEMENT"})
    /\ briefs' = [briefs EXCEPT ![Slot(my[m].run)] = my[m].said.brief]
    /\ To(m, "briefed")
    /\ UNCHANGED <<job, intact, run, turns, work, plans, moves, starts>>

\* Only a synthesis gives up the candidate it was shown.
EnterImplementing(m) ==
    /\ At(m, "briefed")
    /\ Moved([run EXCEPT !.status = "IMPLEMENTING",
                         !.candidate = IF my[m].phase = "SYNTHESIS" THEN None ELSE @])
    /\ Back(m)
    /\ UNCHANGED <<job, intact, turns, work, files, starts>>

\* openExplorationRound reads the row again after a synthesis, and only then.
RoundFrom(m) == IF my[m].phase = "SYNTHESIS" THEN run ELSE my[m].run

ReplanStatus(r) == IF r.candidate # None THEN "SYNTHESIZING" ELSE "PLANNING"

Replan(m) ==
    /\ Said(m, {"RETHINK"}) /\ my[m].said.questions = {}
    /\ Moved([run EXCEPT !.status = ReplanStatus(RoundFrom(m))])
    /\ Back(m)
    /\ UNCHANGED <<job, intact, turns, work, files, starts>>

\* Mutant: the row names the round before the file does.
RowBeforePlan(m) ==
    LET round == RoundFrom(m).xround + 1 IN
    /\ Said(m, {"EXPLORE", "RETHINK"}) /\ my[m].said.questions # {} /\ round <= MaxRounds
    /\ Moved([run EXCEPT !.status = "EXPLORING", !.xround = round])
    /\ Enter(m, "planned", RoundFrom(m))
    /\ UNCHANGED <<job, intact, turns, work, files, starts>>

DecideExplore(m) ==
    LET round == RoundFrom(m).xround + 1 IN
    /\ Said(m, {"EXPLORE", "RETHINK"}) /\ my[m].said.questions # {}
    /\ IF round > MaxRounds
       THEN To(m, "halting") /\ UNCHANGED plans
       ELSE /\ plans' = [plans EXCEPT ![round] = my[m].said.questions]
            /\ Enter(m, "planned", RoundFrom(m))
    /\ UNCHANGED <<job, intact, run, turns, work, briefs, moves, starts>>

EnterExploring(m) ==
    /\ At(m, "planned")
    /\ Moved([run EXCEPT !.status = "EXPLORING", !.xround = my[m].run.xround + 1])
    /\ Back(m)
    /\ UNCHANGED <<job, intact, turns, work, files, starts>>

\* Mutant: the cap is not looked at.
RevisableAlways(m) == my[m].phase = "SYNTHESIS" => my[m].run.candidate # None

Revisable(m) ==
    /\ my[m].phase = "SYNTHESIS" => my[m].run.candidate # None
    /\ my[m].run.rround + 1 <= RevisionCap

DecideRevise(m) ==
    /\ Said(m, {"REVISE"})
    /\ IF Revisable(m)
       THEN Moved([run EXCEPT !.rround = my[m].run.rround + 1, !.status = "IMPLEMENTING"]) /\ To(m, "revised")
       ELSE UNCHANGED <<run, moves>> /\ To(m, "halting")
    /\ UNCHANGED <<job, intact, turns, work, files, starts>>

\* Written after the round advances.
StoreRevisedBrief(m) ==
    /\ At(m, "revised")
    /\ briefs' = [briefs EXCEPT ![Slot(run)] = my[m].said.brief]
    /\ Back(m)
    /\ UNCHANGED <<job, intact, run, turns, work, plans, moves, starts>>

\* Mutant: the manager's word is enough.
AcceptableOnWord(m, a) == a.commit /\ my[m].complete

Acceptable(m, a) ==
    /\ a.terminal = "SUCCEEDED" /\ a.validation = "PASSED" /\ a.commit
    /\ my[m].complete

Accept(m) ==
    /\ Said(m, {"ACCEPT"})
    /\ Acceptable(m, attempts[my[m].run.candidate])
    /\ Moved([run EXCEPT !.status = "ACCEPTED", !.accepted = my[m].run.candidate])
    /\ job' = "READY_FOR_INTEGRATION"
    /\ Back(m)
    /\ UNCHANGED <<intact, turns, work, files, starts>>

\* Any of accept's own checks; an exhausted budget too.
RefuseAccept(m) ==
    /\ Said(m, {"ACCEPT"})
    /\ Acceptable(m, attempts[my[m].run.candidate]) => Budgeted
    /\ To(m, "halting")
    /\ UNCHANGED <<job, intact, run, turns, work, files, moves, starts>>

\* Every ManagerStop ends here: the run for a person, the job with it.
Halt(m) ==
    /\ At(m, "halting")
    /\ Moved([run EXCEPT !.status = "AWAITING_HUMAN"])
    /\ job' = "NEEDS_ATTENTION"
    /\ Return(m)
    /\ UNCHANGED <<intact, turns, work, files, starts>>

(***************************************************************************)
(* explore: the children of a round, then its synthesis.                   *)
(***************************************************************************)
Plan(m) == plans[my[m].run.xround]

Explore(m) ==
    /\ Going(m, "EXPLORING")
    /\ Enter(m, IF plans[run.xround] = None THEN "halting" ELSE "children", run)
    /\ UNCHANGED <<job, intact, run, turns, work, files, moves, starts>>

\* A child is found by its question, and made when there is none.
CreateChild(m, q) ==
    /\ At(m, "children") /\ q \in Plan(m) /\ children[q] = None
    /\ children' = [children EXCEPT ![q] = "PENDING"]
    /\ UNCHANGED <<job, intact, run, turns, attempts, tries, files, my, moves, starts>>

Pending(m) == { q \in Plan(m) : children[q] \notin Finished }
ChildClaimable(q) == children[q] \in {"PENDING", "NEEDS_ATTENTION"} /\ tries[q] < 1

\* The round is funded as a whole; of its children the dispatcher may still refuse any.
LaunchRound(m) ==
    /\ At(m, "children") /\ \A q \in Plan(m) : children[q] # None
    /\ \E S \in SUBSET { q \in Pending(m) : ChildClaimable(q) } :
          /\ S # {} => \A a \in DOMAIN attempts : ~Live(a)
          /\ children' = [q \in Questions |-> IF q \in S THEN "RUNNING" ELSE children[q]]
          /\ tries' = [q \in Questions |-> IF q \in S THEN tries[q] + 1 ELSE tries[q]]
          /\ my' = [my EXCEPT ![m].pc = "exploring", ![m].launched = S]
    /\ UNCHANGED <<job, intact, run, turns, attempts, files, moves, starts>>

RoundUnfunded(m) ==
    /\ At(m, "children") /\ \A q \in Plan(m) : children[q] # None
    /\ Budgeted /\ Pending(m) # {}
    /\ To(m, "halting")
    /\ UNCHANGED <<job, intact, run, turns, work, files, moves, starts>>

ChildEnds(m, q) ==
    /\ At(m, "exploring") /\ q \in my[m].launched /\ children[q] = "RUNNING"
    /\ \E s \in {"SUCCEEDED", "NEEDS_ATTENTION"} : children' = [children EXCEPT ![q] = s]
    /\ UNCHANGED <<job, intact, run, turns, attempts, tries, files, my, moves, starts>>

\* Mutant: a round is only synthesized when all its investigations succeeded.
SynthesizeSuccesses(m) ==
    /\ At(m, "exploring") /\ \A q \in my[m].launched : children[q] = "SUCCEEDED"
    /\ my' = [my EXCEPT ![m].pc = "turn", ![m].phase = "SYNTHESIS", ![m].rolled = FALSE, ![m].launched = {}]
    /\ UNCHANGED <<job, intact, run, turns, work, files, moves, starts>>

Synthesize(m) ==
    /\ At(m, "exploring") /\ \A q \in my[m].launched : children[q] # "RUNNING"
    /\ my' = [my EXCEPT ![m].pc = "turn", ![m].phase = "SYNTHESIS", ![m].rolled = FALSE, ![m].launched = {}]
    /\ UNCHANGED <<job, intact, run, turns, work, files, moves, starts>>

(***************************************************************************)
(* implement: one worker, told one brief.                                  *)
(***************************************************************************)
Previous == IF attempts = <<>> THEN None ELSE attempts[Len(attempts)]

\* renderBrief names the attempt's ordinal exactly when it is a revision.
Digest(b) == <<b, IF run.rround > 0 THEN Len(attempts) + 1 ELSE 0>>
StartSha == IF run.rround > 0 /\ Previous # None /\ Previous.commit THEN Len(attempts) ELSE 0
Reroll(b) == Previous # None /\ Previous.digest = Digest(b)
Instruction(b) == [brief |-> b, digest |-> Digest(b), start |-> StartSha]

Implement(m) ==
    LET b == briefs[Slot(run)] IN
    /\ Going(m, "IMPLEMENTING")
    /\ IF b = None \/ Reroll(b)
       THEN Enter(m, "halting", run)
       ELSE my' = [my EXCEPT ![m].pc = "instructed", ![m].run = run, ![m].told = Instruction(b)]
    /\ UNCHANGED <<job, intact, run, turns, work, files, moves, starts>>

\* The job is made claimable by a statement of its own, whatever has become of it since the loop looked.
Release(m) ==
    /\ At(m, "instructed")
    /\ job' = "PENDING"
    /\ To(m, "claim")
    /\ UNCHANGED <<intact, run, turns, work, files, moves, starts>>

Claims ==
    /\ job \in {"PENDING", "NEEDS_ATTENTION"} /\ ~Busy /\ Len(attempts) < MaxAttempts
    /\ attempts = <<>> => intact

NewAttempt(told) == [terminal |-> "LIVE", validation |-> "NOT_RUN", commit |-> FALSE,
                     brief |-> told.brief, digest |-> told.digest, start |-> told.start]

ClaimAttempt(m) ==
    /\ At(m, "claim") /\ Claims
    /\ attempts' = Append(attempts, NewAttempt(my[m].told))
    /\ job' = "RUNNING"
    /\ my' = [my EXCEPT ![m].pc = "working", ![m].worker = Len(attempts) + 1]
    /\ UNCHANGED <<intact, run, turns, children, tries, files, moves, starts>>

\* runJob throws, which is no ManagerStop: the process ends and the run stays as it is.
ClaimThrows(m) ==
    /\ At(m, "claim") /\ (Claims => Budgeted)
    /\ Return(m)
    /\ UNCHANGED <<job, intact, run, turns, work, files, moves, starts>>

Ended(a, terminal, validation, commit) ==
    attempts' = [attempts EXCEPT ![a].terminal = terminal, ![a].validation = validation, ![a].commit = commit]

WorkerPasses(m) ==
    LET a == my[m].worker IN
    /\ At(m, "working") /\ Live(a)
    /\ Ended(a, "SUCCEEDED", "PASSED", TRUE)
    /\ \E over \in {FALSE, Budgeted} : job' = IF over THEN "NEEDS_ATTENTION" ELSE "RUNNING"
    /\ UNCHANGED <<intact, run, turns, children, tries, files, my, moves, starts>>

AfterFailure == IF Len(attempts) >= MaxAttempts THEN "NEEDS_ATTENTION" ELSE "PENDING"

WorkerFails(m) ==
    LET a == my[m].worker IN
    /\ At(m, "working") /\ Live(a)
    /\ Ended(a, "FAILED", "NOT_RUN", FALSE) \/ \E v \in {"FAILED", "NOT_RUN"} : Ended(a, "SUCCEEDED", v, TRUE)
    /\ job' = AfterFailure
    /\ UNCHANGED <<intact, run, turns, children, tries, files, my, moves, starts>>

\* Whatever became of it, and whichever is the newest, is what gets reviewed.
EnterReviewing(m) ==
    /\ At(m, "working") /\ ~Live(my[m].worker)
    /\ Moved([run EXCEPT !.status = "REVIEWING", !.candidate = Len(attempts)])
    /\ Back(m)
    /\ UNCHANGED <<job, intact, turns, work, files, starts>>

(***************************************************************************)
(* Everybody else.                                                         *)
(***************************************************************************)
\* cancelJob of the server, seen from here in one step.
CancelJob ==
    /\ Cancellable
    /\ job # "READY_FOR_INTEGRATION"
    /\ job' = IF Busy \/ job \in {"PENDING", "NEEDS_ATTENTION"} THEN "CANCELLED" ELSE job
    /\ attempts' = [a \in DOMAIN attempts |->
          IF Live(a) THEN [attempts[a] EXCEPT !.terminal = "CANCELLED"] ELSE attempts[a]]
    /\ children' = [q \in Questions |-> IF children[q] = "RUNNING" THEN "CANCELLED" ELSE children[q]]
    /\ UNCHANGED <<intact, run, turns, tries, files, my, moves, starts>>

BranchMoves ==
    /\ intact /\ intact' = FALSE
    /\ UNCHANGED <<job, run, turns, work, files, my, moves, starts>>

Crash(m) ==
    /\ ~At(m, "idle")
    /\ Return(m)
    /\ UNCHANGED <<job, intact, run, turns, work, files, moves, starts>>

Abandoned(a) == Live(a) /\ \A m \in Managers : ~(At(m, "working") /\ my[m].worker = a)
Orphan(q) == children[q] = "RUNNING" /\ \A m \in Managers : q \notin my[m].launched

\* The dispatcher's reconcile finds the worker of a dead process gone.
WorkerLost ==
    \/ /\ \E a \in DOMAIN attempts : Abandoned(a) /\ Ended(a, "FAILED", "NOT_RUN", FALSE)
       /\ job' = AfterFailure
       /\ UNCHANGED <<intact, run, turns, children, tries, files, my, moves, starts>>
    \/ /\ \E q \in Questions : Orphan(q) /\ children' = [children EXCEPT ![q] = "NEEDS_ATTENTION"]
       /\ UNCHANGED <<job, intact, run, turns, attempts, tries, files, my, moves, starts>>

\* ManagerService.reconcile: it reads the interrupted turns, then settles them one by one.
ReconcileReads(m) ==
    /\ Recovering /\ At(m, "idle") /\ starts < StartLimit
    /\ \E n \in DOMAIN turns : ~Terminal(turns[n])
    /\ my' = [my EXCEPT ![m].pc = "settling", ![m].stranded = { n \in DOMAIN turns : ~Terminal(turns[n]) }]
    /\ starts' = starts + 1
    /\ UNCHANGED <<job, intact, run, turns, work, files, moves>>

ReconcileTurn(m) ==
    /\ At(m, "settling")
    /\ \E n \in my[m].stranded :
          /\ turns' = [turns EXCEPT ![n].state = "UNCERTAIN"]
          /\ IF my[m].stranded = {n} THEN Return(m) ELSE my' = [my EXCEPT ![m].stranded = @ \ {n}]
    /\ Moved([run EXCEPT !.status = "AWAITING_HUMAN"])
    /\ job' = "NEEDS_ATTENTION"
    /\ UNCHANGED <<intact, work, files, starts>>

Init ==
    /\ job = "PENDING" /\ intact = TRUE /\ run = None
    /\ turns = <<>> /\ attempts = <<>>
    /\ children = [q \in Questions |-> None] /\ tries = [q \in Questions |-> 0]
    /\ plans = [r \in 1..MaxRounds |-> None] /\ briefs = [s \in Slots |-> None]
    /\ my = [m \in Managers |-> Rest]
    /\ moves = 0 /\ starts = 0

Decide(m) ==
    \/ Escalates(m) \/ DecideImplement(m) \/ EnterImplementing(m) \/ Replan(m) \/ DecideExplore(m)
    \/ EnterExploring(m) \/ DecideRevise(m) \/ StoreRevisedBrief(m) \/ Accept(m) \/ RefuseAccept(m) \/ Halt(m)

RunTurn(m) ==
    Ask(m) \/ Intend(m) \/ Call(m) \/ AnswerRefused(m) \/ Answers(m) \/ AnswersBadly(m) \/ StaleThread(m)

Investigate(m) ==
    \/ Explore(m) \/ LaunchRound(m) \/ RoundUnfunded(m) \/ Synthesize(m)
    \/ \E q \in Questions : CreateChild(m, q) \/ ChildEnds(m, q)

Build(m) == Implement(m) \/ Release(m) \/ ClaimAttempt(m) \/ ClaimThrows(m) \/ WorkerPasses(m) \/ WorkerFails(m) \/ EnterReviewing(m)

\* The steps of a process that is running; Start and Crash are not its own.
Step(m) ==
    \/ EnsureRun(m) \/ LoopStops(m) \/ LoopThinks(m) \/ LoopReviews(m)
    \/ RunTurn(m) \/ Decide(m) \/ Investigate(m) \/ Build(m) \/ ReconcileTurn(m)

Next ==
    \/ \E m \in Managers : Start(m) \/ Step(m) \/ Crash(m) \/ ReconcileReads(m)
    \/ CancelJob \/ BranchMoves \/ WorkerLost

Spec == Init /\ [][Next]_vars
FairSpec == Spec /\ \A m \in Managers : WF_vars(Step(m))

(***************************************************************************)
(* Properties.                                                             *)
(***************************************************************************)
\* Every row, file and process is in a state the code has a name for.
TypeOK ==
    /\ job \in JobStatus /\ intact \in BOOLEAN
    /\ run = None \/ /\ run \in RunRow
                     /\ {run.candidate, run.accepted} \subseteq DOMAIN attempts \cup {None}
    /\ \A n \in DOMAIN turns : /\ turns[n].state \in {"INTENDED", "COMPLETED", "FAILED", "UNCERTAIN"}
                              /\ turns[n].said \in Decisions \cup {None}
                              /\ turns[n].phase = "REVIEW" => turns[n].subject \in DOMAIN attempts
    /\ children \in [Questions -> ChildStatus]
    /\ plans \in [1..MaxRounds -> (SUBSET Questions) \cup {None}]
    /\ briefs \in [Slots -> Briefs \cup {None}]

\* finishTurn: an answer that comes after recovery has given the turn up as uncertain is neither recorded
\* nor applied.
LateAnswerRefused ==
    [][\A n \in DOMAIN turns : turns[n].state = "UNCERTAIN" =>
          /\ turns'[n].said = turns[n].said
          /\ \A m \in Managers : (At(m, "asked") /\ my[m].ordinal = n) => my'[m].pc \in {"asked", "halting", "idle"}]_vars

\* runTurn: the ceiling on scarce calls holds although the turns are counted before the row is inserted
\* and two processes may do so at once.
TurnsWithinCeiling == Len(turns) <= MaxTurns

SameQuestion(i, j) == i < j /\ turns[i].question = turns[j].question

\* runTurn: one process never pays twice for the answer to one question; only a call that was certainly
\* not billed is made again.
PaidOncePerProcess ==
    \A i, j \in DOMAIN turns : SameQuestion(i, j) /\ turns[i].life = turns[j].life => ~turns[i].billed

\* accept: what is offered for integration is one validated attempt with a candidate, and a completed
\* review of exactly that attempt said ACCEPT; a crash never leaves the job offered with nothing accepted.
OfferedWasReviewed ==
    /\ job = "READY_FOR_INTEGRATION" => run.status = "ACCEPTED"
    /\ (run # None /\ run.accepted # None) =>
        /\ attempts[run.accepted].terminal = "SUCCEEDED" /\ attempts[run.accepted].validation = "PASSED"
        /\ attempts[run.accepted].commit
        /\ \E n \in DOMAIN turns : /\ turns[n].phase = "REVIEW" /\ turns[n].subject = run.accepted
                                  /\ turns[n].said = Act("ACCEPT", {}, None)

\* openExplorationRound: a crash between the round and its work leaves a round that can be resumed, never
\* one whose questions are lost.
RoundHasPlan == (run # None /\ run.status = "EXPLORING") => plans[run.xround] # None

Told(n) == turns[n].state = "COMPLETED" /\ turns[n].said # None /\ turns[n].said.action \in {"IMPLEMENT", "REVISE"}
LastTold(n) == Told(n) /\ \A k \in DOMAIN turns : k > n => ~Told(k)

\* implement, review: an implementation that is due has the brief that was decided last, and a review its
\* candidate, whatever the process died at.  The exception is stated: revise moves the row (:879) before
\* it writes the file (:886), so that the brief of a revision, and of nothing else, may be missing; the next
\* process then stops for a person (NO_BRIEF).
WorkIsThere ==
    run # None =>
      /\ run.status = "REVIEWING" => run.candidate # None
      /\ run.status = "IMPLEMENTING" =>
            \E n \in DOMAIN turns :
               /\ LastTold(n)
               /\ \/ briefs[Slot(run)] = turns[n].said.brief
                  \/ briefs[Slot(run)] = None /\ turns[n].said.action = "REVISE"

\* advance: whatever row a process that died wrote last, the next one finds what that row asks for: a round
\* its questions, an implementation its brief (but see WorkIsThere), a review its candidate, and an offer
\* that was earned.
Resumable == TypeOK /\ RoundHasPlan /\ WorkIsThere /\ OfferedWasReviewed

\* implement: a worker is told what the manager decided last, also after a crash between the decision, the
\* file it is written to and the row that points at it.
WorkerIsToldTheDecision ==
    [][\A a \in DOMAIN attempts' \ DOMAIN attempts :
          \E n \in DOMAIN turns : LastTold(n) /\ attempts'[a].brief = turns[n].said.brief]_vars

\* advance: a process that is not killed comes to an end, whatever the manager answers: the turn ceiling
\* is what bounds a manager that never stops rethinking.
ManageEnds == \A m \in Managers : ~At(m, "idle") ~> At(m, "idle")
-----------------------------------------------------------------------------
(* Promises of the repository that the code does not keep: section 8 of the  *)
(* README has the behaviour that contradicts each.                           *)

\* manager/service.js:101 "the call MAY have been made and billed. Recovery converts this to UNCERTAIN. It is
\* never replayed."
NeverReplayed == \A i, j \in DOMAIN turns : SameQuestion(i, j) => ~turns[i].billed

\* service.js:2550 'Cancelling means "I do not want this job to continue"', and test/cancel.test.js:134 of a job that
\* was closed: "it will not run later".
CancelledStays == [][job = "CANCELLED" => job' = "CANCELLED"]_vars

\* manager/service.js:373: the check of the loop is there so that a cancelled exploration round is not followed by
\* a scarce SYNTHESIS turn "on the wreckage".
NoTurnOnWreckage ==
    [][\A m \in Managers : (At(m, "exploring") /\ my'[m].pc = "turn") => job # "CANCELLED"]_vars

\* manager/evidence.js:341 "IMPLEMENT abandons it and starts again from the authorized base."
ImplementStartsAtBase ==
    [][\A a \in DOMAIN attempts' \ DOMAIN attempts :
          turns[Len(turns)].said.action = "IMPLEMENT" => attempts'[a].start = 0]_vars

\* manager/service.js:773 "A managed retry that repeated its instruction would be the re-roll this whole layer
\* exists to remove, so it is refused."
NoReroll == \A a \in DOMAIN attempts : a > 1 => attempts[a].brief # attempts[a - 1].brief

\* manager/service.js:58: the manager does not spend a scarce turn "producing a brief that could never run".
BriefCanRun == [][\A m \in Managers : At(m, "briefed") => Len(attempts) < MaxAttempts]_vars

\* manager/service.js:277 "A manager turn acquires one terminal truth exactly once."
TurnFinal ==
    [][\A n \in DOMAIN turns : Terminal(turns[n]) =>
          turns'[n].state = turns[n].state /\ turns'[n].said = turns[n].said]_vars
=============================================================================
