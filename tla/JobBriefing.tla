----------------------------- MODULE JobBriefing -----------------------------
(***************************************************************************)
(* What is said of a direct job while Dispatcher runs, cancels and         *)
(* recovers it: the working and ready_to_check entries of briefing         *)
(* (src/src/service.js).  Projects are not retired here, and no list is     *)
(* long enough to be cut.                                                  *)
(***************************************************************************)
EXTENDS Dispatcher, Outcome

VARIABLE exceededEvents  \* jobs with a BUDGET_EXCEEDED event

briefingVars == <<jobs, made, attempts, receipt, generation, stage, left, executor, validator,
                  spend, logged, alive, fresh, cancel, openIntents, outcomes, cancelsLeft, exceededEvents>>

\* Written with the verdict, in one transaction.
Overspends(a) == stage[a] = "overspent" /\ attempts[a].validation # "PASSED"
                 /\ attempts'[a].validation = "PASSED"

BriefingInit == Init /\ exceededEvents = {}
BriefingNext ==
  /\ Next
  /\ exceededEvents' = exceededEvents \cup {JobOf(a) : a \in {b \in AttemptIds : Overspends(b)}}
BriefingSpec == BriefingInit /\ [][BriefingNext]_briefingVars

Last(j) == <<j, made[j]>>

ObstacleTo(j) ==
  LET root == RootOf(j)
  IN  IF Ceiling[root] = Unlimited THEN "none"
      ELSE Obstacle(j \in exceededEvents, Accounted(root), Spent(root) >= Ceiling[root])

\* jobOutcome, which is called by briefing for the jobs that need attention.
Told(j) == Outcome(jobs[j], made[j], IF made[j] = 0 THEN Blank ELSE attempts[Last(j)], ObstacleTo(j))

ReadyToCheck == {j \in DirectJobs : jobs[j] = "NEEDS_ATTENTION"}
-----------------------------------------------------------------------------
\* jobOutcome: "Out of attempts means the person now has to decide something": whatever a job went
\* through before it needs attention, its entry asks for a decision.
AttentionAsks == \A j \in ReadyToCheck : Told(j).asks

\* budgetObstacle: "the work is finished", and "the candidate is intact": said only while the last
\* attempt is one whose checks passed, and of no job that anybody still works on.
ExceededIsIntact ==
  \A j \in DirectJobs : Told(j).state = "budget-exceeded" =>
    /\ attempts[Last(j)].validation = "PASSED"
    /\ \A a \in LiveAttempts : JobOf(a) # j

\* jobOutcome: "collapsing them is how a system starts lying gently": a check is said to have failed
\* only if one ran and failed, and to have been interrupted only when none is running that is recorded.
VerdictIsReal ==
  \A j \in DirectJobs :
    /\ Told(j).state = "validation-failed" => validator[Last(j)] = "bad"
    /\ Told(j).state = "validation-interrupted" => ~Live(Last(j))

\* Nothing has come of a job of which it is said that it could not be completed, or that it is being
\* tried again because what went before did not work.
FailureIsReal ==
  \A j \in DirectJobs : Told(j).state \in {"worker-failed", "exhausted", "retrying"} =>
    \A n \in 1..made[j] : attempts[<<j, n>>].validation # "PASSED"

\* jobOutcome, budgetObstacle: what the operator is told of a job, and asked to do about it, is what
\* happened to its attempts and children.
ToldAsItWas == AttentionAsks /\ ExceededIsIntact /\ VerdictIsReal /\ FailureIsReal
-----------------------------------------------------------------------------
(* Promises of the repository that the code does not keep: section 8 of the  *)
(* README has the behaviour that contradicts each.                           *)

\* budgetObstacle says "why another attempt cannot start, when a recorded ceiling is the reason".  The
\* claim throws and leaves the job PENDING, and the obstacle is looked at for NEEDS_ATTENTION only.
Refused(j) ==
  /\ jobs[j] = "PENDING" /\ made[j] > 0 /\ Retryable(j)
  /\ LiveAttempts = {} /\ Grants(j) = {}
RefusalIsTold == \A j \in DirectJobs : Refused(j) => Told(j).asks
=============================================================================
