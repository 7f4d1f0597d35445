------------------------------- MODULE Outcome -------------------------------
(***************************************************************************)
(* jobOutcome and budgetObstacle (src/src/service.js): what a person is    *)
(* told of a job, from its status and the row of its last attempt.  The    *)
(* two sentences for attempts that failed in the same or in different      *)
(* ways are one here: both ask for a decision.                             *)
(***************************************************************************)
EXTENDS Naturals

Say(state, asks) == [state |-> state, asks |-> asks]

\* Mutant: what was withdrawn is said as what was refused.
ObstacleConflated(exceeded, accounted, reached) ==
    IF exceeded \/ reached THEN "budget-exceeded"
    ELSE IF ~accounted THEN "budget-unverifiable" ELSE "none"

\* Mutant: spend that is known is no obstacle.
ObstacleIfUnknown(exceeded, accounted, reached) == IF ~accounted THEN "budget-unverifiable" ELSE "none"

\* Why no other attempt can start, when a ceiling is the reason.
Obstacle(exceeded, accounted, reached) ==
    IF exceeded THEN "budget-exceeded"
    ELSE IF ~accounted THEN "budget-unverifiable"
    ELSE IF reached THEN "budget-reached" ELSE "none"

Stuck(tries, last) == IF tries = 1 THEN Say("worker-failed", TRUE) ELSE Say("exhausted", TRUE)

\* Mutant: a decision is asked for only of work that failed.
OutcomeAsksOfFailures(status, tries, last, obstacle) ==
    Say(status, tries > 0 /\ last.terminal = "FAILED")

\* Mutant: a check that gave no verdict is one that failed.
OutcomeWithoutNotRun(status, tries, last, obstacle) ==
    IF tries = 0 THEN Say("pending", FALSE)
    ELSE IF last.terminal = "SUCCEEDED" /\ last.validation \in {"NOT_RUN", "FAILED"}
      THEN Say("validation-failed", status = "NEEDS_ATTENTION")
    ELSE IF status = "NEEDS_ATTENTION" THEN Stuck(tries, last)
    ELSE Say(status, FALSE)

\* The first of these that applies.
Outcome(status, tries, last, obstacle) ==
    IF tries = 0 THEN Say("pending", FALSE)
    ELSE IF status = "CANCELLED" \/ last.terminal = "CANCELLED" THEN Say("cancelled", FALSE)
    ELSE IF last.terminal = "SUCCEEDED" /\ last.validation = "NOT_RUN"
      THEN Say("validation-interrupted", status = "NEEDS_ATTENTION")
    ELSE IF last.terminal = "SUCCEEDED" /\ last.validation = "FAILED"
      THEN Say("validation-failed", status = "NEEDS_ATTENTION")
    ELSE IF status = "RUNNING" /\ tries > 1 THEN Say("retrying", FALSE)
    ELSE IF status = "NEEDS_ATTENTION"
      THEN IF obstacle # "none" THEN Say(obstacle, TRUE) ELSE Stuck(tries, last)
    ELSE IF last.terminal = "FAILED" THEN Say("worker-failed", FALSE)
    ELSE Say(status, FALSE)
=============================================================================
