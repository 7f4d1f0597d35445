-------------------------- MODULE DispatcherProofs --------------------------
(***************************************************************************)
(* Proofs about Dispatcher for every set of jobs and processes, every      *)
(* number of retries and checks, and any number of cancels and crashes:    *)
(* the inductive invariant; and what rests on it, that a family stays      *)
(* within its ceiling, that the status of a job agrees with its attempts,  *)
(* that the receipt of a cancel stays true, and what the operator is told. *)
(***************************************************************************)
EXTENDS DispatcherInvariant, TotalsProofs, JobBriefing, TLAPS

(* Identities of attempts *)

\* An attempt id is a job and an ordinal within its retries.
LEMMA AttemptIdsType ==
  \A a \in AttemptIds : JobOf(a) \in Jobs /\ a[2] \in 1..MaxAttempts[JobOf(a)]
                        /\ a = <<JobOf(a), a[2]>>
BY JobsAssumption DEF AttemptIds, JobOf

\* The row a claim writes is one of the job's retries.
LEMMA NextAttempt ==
  ASSUME NEW j \in Jobs, NEW n \in Nat, n < MaxAttempts[j]
  PROVE  /\ <<j, n + 1>> \in AttemptIds
         /\ JobOf(<<j, n + 1>>) = j /\ <<j, n + 1>>[2] = n + 1
<1>1. MaxAttempts[j] \in Nat BY JobsAssumption
<1>2. n + 1 \in 1..MaxAttempts[j] BY <1>1
<1>. QED BY <1>2 DEF AttemptIds, JobOf

\* The authority granted to an attempt is a natural number.
LEMMA GrantsType == \A j \in Jobs : Grants(j) \subseteq Nat
BY DEF Grants

\* The invariant holds at the start.
LEMMA InitInvariant == Init => IInv
<1>. SUFFICES ASSUME Init PROVE IInv OBVIOUS
<1>1. TypeOK
  BY ProcsAssumption, JobsAssumption DEF Init, TypeOK, Blank, AttemptRow, NoCancel, CancelFrame,
     JobStatus, Terminal, Validation, Stages, Executors, Validators, CancelStages, Outcomes
<1>2. \A a \in AttemptIds : ~Exists(a)
  BY AttemptIdsType DEF Init, Exists
<1>3. ProcsOK /\ CancelOK
  BY <1>2, ProcsAssumption DEF Init, ProcsOK, CancelOK, NoCancel
<1>4. \A a \in AttemptIds : AttemptOK(a)
  BY <1>2 DEF Init, AttemptOK, Untouched, Driven, Tracked, Contained, Blank, Ended, Executing,
     InCheck, Running, Live, Validating
<1>. QED BY <1>1, <1>3, <1>4 DEF IInv
-----------------------------------------------------------------------------
(* Writing one row *)

\* An attempt's row is replaced, and no other.
LEMMA WriteRow ==
  ASSUME TypeOK, NEW a \in AttemptIds, NEW row, Write(a, row)
  PROVE  /\ attempts'[a] = row
         /\ \A b \in AttemptIds : b # a => attempts'[b] = attempts[b]
         /\ row \in AttemptRow => attempts' \in [AttemptIds -> AttemptRow]
BY DEF TypeOK, Write

\* Every row the dispatcher writes is a row.
LEMMA RowUpdates ==
  ASSUME NEW r \in AttemptRow
  PROVE  /\ \A p \in Procs, g, n \in Nat :
              [r EXCEPT !.scheduler = p, !.epoch = g, !.reservation = n] \in AttemptRow
         /\ [r EXCEPT !.instruction = TRUE, !.executorIntent = TRUE, !.executorPid = FALSE,
                      !.intended = TRUE] \in AttemptRow
         /\ [r EXCEPT !.instruction = TRUE] \in AttemptRow /\ [r EXCEPT !.report = TRUE] \in AttemptRow
         /\ [r EXCEPT !.executorPid = TRUE] \in AttemptRow
         /\ [r EXCEPT !.terminal = "SUCCEEDED", !.validation = "PENDING",
                      !.executorIntent = FALSE, !.executorPid = FALSE] \in AttemptRow
         /\ [r EXCEPT !.validationIntent = TRUE, !.validationPid = FALSE] \in AttemptRow
         /\ [r EXCEPT !.validationPid = TRUE] \in AttemptRow
         /\ [r EXCEPT !.validationIntent = FALSE, !.validationPid = FALSE] \in AttemptRow
         /\ \A v \in Validation : [r EXCEPT !.validation = v] \in AttemptRow
         /\ \A t \in Terminal : [r EXCEPT !.terminal = t] \in AttemptRow
         /\ \A t \in Terminal :
              [r EXCEPT !.terminal = t, !.executorIntent = FALSE, !.executorPid = FALSE]
                \in AttemptRow
         /\ [r EXCEPT !.validation = "NOT_RUN", !.validationIntent = FALSE,
                      !.validationPid = FALSE] \in AttemptRow
BY DEF AttemptRow, Terminal, Validation

\* A paper is filed under an attempt, or nothing is written of it.
Filed(a) == attempts'[a] \in {attempts[a], [attempts[a] EXCEPT !.instruction = TRUE],
                              [attempts[a] EXCEPT !.report = TRUE]}

\* What may become of an attempt that is over.
Stands(a) == Filed(a) /\ (attempts[a].terminal # "CANCELLED" => attempts'[a] = attempts[a])

\* Filing leaves the rest of a row, and the papers filed before.
LEMMA FiledRow ==
  ASSUME NEW a \in AttemptIds, attempts[a] \in AttemptRow, Filed(a)
  PROVE  /\ attempts'[a] \in AttemptRow
         /\ attempts'[a].scheduler = attempts[a].scheduler
         /\ attempts'[a].epoch = attempts[a].epoch
         /\ attempts'[a].terminal = attempts[a].terminal
         /\ attempts'[a].validation = attempts[a].validation
         /\ attempts'[a].executorIntent = attempts[a].executorIntent
         /\ attempts'[a].executorPid = attempts[a].executorPid
         /\ attempts'[a].validationIntent = attempts[a].validationIntent
         /\ attempts'[a].validationPid = attempts[a].validationPid
         /\ attempts'[a].intended = attempts[a].intended
         /\ attempts'[a].reservation = attempts[a].reservation
         /\ attempts[a].instruction => attempts'[a].instruction
         /\ attempts[a].report => attempts'[a].report
         /\ Verdict(attempts'[a]) = Verdict(attempts[a])
BY DEF Filed, AttemptRow, Verdict

\* A start that is refused files its instruction all the same, and the end of a run its report.
LEMMA FilingStep ==
  ASSUME TypeOK, NEW a \in AttemptIds,
         (IntendExecutor(a) /\ ~Accepts(a, "null", "NOT_RUN")) \/ RecordUsage(a)
  PROVE  Filed(a) /\ \A b \in AttemptIds : b # a => attempts'[b] = attempts[b]
BY WriteRow DEF TypeOK, IntendExecutor, RecordUsage, Filed

\* Every frame cancelJob works with is a frame.
LEMMA FirstFrame ==
  ASSUME NEW p \in Servers, NEW j \in Jobs, NEW s \in JobStatus
  PROVE  [NoCancel EXCEPT !.stage = "read", !.by = p, !.job = j, !.status = s] \in CancelFrame
BY DEF NoCancel, CancelFrame, CancelStages, JobStatus, Outcomes

\* A cancel that goes to its next stage, with an outcome or without, is a cancel.
LEMMA FrameUpdates ==
  ASSUME NEW c \in CancelFrame, NEW s \in CancelStages, NEW o \in Outcomes
  PROVE  /\ [c EXCEPT !.stage = s] \in CancelFrame
         /\ [c EXCEPT !.stage = s, !.outcome = o] \in CancelFrame
         /\ [c EXCEPT !.outcome = o, !.stage = s] \in CancelFrame
BY DEF CancelFrame

\* A cancel that takes its next attempt is a cancel.
LEMMA NextFrame ==
  ASSUME NEW c \in CancelFrame, NEW o \in Outcomes, NEW b \in c.todo
  PROVE  [c EXCEPT !.outcome = o, !.stage = "kill", !.current = b, !.todo = @ \ {b}]
           \in CancelFrame
<1>1. b \in AttemptIds /\ c.todo \ {b} \in SUBSET AttemptIds BY DEF CancelFrame
<1>. QED BY <1>1 DEF CancelFrame, CancelStages
-----------------------------------------------------------------------------
(* Type correctness of a step *)

\* Every step keeps the types.
LEMMA TypeStep == IInv /\ [Next]_vars => TypeOK'
<1>. SUFFICES ASSUME TypeOK, CancelOK, \A a \in AttemptIds : Tracked(a), [Next]_vars
     PROVE  TypeOK'
  BY DEF IInv, AttemptOK
<1>. USE DEF TypeOK
<1>1. ASSUME NEW p \in Procs, StartProcess(p) \/ Crash(p) PROVE TypeOK'
  BY <1>1, ProcsAssumption DEF StartProcess, Crash, ledger, frames, children, cancelling, Stages,
     NoCancel, CancelFrame, CancelStages, JobStatus, Outcomes
<1>2. ASSUME NEW p \in Procs, NEW j \in DirectJobs \cup Explorations, Claim(p, j) PROVE TypeOK'
  <2>. DEFINE a == <<j, made[j] + 1>>
  <2>1. j \in Jobs /\ made[j] < MaxAttempts[j]
    BY <1>2 DEF Claim, Retryable, Jobs
  <2>2. a \in AttemptIds BY <2>1, NextAttempt
  <2>3. PICK grant \in Grants(j) :
          /\ Write(a, [attempts[a] EXCEPT !.scheduler = p, !.epoch = generation,
                                          !.reservation = grant])
          /\ Goto(a, "claimed")
          /\ left' = [left EXCEPT ![a] = Plan(j)]
    BY <1>2 DEF Claim
  <2>4. grant \in Nat BY <2>1, GrantsType
  <2>5. attempts' \in [AttemptIds -> AttemptRow]
    <3>. HIDE DEF a
    <3>1. [attempts[a] EXCEPT !.scheduler = p, !.epoch = generation, !.reservation = grant]
            \in AttemptRow
      BY <2>2, <2>4, RowUpdates
    <3>. QED BY <2>2, <2>3, <3>1, WriteRow
  <2>6. stage' \in [AttemptIds -> Stages] /\ left' \in [AttemptIds -> Nat]
    BY <2>3, JobsAssumption DEF Goto, Stages, Plan
  <2>7. made' \in [Jobs -> Nat] /\ \A k \in Jobs : made'[k] <= MaxAttempts[k]
    <3>1. MaxAttempts[j] \in Nat /\ made[j] + 1 <= MaxAttempts[j] /\ made[j] + 1 \in Nat
      BY <2>1, JobsAssumption
    <3>2. made' = [made EXCEPT ![j] = made[j] + 1] BY <1>2 DEF Claim
    <3>. QED BY <2>1, <3>1, <3>2
  <2>8. jobs' \in [Jobs -> JobStatus]
    BY <1>2 DEF Claim, JobStatus
  <2>. QED BY <1>2, <2>5, <2>6, <2>7, <2>8 DEF Claim, children, processes, cancelling
<1>3. ASSUME NEW a \in AttemptIds, RunJob(a) PROVE TypeOK'
  <2>. USE DEF Step, Quiet, Goto, children, processes, cancelling
  <2>1. JobOf(a) \in Jobs /\ attempts[a] \in AttemptRow
    BY AttemptIdsType
  <2>2. CASE WorktreeFails(a) BY <2>2 DEF WorktreeFails, Stages
  <2>3. CASE IntendExecutor(a)
    <3>1. attempts' \in [AttemptIds -> AttemptRow]
      BY <2>1, <2>3, WriteRow, RowUpdates DEF IntendExecutor, Terminal, Validation
    <3>. QED BY <2>1, <2>3, <3>1 DEF IntendExecutor, Stages
  <2>4. CASE SpawnExecutor(a) BY <2>4 DEF SpawnExecutor, Stages, Executors
  <2>5. CASE RecordExecutorPid(a)
    <3>1. attempts' \in [AttemptIds -> AttemptRow]
      BY <2>1, <2>5, WriteRow, RowUpdates DEF RecordExecutorPid, Terminal, Validation
    <3>. QED BY <2>1, <2>5, <3>1 DEF RecordExecutorPid, Stages, Kill, Executors
  <2>6. CASE RecordUsage(a)
    <3>1. attempts' \in [AttemptIds -> AttemptRow]
      <4>1. \A b \in AttemptIds : attempts'[b] \in AttemptRow
        BY <2>1, <2>6, FilingStep, FiledRow
      <4>2. attempts' = [b \in AttemptIds |-> attempts'[b]] BY <2>6 DEF RecordUsage
      <4>. QED BY <4>1, <4>2
    <3>. QED BY <2>6, <3>1 DEF RecordUsage, Stages
  <2>7. CASE JudgeExecutor(a) BY <2>7 DEF JudgeExecutor, Stages
  <2>8. CASE ExecutorSucceeded(a)
    <3>1. attempts' \in [AttemptIds -> AttemptRow]
      BY <2>1, <2>8, WriteRow, RowUpdates DEF ExecutorSucceeded, Terminal, Validation
    <3>. QED BY <2>1, <2>8, <3>1 DEF ExecutorSucceeded, Stages
  <2>9. CASE IntendCheck(a)
    <3>1. attempts' \in [AttemptIds -> AttemptRow]
      BY <2>1, <2>9, WriteRow, RowUpdates DEF IntendCheck, Terminal, Validation
    <3>. QED BY <2>1, <2>9, <3>1 DEF IntendCheck, Stages
  <2>10. CASE SpawnCheck(a) BY <2>10 DEF SpawnCheck, Stages, Validators, Executors
  <2>11. CASE RecordValidationPid(a)
    <3>1. attempts' \in [AttemptIds -> AttemptRow]
      BY <2>1, <2>11, WriteRow, RowUpdates DEF RecordValidationPid, Terminal, Validation
    <3>. QED BY <2>1, <2>11, <3>1 DEF RecordValidationPid, Stages, Kill, Validators, Executors
  <2>12. CASE RecordCheck(a)
    <3>1. attempts' \in [AttemptIds -> AttemptRow]
      BY <2>1, <2>12, WriteRow, RowUpdates DEF RecordCheck, Terminal, Validation
    <3>2. left[a] > 0
      BY <2>12 DEF RecordCheck, At, Tracked, InCheck
    <3>3. left' \in [AttemptIds -> Nat]
      BY <2>12, <3>2 DEF RecordCheck
    <3>. QED BY <2>1, <2>12, <3>1, <3>3 DEF RecordCheck, Stages
  <2>13. CASE SettleBudget(a) BY <2>13 DEF SettleBudget, Stages
  <2>14. CASE PassValidation(a)
    <3>1. attempts' \in [AttemptIds -> AttemptRow]
      BY <2>1, <2>14, WriteRow, RowUpdates DEF PassValidation, Terminal, Validation
    <3>2. jobs' \in [Jobs -> JobStatus]
      BY <2>1, <2>14 DEF PassValidation, Completed, JobStatus
    <3>. QED BY <2>1, <2>14, <3>1, <3>2 DEF PassValidation, Stages
  <2>15. CASE FailAttempt(a)
    <3>1. attempts' \in [AttemptIds -> AttemptRow]
      BY <2>1, <2>15, WriteRow, RowUpdates DEF FailAttempt, Terminal, Validation
    <3>2. jobs' \in [Jobs -> JobStatus]
      BY <2>1, <2>15 DEF FailAttempt, Returned, JobStatus
    <3>. QED BY <2>1, <2>15, <3>1, <3>2 DEF FailAttempt, Stages
  <2>. QED BY <1>3, <2>2, <2>3, <2>4, <2>5, <2>6, <2>7, <2>8, <2>9, <2>10, <2>11, <2>12, <2>13,
           <2>14, <2>15 DEF RunJob
<1>4. ASSUME NEW a \in AttemptIds, ExecutorCloses(a) \/ ValidatorCloses(a) PROVE TypeOK'
  BY <1>4, JobsAssumption DEF ExecutorCloses, ValidatorCloses, Close, Executors, Validators, ledger,
     frames, processes, cancelling
<1>5. ASSUME NEW p \in Servers, NEW j \in Jobs, CancelReads(p, j) PROVE TypeOK'
  <2>1. cancel' \in CancelFrame
    BY <1>5, FirstFrame DEF CancelReads
  <2>2. cancelsLeft' \in Nat
    BY <1>5 DEF CancelReads
  <2>. QED BY <1>5, <2>1, <2>2 DEF CancelReads, ledger, frames, children, processes
<1>6. ASSUME NEW p \in Servers, CancelJob(p) PROVE TypeOK'
  <2>. USE DEF CancelStep, CancelAt, CancelGoto, frames, processes, CancelStages
  <2>1. cancel.job \in Jobs /\ cancel.stage # "idle"
    BY <1>6 DEF CancelJob, CancelReadsFamily, RecordIntent, CloseIdleJob, KillChild, MarkCancelled,
       CheckFamily, CloseRoot, SettleCancel, CancelOK
  <2>2. CASE CancelReadsFamily(p)
    <3>. DEFINE live == {a \in FamilyAttempts(cancel.job) : Live(a)}
                checking == {a \in live : Validating(a)}
                pids == {a \in live : IF a \in checking THEN attempts[a].validationPid
                                                        ELSE attempts[a].executorPid}
    <3>1. live \subseteq AttemptIds /\ checking \subseteq AttemptIds /\ pids \subseteq AttemptIds
      BY DEF FamilyAttempts
    <3>. HIDE DEF live, checking, pids
    <3>2. PICK subject \in AttemptIds \cup {None} :
            cancel' = [cancel EXCEPT !.stage = "intend", !.epoch = generation,
                         !.subject = subject, !.current = subject, !.todo = live \ {subject},
                         !.pids = pids, !.checking = checking]
      BY <2>2, <3>1 DEF CancelReadsFamily, live, checking, pids
    <3>3. cancel' \in CancelFrame
      BY <3>1, <3>2 DEF CancelFrame
    <3>. QED BY <2>2, <3>3 DEF CancelReadsFamily
  <2>3. CASE RecordIntent(p)
    BY <2>1, <2>3 DEF RecordIntent, Intent, CancelFrame
  <2>4. CASE CloseIdleJob(p)
    <3>1. cancel' \in CancelFrame
      <4>1. PICK o \in Outcomes : cancel' = [cancel EXCEPT !.stage = "settle", !.outcome = o]
        BY <2>4 DEF CloseIdleJob, Outcomes
      <4>. QED BY <4>1, FrameUpdates
    <3>2. jobs' \in [Jobs -> JobStatus]
      BY <2>1, <2>4 DEF CloseIdleJob, JobStatus
    <3>. QED BY <2>4, <3>1, <3>2 DEF CloseIdleJob
  <2>5. CASE KillChild(p)
    BY <2>5 DEF KillChild, Kill, Executors, Validators, CancelFrame
  <2>6. CASE MarkCancelled(p)
    <3>1. cancel.current \in AttemptIds /\ JobOf(cancel.current) \in Jobs
      BY <2>6, AttemptIdsType DEF MarkCancelled, CancelOK
    <3>2. attempts[cancel.current] \in AttemptRow BY <3>1
    <3>3. attempts' \in [AttemptIds -> AttemptRow]
      <4>1. \/ attempts' = attempts
            \/ Write(cancel.current, [attempts[cancel.current] EXCEPT !.validation = "NOT_RUN",
                                       !.validationIntent = FALSE, !.validationPid = FALSE])
            \/ Write(cancel.current, [attempts[cancel.current] EXCEPT !.terminal = "CANCELLED",
                                       !.executorIntent = FALSE, !.executorPid = FALSE])
        BY <2>6 DEF MarkCancelled
      <4>. DEFINE r == attempts[cancel.current]
      <4>2. /\ [r EXCEPT !.validation = "NOT_RUN", !.validationIntent = FALSE,
                         !.validationPid = FALSE] \in AttemptRow
            /\ [r EXCEPT !.terminal = "CANCELLED", !.executorIntent = FALSE,
                         !.executorPid = FALSE] \in AttemptRow
        BY <3>2, RowUpdates DEF Terminal
      <4>. QED BY <3>1, <4>1, <4>2, WriteRow
    <3>4. jobs' \in [Jobs -> JobStatus]
      BY <2>6, <3>1 DEF MarkCancelled, JobStatus
    <3>5. cancel' \in CancelFrame
      <4>1. PICK o \in Outcomes :
              \/ cancel' = [cancel EXCEPT !.outcome = o, !.stage = "family"]
              \/ \E b \in cancel.todo : cancel' = [cancel EXCEPT !.outcome = o, !.stage = "kill",
                                                   !.current = b, !.todo = @ \ {b}]
        <5>. DEFINE own == cancel.current = cancel.subject
                    applies == /\ attempts[cancel.current].epoch = cancel.epoch
                               /\ own => generation = cancel.epoch
                               /\ \/ attempts[cancel.current].terminal = "null"
                                  \/ Validating(cancel.current)
                    outcome == IF own /\ ~applies THEN "ALREADY_TERMINAL" ELSE cancel.outcome
        <5>1. outcome \in Outcomes BY DEF Outcomes, CancelFrame
        <5>2. \/ cancel' = [cancel EXCEPT !.outcome = outcome, !.stage = "family"]
              \/ \E b \in cancel.todo :
                   cancel' = [cancel EXCEPT !.outcome = outcome, !.stage = "kill",
                                            !.current = b, !.todo = @ \ {b}]
          BY <2>6 DEF MarkCancelled, CancelFrame
        <5>. QED BY <5>1, <5>2
      <4>2. CASE cancel' = [cancel EXCEPT !.outcome = o, !.stage = "family"]
        BY <4>2, FrameUpdates
      <4>3. ASSUME NEW b \in cancel.todo,
                   cancel' = [cancel EXCEPT !.outcome = o, !.stage = "kill",
                                            !.current = b, !.todo = @ \ {b}]
            PROVE  cancel' \in CancelFrame
        BY <4>3, NextFrame
      <4>. QED BY <4>1, <4>2, <4>3
    <3>. QED BY <2>6, <3>3, <3>4, <3>5 DEF MarkCancelled
  <2>7. CASE CheckFamily(p)
    <3>1. cancel' \in CancelFrame
      <4>1. \E s \in CancelStages, o \in Outcomes :
              \/ cancel' = [cancel EXCEPT !.stage = s]
              \/ cancel' = [cancel EXCEPT !.stage = s, !.outcome = o]
        BY <2>7 DEF CheckFamily, CancelStages, Outcomes
      <4>2. PICK s \in CancelStages, o \in Outcomes :
              \/ cancel' = [cancel EXCEPT !.stage = s]
              \/ cancel' = [cancel EXCEPT !.stage = s, !.outcome = o]
        BY <4>1
      <4>3. cancel \in CancelFrame OBVIOUS
      <4>4. /\ [cancel EXCEPT !.stage = s] \in CancelFrame
            /\ [cancel EXCEPT !.stage = s, !.outcome = o] \in CancelFrame
        BY <4>3, FrameUpdates
      <4>. QED BY <4>2, <4>4
    <3>. QED BY <2>7, <3>1 DEF CheckFamily
  <2>8. CASE CloseRoot(p)
    BY <2>1, <2>8 DEF CloseRoot, JobStatus, CancelFrame
  <2>9. CASE SettleCancel(p)
    BY <2>1, <2>9 DEF SettleCancel, Intent, NoCancel, JobStatus, Outcomes, CancelFrame
  <2>. QED BY <1>6, <2>2, <2>3, <2>4, <2>5, <2>6, <2>7, <2>8, <2>9 DEF CancelJob
<1>7. ASSUME NEW p \in Servers, Reconcile(p) PROVE TypeOK'
  <2>1. attempts' \in [AttemptIds -> AttemptRow]
    <3>1. \A a \in AttemptIds : attempts'[a] \in AttemptRow
      BY <1>7, RowUpdates DEF Reconcile, Validation, Terminal
    <3>. QED BY <1>7, <3>1 DEF Reconcile
  <2>2. jobs' \in [Jobs -> JobStatus]
    BY <1>7 DEF Reconcile, Returned, JobStatus
  <2>. QED BY <1>7, <2>1, <2>2 DEF Reconcile, frames, children, processes, cancelling
<1>8. CASE UNCHANGED vars BY <1>8 DEF vars
<1>. QED BY <1>1, <1>2, <1>3, <1>4, <1>5, <1>6, <1>7, <1>8 DEF Next
-----------------------------------------------------------------------------
(* A step of one call keeps the invariant of its attempt *)

\* An attempt nothing of which changes keeps its invariant.
LEMMA OtherAttempt ==
  ASSUME NEW b \in AttemptIds, AttemptOK(b),
         attempts'[b] = attempts[b], stage'[b] = stage[b], left'[b] = left[b],
         executor'[b] = executor[b], validator'[b] = validator[b],
         made'[JobOf(b)] = made[JobOf(b)], generation' = generation,
         alive' = alive, fresh' = fresh
  PROVE  AttemptOK(b)'
BY DEF AttemptOK, Untouched, Driven, Tracked, Contained, Exists, Live, Validating

\* A call of runJob keeps the invariant of the attempt it drives.
LEMMA RunJobStep ==
  ASSUME IInv, NEW a \in AttemptIds, RunJob(a)
  PROVE  AttemptOK(a)'
<1>. USE DEF Goto, Ended, Executing, InCheck, Running
<1>1. /\ TypeOK /\ AttemptOK(a)
      /\ attempts[a] \in AttemptRow /\ stage \in [AttemptIds -> Stages]
      /\ executor \in [AttemptIds -> Executors] /\ validator \in [AttemptIds -> Validators]
      /\ left \in [AttemptIds -> Nat]
  BY DEF IInv, TypeOK
<1>2. Step(a)
  BY DEF RunJob, WorktreeFails, IntendExecutor, SpawnExecutor, RecordExecutorPid, RecordUsage,
     JudgeExecutor, ExecutorSucceeded, IntendCheck, SpawnCheck, RecordValidationPid, RecordCheck,
     SettleBudget, PassValidation, FailAttempt
<1>3. \A s : At(a, s) /\ s # "idle" =>
               /\ stage[a] = s /\ Exists(a) /\ Exists(a)' /\ attempts[a].scheduler \in alive
               /\ generation' = generation /\ alive' = alive /\ fresh' = fresh
  BY <1>1, <1>2 DEF At, CanStep, AttemptOK, Untouched, Step, Exists, processes
<1>. DEFINE row == attempts[a]
<1>4. /\ Driven(a) /\ Tracked(a) /\ Contained(a)
  BY <1>1 DEF AttemptOK
<1>5. CASE WorktreeFails(a)
  BY <1>1, <1>3, <1>4, <1>5 DEF WorktreeFails, Quiet, children, AttemptOK, Untouched, Driven,
     Tracked, Contained, Live, Validating
<1>6. CASE IntendExecutor(a)
  <2>. USE DEF Untouched, Driven, Tracked, Contained, Live, Validating
  <2>1. CASE Accepts(a, "null", "NOT_RUN")
    <3>1. /\ attempts'[a].terminal = "null" /\ attempts'[a].validation = "NOT_RUN"
          /\ attempts'[a].executorIntent /\ attempts'[a].scheduler = row.scheduler
          /\ attempts'[a].epoch = row.epoch /\ attempts'[a].validationIntent = row.validationIntent
      <4>1. Write(a, [row EXCEPT !.instruction = TRUE, !.executorIntent = TRUE,
                             !.executorPid = FALSE, !.intended = TRUE])
        BY <1>6, <2>1 DEF IntendExecutor
      <4>2. attempts'[a] = [row EXCEPT !.instruction = TRUE, !.executorIntent = TRUE,
                                       !.executorPid = FALSE, !.intended = TRUE]
        BY <1>1, <4>1, WriteRow
      <4>. QED BY <1>1, <2>1, <4>2 DEF AttemptRow, Accepts
    <3>2. Untouched(a)' /\ Driven(a)'
      BY <1>1, <1>3, <1>4, <1>6, <2>1, <3>1 DEF IntendExecutor, Accepts, children
    <3>3. Tracked(a)' BY <1>1, <1>3, <1>4, <1>6, <2>1, <3>1 DEF IntendExecutor, Accepts, children
    <3>4. Contained(a)' BY <1>1, <1>3, <1>4, <1>6, <2>1, <3>1 DEF IntendExecutor, Accepts, children
    <3>. QED BY <3>2, <3>3, <3>4 DEF AttemptOK
  <2>2. CASE ~(Accepts(a, "null", "NOT_RUN"))
    <3>1. Filed(a) BY <1>1, <1>6, <2>2, FilingStep
    <3>2. stage[a] = "claimed" /\ stage'[a] = "failing" /\ children' = children /\ left' = left
      BY <1>1, <1>6, <2>2 DEF IntendExecutor, At
    <3>3. row.terminal = "CANCELLED"
      BY <1>1, <1>3, <1>4, <1>6, <2>2, <3>2 DEF IntendExecutor, Accepts
    <3>. QED BY <1>1, <1>3, <1>4, <1>6, <3>1, <3>2, <3>3, FiledRow DEF IntendExecutor, children, AttemptOK
  <2>. QED BY <2>1, <2>2
<1>7. CASE SpawnExecutor(a)
  BY <1>1, <1>3, <1>4, <1>7 DEF SpawnExecutor, Quiet, AttemptOK, Untouched, Driven, Tracked,
     Contained, Live, Validating
<1>8. CASE RecordExecutorPid(a)
  BY <1>1, <1>3, <1>4, <1>8, WriteRow DEF RecordExecutorPid, Kill, Accepts, AttemptOK, Untouched,
     Driven, Tracked, Contained, Live, Validating, AttemptRow
<1>9. CASE RecordUsage(a)
  <2>1. Filed(a) BY <1>1, <1>9, FilingStep
  <2>2. /\ \/ stage[a] = "aborted" /\ stage'[a] = "failing"
           \/ stage[a] = "running" /\ stage'[a] = "metered" /\ executor[a] \in {"ok", "bad"}
        /\ left' = left /\ children' = children
    BY <1>1, <1>9 DEF RecordUsage, At
  <2>. QED BY <1>1, <1>3, <1>4, <1>9, <2>1, <2>2, FiledRow DEF RecordUsage, children, AttemptOK, Untouched,
         Driven, Tracked, Contained, Live, Validating
<1>10. CASE JudgeExecutor(a)
  BY <1>1, <1>3, <1>4, <1>10 DEF JudgeExecutor, Quiet, children, AttemptOK, Untouched, Driven,
     Tracked, Contained, Live, Validating
<1>11. CASE ExecutorSucceeded(a)
  <2>. USE DEF Untouched, Driven, Tracked, Contained, Live, Validating
  <2>1. CASE Accepts(a, "null", "NOT_RUN") /\ row.executorIntent
    <3>1. /\ attempts'[a].terminal = "SUCCEEDED" /\ attempts'[a].validation = "PENDING"
          /\ attempts'[a].scheduler = row.scheduler /\ attempts'[a].epoch = row.epoch
      <4>1. Write(a, [row EXCEPT !.terminal = "SUCCEEDED", !.validation = "PENDING",
                                  !.executorIntent = FALSE, !.executorPid = FALSE])
        BY <1>11, <2>1 DEF ExecutorSucceeded
      <4>2. attempts'[a] = [row EXCEPT !.terminal = "SUCCEEDED", !.validation = "PENDING",
                                  !.executorIntent = FALSE, !.executorPid = FALSE]
        BY <1>1, <4>1, WriteRow
      <4>. QED BY <1>1, <2>1, <4>2 DEF AttemptRow, Accepts
    <3>2. Untouched(a)' /\ Driven(a)'
      BY <1>1, <1>3, <1>4, <1>11, <2>1, <3>1 DEF ExecutorSucceeded, Accepts, children
    <3>3. Tracked(a)'
      BY <1>1, <1>3, <1>4, <1>11, <2>1, <3>1 DEF ExecutorSucceeded, Accepts, children
    <3>4. Contained(a)'
      BY <1>1, <1>3, <1>4, <1>11, <2>1, <3>1 DEF ExecutorSucceeded, Accepts, children
    <3>. QED BY <3>2, <3>3, <3>4 DEF AttemptOK
  <2>2. CASE ~(Accepts(a, "null", "NOT_RUN") /\ row.executorIntent)
    BY <1>1, <1>3, <1>4, <1>11, <2>2 DEF ExecutorSucceeded, Accepts, children, AttemptOK
  <2>. QED BY <2>1, <2>2
<1>12. CASE IntendCheck(a)
  <2>. USE DEF Untouched, Driven, Tracked, Contained, Live, Validating
  <2>1. CASE Accepts(a, "SUCCEEDED", "PENDING")
    <3>1. /\ attempts'[a].terminal = "SUCCEEDED" /\ attempts'[a].validation = "PENDING"
          /\ attempts'[a].validationIntent /\ attempts'[a].scheduler = row.scheduler
          /\ attempts'[a].epoch = row.epoch
      <4>1. Write(a, [row EXCEPT !.validationIntent = TRUE, !.validationPid = FALSE])
        BY <1>12, <2>1 DEF IntendCheck
      <4>2. attempts'[a] = [row EXCEPT !.validationIntent = TRUE, !.validationPid = FALSE]
        BY <1>1, <4>1, WriteRow
      <4>. QED BY <1>1, <2>1, <4>2 DEF AttemptRow, Accepts
    <3>2. Untouched(a)' /\ Driven(a)'
      BY <1>1, <1>3, <1>4, <1>12, <2>1, <3>1 DEF IntendCheck, Accepts, children
    <3>3. Tracked(a)' BY <1>1, <1>3, <1>4, <1>12, <2>1, <3>1 DEF IntendCheck, Accepts, children
    <3>4. Contained(a)' BY <1>1, <1>3, <1>4, <1>12, <2>1, <3>1 DEF IntendCheck, Accepts, children
    <3>. QED BY <3>2, <3>3, <3>4 DEF AttemptOK
  <2>2. CASE ~(Accepts(a, "SUCCEEDED", "PENDING"))
    BY <1>1, <1>3, <1>4, <1>12, <2>2 DEF IntendCheck, Accepts, children, AttemptOK
  <2>. QED BY <2>1, <2>2
<1>13. CASE SpawnCheck(a)
  BY <1>1, <1>3, <1>4, <1>13 DEF SpawnCheck, Quiet, AttemptOK, Untouched, Driven, Tracked,
     Contained, Live, Validating
<1>14. CASE RecordValidationPid(a)
  BY <1>1, <1>3, <1>4, <1>14, WriteRow DEF RecordValidationPid, Kill, Accepts, AttemptOK, Untouched,
     Driven, Tracked, Contained, Live, Validating, AttemptRow
<1>15. CASE RecordCheck(a)
  <2>. USE DEF Untouched, Driven, Tracked, Contained, Live, Validating
  <2>1. CASE Accepts(a, "SUCCEEDED", "PENDING") /\ row.validationIntent
    <3>1. /\ attempts'[a].terminal = "SUCCEEDED" /\ attempts'[a].validation = "PENDING"
          /\ attempts'[a].scheduler = row.scheduler /\ attempts'[a].epoch = row.epoch
      <4>1. Write(a, [row EXCEPT !.validationIntent = FALSE, !.validationPid = FALSE])
        BY <1>15, <2>1 DEF RecordCheck
      <4>2. attempts'[a] = [row EXCEPT !.validationIntent = FALSE, !.validationPid = FALSE]
        BY <1>1, <4>1, WriteRow
      <4>. QED BY <1>1, <2>1, <4>2 DEF AttemptRow, Accepts
    <3>2. Untouched(a)' /\ Driven(a)'
      BY <1>1, <1>3, <1>4, <1>15, <2>1, <3>1 DEF RecordCheck, Accepts, children
    <3>3. Tracked(a)' BY <1>1, <1>3, <1>4, <1>15, <2>1, <3>1 DEF RecordCheck, Accepts, children
    <3>4. Contained(a)' BY <1>1, <1>3, <1>4, <1>15, <2>1, <3>1 DEF RecordCheck, Accepts, children
    <3>. QED BY <3>2, <3>3, <3>4 DEF AttemptOK
  <2>2. CASE ~(Accepts(a, "SUCCEEDED", "PENDING") /\ row.validationIntent)
    BY <1>1, <1>3, <1>4, <1>15, <2>2 DEF RecordCheck, Accepts, children, AttemptOK
  <2>. QED BY <2>1, <2>2
<1>16. CASE SettleBudget(a)
  BY <1>1, <1>3, <1>4, <1>16 DEF SettleBudget, Quiet, children, AttemptOK, Untouched, Driven,
     Tracked, Contained, Live, Validating
<1>17. CASE PassValidation(a)
  BY <1>1, <1>3, <1>4, <1>17, WriteRow DEF PassValidation, Accepts, children, AttemptOK, Untouched,
     Driven, Tracked, Contained, Live, Validating, AttemptRow
<1>18. CASE FailAttempt(a)
  <2>. USE DEF Untouched, Driven, Tracked, Contained, Live, Validating
  <2>1. /\ stage[a] \in {"failingSetup", "failing", "failingUnrun"} /\ stage'[a] = "done"
        /\ executor'[a] = executor[a] /\ validator'[a] = validator[a] /\ left'[a] = left[a]
        /\ Exists(a) /\ Exists(a)' /\ alive' = alive /\ fresh' = fresh
    BY <1>1, <1>3, <1>18 DEF FailAttempt, At, children
  <2>2. /\ attempts'[a].scheduler = row.scheduler /\ attempts'[a].epoch = row.epoch
        /\ \/ /\ row.terminal = "null" /\ attempts'[a].terminal = "FAILED"
              /\ attempts'[a].validation = row.validation
           \/ /\ Validating(a) /\ attempts'[a].terminal = "SUCCEEDED"
              /\ attempts'[a].validation \in {"NOT_RUN", "FAILED"}
           \/ /\ ~Live(a) /\ attempts'[a] = row
    <3>1. CASE /\ row.terminal = "null"
               /\ Write(a, [row EXCEPT !.terminal = "FAILED", !.executorIntent = FALSE,
                                       !.executorPid = FALSE])
      <4>1. attempts'[a] = [row EXCEPT !.terminal = "FAILED", !.executorIntent = FALSE,
                                       !.executorPid = FALSE]
        BY <1>1, <3>1, WriteRow
      <4>. QED BY <1>1, <3>1, <4>1 DEF AttemptRow
    <3>2. ASSUME NEW v \in {"NOT_RUN", "FAILED"}, Validating(a),
                 Write(a, [row EXCEPT !.validation = v])
          PROVE  /\ attempts'[a].scheduler = row.scheduler /\ attempts'[a].epoch = row.epoch
                 /\ attempts'[a].terminal = "SUCCEEDED" /\ attempts'[a].validation = v
      <4>1. attempts'[a] = [row EXCEPT !.validation = v]
        BY <1>1, <3>2, WriteRow
      <4>. QED BY <1>1, <3>2, <4>1 DEF AttemptRow
    <3>3. CASE /\ \/ row.epoch # generation
                  \/ ~((row.terminal = "null" /\ HoldsIntent(a)) \/ Validating(a))
               /\ attempts' = attempts
      <4>1. ~Live(a)
        BY <1>1, <1>4, <2>1, <3>3 DEF HoldsIntent, AttemptRow
      <4>. QED BY <3>3, <4>1
    <3>. HIDE DEF Untouched, Driven, Tracked, Contained, Live, Validating
    <3>. QED BY <1>18, <3>1, <3>2, <3>3 DEF FailAttempt
  <2>3. Untouched(a)' /\ Driven(a)' BY <1>1, <1>4, <2>1, <2>2
  <2>4. Tracked(a)' BY <1>1, <1>4, <2>1, <2>2
  <2>5. Contained(a)' BY <1>1, <1>4, <2>1, <2>2
  <2>. QED BY <2>3, <2>4, <2>5 DEF AttemptOK
<1>. QED BY <1>5, <1>6, <1>7, <1>8, <1>9, <1>10, <1>11, <1>12, <1>13, <1>14, <1>15, <1>16, <1>17,
            <1>18 DEF RunJob
-----------------------------------------------------------------------------
(* The other steps keep the invariant of every attempt *)

\* A process that starts drives nobody yet.
LEMMA StartProcessStep ==
  ASSUME IInv, NEW p \in Procs, StartProcess(p)
  PROVE  ProcsOK' /\ \A a \in AttemptIds : AttemptOK(a)'
<1>1. ProcsOK /\ ProcsOK'
  BY DEF IInv, StartProcess, ProcsOK
<1>. SUFFICES ASSUME NEW a \in AttemptIds PROVE AttemptOK(a)'
  BY <1>1
<1>2. AttemptOK(a) BY DEF IInv
<1>. QED
  BY <1>1, <1>2 DEF StartProcess, ProcsOK, ledger, frames, children, AttemptOK, Untouched, Driven,
     Tracked, Contained, Exists, Live, Validating, Ended

\* A process that dies leaves its attempts to be recovered.
LEMMA CrashStep ==
  ASSUME IInv, NEW p \in Procs, Crash(p)
  PROVE  ProcsOK' /\ \A a \in AttemptIds : AttemptOK(a)'
<1>1. ProcsOK' /\ p \notin fresh
  BY DEF IInv, Crash, ProcsOK
<1>. SUFFICES ASSUME NEW a \in AttemptIds PROVE AttemptOK(a)'
  BY <1>1
<1>2. AttemptOK(a) /\ TypeOK BY DEF IInv
<1>3. p # None BY ProcsAssumption
<1>4. /\ jobs' = jobs /\ made' = made /\ attempts' = attempts /\ generation' = generation
      /\ left' = left /\ executor' = executor /\ validator' = validator
      /\ alive' = alive \ {p} /\ fresh' = fresh
      /\ stage'[a] = IF attempts[a].scheduler = p /\ stage[a] # "done" THEN "dead" ELSE stage[a]
  BY DEF Crash, ledger, children
<1>5. Untouched(a)' /\ Driven(a)'
  BY <1>1, <1>2, <1>3, <1>4 DEF AttemptOK, Untouched, Driven, Exists, Live, Validating, Ended, Blank
<1>6. Tracked(a)' /\ Contained(a)'
  BY <1>2, <1>4 DEF AttemptOK, Tracked, Contained, Executing, InCheck, Validating
<1>. QED BY <1>5, <1>6 DEF AttemptOK

\* A child that ends leaves the row as it is.
LEMMA CloseStep ==
  ASSUME IInv, NEW c \in AttemptIds, ExecutorCloses(c) \/ ValidatorCloses(c)
  PROVE  \A a \in AttemptIds : AttemptOK(a)'
<1>. SUFFICES ASSUME NEW a \in AttemptIds PROVE AttemptOK(a)'
  OBVIOUS
<1>1. AttemptOK(a) /\ TypeOK BY DEF IInv
<1>2. /\ attempts' = attempts /\ made' = made /\ generation' = generation /\ stage' = stage
      /\ left' = left /\ alive' = alive /\ fresh' = fresh
  BY DEF ExecutorCloses, ValidatorCloses, ledger, frames, processes
<1>3. /\ \/ executor'[a] = executor[a]
         \/ executor[a] \in Running /\ executor'[a] \in {"ok", "bad"}
      /\ \/ validator'[a] = validator[a]
         \/ validator[a] \in Running /\ validator'[a] \in {"ok", "bad"}
  <2>1. CASE ExecutorCloses(c)
    <3>1. /\ executor \in [AttemptIds -> Executors] /\ validator' = validator
          /\ \E how \in {"ok", "bad"} : Close(executor, c, how)
      BY <1>1, <2>1 DEF TypeOK, ExecutorCloses
    <3>2. PICK r \in {"ok", "bad"} :
            executor[c] \in Running /\ executor' = [executor EXCEPT ![c] = r]
      BY <3>1 DEF Close, Running
    <3>3. CASE a = c BY <3>1, <3>2, <3>3
    <3>4. CASE a # c BY <3>1, <3>2, <3>4
    <3>. QED BY <3>3, <3>4
  <2>2. CASE ValidatorCloses(c)
    <3>1. /\ validator \in [AttemptIds -> Validators] /\ executor' = executor
          /\ \E how \in {"ok", "bad"} : Close(validator, c, how)
      BY <1>1, <2>2 DEF TypeOK, ValidatorCloses
    <3>2. PICK r \in {"ok", "bad"} :
            validator[c] \in Running /\ validator' = [validator EXCEPT ![c] = r]
      BY <3>1 DEF Close, Running
    <3>3. CASE a = c BY <3>1, <3>2, <3>3
    <3>4. CASE a # c BY <3>1, <3>2, <3>4
    <3>. QED BY <3>3, <3>4
  <2>. QED BY <2>1, <2>2
<1>4. Untouched(a)' /\ Driven(a)' /\ Tracked(a)'
  BY <1>1, <1>2, <1>3 DEF AttemptOK, Untouched, Driven, Tracked, Exists, Live, Validating, Running
<1>5. Contained(a)'
  BY <1>1, <1>2, <1>3 DEF AttemptOK, Contained, Validating, Running
<1>. QED BY <1>4, <1>5 DEF AttemptOK

\* A claim makes one row, the next of its job, and touches no other.
LEMMA ClaimStep ==
  ASSUME IInv, NEW p \in Procs, NEW j \in DirectJobs \cup Explorations, Claim(p, j)
  PROVE  /\ \A a \in AttemptIds : AttemptOK(a)'
         /\ <<j, made[j] + 1>> \in AttemptIds /\ ~Exists(<<j, made[j] + 1>>)
         /\ \A b \in AttemptIds : b # <<j, made[j] + 1>> => attempts'[b] = attempts[b]
         /\ \A b \in AttemptIds : Exists(b)' <=> Exists(b) \/ b = <<j, made[j] + 1>>
\* A fixed value: the row that made counts only after the step.
<1>0. PICK a : a = <<j, made[j] + 1>> OBVIOUS
<1>1. j \in Jobs /\ made[j] < MaxAttempts[j] /\ made[j] \in Nat /\ TypeOK
  BY DEF Claim, Retryable, Jobs, IInv, TypeOK
<1>2. a \in AttemptIds /\ JobOf(a) = j /\ a[2] = made[j] + 1
  BY <1>0, <1>1, NextAttempt
<1>3. ~Exists(a) BY <1>1, <1>2 DEF Exists
<1>4. \A b \in AttemptIds : Exists(b)' <=> Exists(b) \/ b = a
  <2>. SUFFICES ASSUME NEW b \in AttemptIds PROVE Exists(b)' <=> Exists(b) \/ b = a
    OBVIOUS
  <2>1. made' = [made EXCEPT ![j] = made[j] + 1] BY DEF Claim
  <2>2. JobOf(b) \in Jobs /\ b[2] \in Nat /\ b = <<JobOf(b), b[2]>>
    <3>1. MaxAttempts[JobOf(b)] \in Nat BY AttemptIdsType, JobsAssumption
    <3>. QED BY <3>1, AttemptIdsType
  <2>3. CASE JobOf(b) = j
    <3>1. b = a <=> b[2] = made[j] + 1 BY <1>0, <2>2, <2>3
    <3>. QED BY <1>1, <2>1, <2>2, <2>3, <3>1 DEF Exists, TypeOK
  <2>4. CASE JobOf(b) # j
    BY <1>1, <1>2, <2>1, <2>2, <2>4 DEF Exists, TypeOK
  <2>. QED BY <2>3, <2>4
<1>5. PICK grant \in Nat :
        /\ Write(a, [attempts[a] EXCEPT !.scheduler = p, !.epoch = generation,
                                        !.reservation = grant])
        /\ Goto(a, "claimed")
        /\ left' = [left EXCEPT ![a] = Plan(j)]
  BY <1>0, <1>1, GrantsType DEF Claim
<1>6. /\ generation' = generation /\ executor' = executor /\ validator' = validator
      /\ alive' = alive /\ fresh' = fresh
  BY DEF Claim, children, processes
<1>7. /\ attempts'[a] = [attempts[a] EXCEPT !.scheduler = p, !.epoch = generation,
                                            !.reservation = grant]
      /\ \A b \in AttemptIds : b # a => attempts'[b] = attempts[b]
  BY <1>1, <1>2, <1>5, WriteRow
<1>8. AttemptOK(a)'
  <2>1. /\ attempts[a] = Blank /\ executor[a] = "none" /\ validator[a] = "none"
    BY <1>2, <1>3 DEF IInv, AttemptOK, Untouched
  <2>2. /\ attempts'[a].scheduler = p /\ attempts'[a].epoch = generation
        /\ attempts'[a].terminal = "null" /\ attempts'[a].validation = "NOT_RUN"
        /\ attempts'[a].executorIntent = FALSE
    BY <1>7, <2>1 DEF Blank
  <2>3. p \in alive /\ stage'[a] = "claimed" /\ Exists(a)'
    <3>1. p \in alive BY DEF Claim, CanStep
    <3>2. stage'[a] = "claimed" BY <1>1, <1>2, <1>5 DEF Goto, TypeOK
    <3>. QED BY <1>2, <1>4, <3>1, <3>2
  <2>4. executor'[a] = "none" /\ validator'[a] = "none" BY <1>6, <2>1
  <2>5. Untouched(a)' /\ Driven(a)'
    BY <1>6, <2>2, <2>3 DEF Untouched, Driven, Live, Validating, Ended
  <2>6. Tracked(a)' BY <2>2, <2>3 DEF Tracked, Validating, Executing, InCheck
  <2>7. Contained(a)' BY <2>2, <2>3, <2>4 DEF Contained, Validating, Running
  <2>. QED BY <2>5, <2>6, <2>7 DEF AttemptOK
<1>9. ASSUME NEW b \in AttemptIds, b # a PROVE AttemptOK(b)'
  <2>1. AttemptOK(b) BY DEF IInv
  <2>2. attempts'[b] = attempts[b] /\ stage'[b] = stage[b] /\ left'[b] = left[b]
    BY <1>1, <1>2, <1>5, <1>7, <1>9 DEF TypeOK, Goto
  <2>3. Exists(b)' <=> Exists(b) BY <1>4, <1>9
  <2>. QED BY <1>6, <2>1, <2>2, <2>3 DEF AttemptOK, Untouched, Driven, Tracked, Contained, Live,
       Validating
<1>10. \A b \in AttemptIds : AttemptOK(b)' BY <1>8, <1>9
<1>. QED BY <1>2, <1>3, <1>4, <1>7, <1>10, <1>0

\* Recovery ends every live attempt, finds no child of any, and rewrites no closed one.
LEMMA ReconcileStep ==
  ASSUME IInv, NEW p \in Servers, Reconcile(p)
  PROVE  \A a \in AttemptIds :
           /\ AttemptOK(a)' /\ ~Live(a)'
           /\ Live(a) => executor[a] \notin Running /\ validator[a] \notin Running
           /\ ~Live(a) => attempts'[a] = attempts[a]
<1>. SUFFICES ASSUME NEW a \in AttemptIds
     PROVE  /\ AttemptOK(a)' /\ ~Live(a)'
            /\ Live(a) => executor[a] \notin Running /\ validator[a] \notin Running
            /\ ~Live(a) => attempts'[a] = attempts[a]
  OBVIOUS
<1>1. AttemptOK(a) /\ TypeOK /\ attempts[a] \in AttemptRow BY DEF IInv, TypeOK
<1>2. /\ made' = made /\ stage' = stage /\ left' = left /\ executor' = executor
      /\ validator' = validator /\ alive' = alive /\ fresh' = fresh
  BY DEF Reconcile, frames, children, processes
<1>3. Exists(a)' <=> Exists(a) BY <1>2 DEF Exists
<1>4. CASE ~Live(a)
  <2>1. attempts'[a] = attempts[a] BY <1>4 DEF Reconcile
  <2>. QED BY <1>1, <1>2, <1>3, <1>4, <2>1 DEF AttemptOK, Untouched, Driven, Tracked, Contained,
       Live, Validating
<1>5. CASE Live(a)
  <2>1. Abandoned(a) /\ ~Uncertain(a) /\ attempts[a].scheduler \notin alive
    BY <1>5 DEF Reconcile, LiveAttempts, Abandoned
  <2>2. executor[a] \notin Running /\ validator[a] \notin Running
    BY <1>1, <1>5, <2>1 DEF Abandoned, Uncertain, Gone, AttemptOK, Contained, Live, Running,
       Validating
  <2>3. stage[a] \in {"idle", "dead"} /\ Exists(a) /\ stage[a] = "dead"
    BY <1>1, <1>5, <2>1 DEF AttemptOK, Driven, Ended, Live
  <2>4. CASE Validating(a)
    <3>1. attempts'[a] = [attempts[a] EXCEPT !.validation = "NOT_RUN"]
      BY <1>5, <2>4 DEF Reconcile
    <3>2. /\ attempts'[a].terminal = "SUCCEEDED" /\ attempts'[a].validation = "NOT_RUN"
          /\ attempts'[a].scheduler = attempts[a].scheduler
      BY <1>1, <2>4, <3>1 DEF AttemptRow, Validating
    <3>. QED BY <1>1, <1>2, <1>3, <2>2, <2>3, <3>2, <1>5 DEF AttemptOK, Untouched, Driven, Tracked,
         Contained, Live, Validating, Ended, Executing, InCheck, Running
  <2>5. CASE ~Validating(a)
    <3>1. attempts'[a] = [attempts[a] EXCEPT !.terminal = "ORPHANED"]
      BY <1>5, <2>5 DEF Reconcile
    <3>2. /\ attempts'[a].terminal = "ORPHANED" /\ attempts'[a].validation = "NOT_RUN"
          /\ attempts'[a].scheduler = attempts[a].scheduler
      BY <1>1, <1>5, <2>5, <3>1 DEF AttemptRow, AttemptOK, Tracked, Live
    <3>3. ~Live(a)' BY <3>2 DEF Live, Validating
    <3>4. validator[a] = "none"
      BY <1>1, <1>5, <2>5 DEF AttemptOK, Contained, Live
    <3>5. Untouched(a)' /\ Driven(a)'
      BY <1>1, <1>2, <1>3, <1>5, <2>3, <3>2, <3>3 DEF AttemptOK, Untouched, Driven, Ended, Live
    <3>6. Tracked(a)' /\ Contained(a)'
      BY <1>2, <2>2, <2>3, <3>2, <3>4 DEF Tracked, Contained, Validating, Executing, InCheck,
         Running
    <3>. QED BY <2>2, <3>3, <3>5, <3>6, <1>5 DEF AttemptOK
  <2>. QED BY <2>4, <2>5
<1>. QED BY <1>4, <1>5

\* A cancel closes the attempt whose child it has killed, and rewrites no closed one.
LEMMA MarkCancelledStep ==
  ASSUME IInv, NEW p \in Servers, MarkCancelled(p)
  PROVE  /\ \A a \in AttemptIds : AttemptOK(a)'
         /\ \A a \in AttemptIds : ~Live(a) => attempts'[a] = attempts[a]
<1>0. PICK c : c = cancel.current OBVIOUS
<1>1. c \in AttemptIds /\ Exists(c) /\ TypeOK /\ AttemptOK(c)
  BY <1>0 DEF MarkCancelled, CancelAt, IInv, CancelOK
<1>2. attempts[c] \in AttemptRow BY <1>1 DEF TypeOK
<1>3. /\ made' = made /\ generation' = generation /\ stage' = stage /\ left' = left
      /\ executor' = executor /\ validator' = validator /\ alive' = alive /\ fresh' = fresh
  BY DEF MarkCancelled, CancelStep, frames, processes
<1>4. Exists(c)' BY <1>1, <1>3 DEF Exists
<1>5. CASE attempts' = attempts
  BY <1>3, <1>5, OtherAttempt DEF IInv
<1>6. CASE /\ Validating(c)
           /\ Write(c, [attempts[c] EXCEPT !.validation = "NOT_RUN", !.validationIntent = FALSE,
                                           !.validationPid = FALSE])
  <2>1. /\ attempts'[c] = [attempts[c] EXCEPT !.validation = "NOT_RUN", !.validationIntent = FALSE,
                                              !.validationPid = FALSE]
        /\ \A b \in AttemptIds : b # c => attempts'[b] = attempts[b]
    BY <1>1, <1>6, WriteRow
  <2>2. /\ attempts'[c].terminal = "SUCCEEDED" /\ attempts'[c].validation = "NOT_RUN"
        /\ attempts'[c].scheduler = attempts[c].scheduler
    BY <1>2, <1>6, <2>1 DEF AttemptRow, Validating
  <2>3. AttemptOK(c)'
    BY <1>1, <1>3, <1>4, <1>6, <2>2 DEF AttemptOK, Untouched, Driven, Tracked, Contained, Live,
       Validating, Ended, Executing, InCheck, Running
  <2>. QED BY <1>1, <1>3, <1>6, <2>1, <2>3, OtherAttempt DEF IInv, Live
<1>7. CASE /\ attempts[c].terminal = "null"
           /\ Write(c, [attempts[c] EXCEPT !.terminal = "CANCELLED", !.executorIntent = FALSE,
                                           !.executorPid = FALSE])
  <2>1. /\ attempts'[c] = [attempts[c] EXCEPT !.terminal = "CANCELLED", !.executorIntent = FALSE,
                                              !.executorPid = FALSE]
        /\ \A b \in AttemptIds : b # c => attempts'[b] = attempts[b]
    BY <1>1, <1>7, WriteRow
  <2>2. /\ attempts'[c].terminal = "CANCELLED" /\ attempts'[c].validation = "NOT_RUN"
        /\ attempts'[c].scheduler = attempts[c].scheduler
    BY <1>1, <1>2, <1>7, <2>1 DEF AttemptRow, AttemptOK, Tracked
  <2>3. ~Live(c)' BY <2>2 DEF Live, Validating
  <2>4. Untouched(c)' /\ Driven(c)'
    BY <1>1, <1>3, <1>4, <1>7, <2>2, <2>3 DEF AttemptOK, Untouched, Driven
  <2>5. Tracked(c)'
    BY <1>1, <1>3, <1>7, <2>2 DEF AttemptOK, Tracked, Validating, Executing, InCheck
  <2>6. Contained(c)'
    BY <1>1, <1>3, <1>7, <2>2 DEF AttemptOK, Contained, Validating
  <2>. QED BY <1>1, <1>3, <1>7, <2>1, <2>4, <2>5, <2>6, OtherAttempt DEF IInv, Live, AttemptOK
<1>. QED BY <1>0, <1>5, <1>6, <1>7 DEF MarkCancelled

\* Nothing else a cancel does touches a row, its stage or its process.
LEMMA CancelStepLemma ==
  ASSUME IInv, NEW p \in Servers, CancelJob(p) \/ (\E j \in Jobs : CancelReads(p, j))
  PROVE  /\ \A a \in AttemptIds : AttemptOK(a)'
         /\ \A a \in AttemptIds : ~Live(a) => attempts'[a] = attempts[a]
         /\ made' = made /\ generation' = generation /\ alive' = alive /\ fresh' = fresh
         /\ CancelOK'
<1>. USE DEF CancelStep, CancelAt, CancelGoto, frames, processes
<1>1. TypeOK /\ CancelOK /\ \A a \in AttemptIds : AttemptOK(a) BY DEF IInv
<1>2. /\ made' = made /\ generation' = generation /\ alive' = alive /\ fresh' = fresh
      /\ stage' = stage /\ left' = left
  BY DEF CancelJob, CancelReads, CancelReadsFamily, RecordIntent, CloseIdleJob, KillChild,
     MarkCancelled, CheckFamily, CloseRoot, SettleCancel, ledger
<1>3. \A a \in AttemptIds : Exists(a)' <=> Exists(a) BY <1>2 DEF Exists
<1>4. ASSUME attempts' = attempts, executor' = executor, validator' = validator
      PROVE  /\ \A a \in AttemptIds : AttemptOK(a)'
             /\ \A a \in AttemptIds : ~Live(a) => attempts'[a] = attempts[a]
  BY <1>1, <1>2, <1>4, OtherAttempt
<1>5. CASE \E j \in Jobs : CancelReads(p, j)
  <2>1. CancelOK' BY <1>3, <1>5, ProcsAssumption DEF CancelReads, CancelOK, NoCancel
  <2>. QED BY <1>2, <1>4, <1>5, <2>1 DEF CancelReads, ledger, children
<1>6. CASE CancelReadsFamily(p)
  <2>1. CancelOK'
    <3>. DEFINE live == {a \in FamilyAttempts(cancel.job) : Live(a)}
                checking == {a \in live : Validating(a)}
                pids == {a \in live : IF a \in checking THEN attempts[a].validationPid
                                                        ELSE attempts[a].executorPid}
    <3>1. \A a \in live : a \in AttemptIds /\ Exists(a)
      BY DEF FamilyAttempts
    <3>. HIDE DEF live, checking, pids
    <3>2. PICK subject \in live \cup {None} :
            cancel' = [cancel EXCEPT !.stage = "intend", !.epoch = generation,
                         !.subject = subject, !.current = subject, !.todo = live \ {subject},
                         !.pids = pids, !.checking = checking]
      BY <1>6 DEF CancelReadsFamily, live, checking, pids
    <3>3. /\ cancel'.stage = "intend" /\ cancel'.job = cancel.job /\ cancel'.subject = subject
          /\ cancel'.current = subject /\ cancel'.todo = live \ {subject}
      BY <1>1, <3>2 DEF TypeOK, CancelFrame
    <3>4. cancel.job \in Jobs BY <1>1, <1>6 DEF CancelReadsFamily, CancelOK
    <3>. QED BY <1>3, <3>1, <3>3, <3>4 DEF CancelOK
  <2>. QED BY <1>2, <1>4, <1>6, <2>1 DEF CancelReadsFamily
<1>7. CASE RecordIntent(p) \/ CheckFamily(p) \/ CloseRoot(p) \/ CloseIdleJob(p)
  <2>1. /\ cancel'.job = cancel.job /\ cancel'.current = cancel.current
        /\ cancel'.todo = cancel.todo /\ cancel.stage # "idle"
        /\ cancel'.stage # "intend" /\ cancel'.stage # "mark"
        /\ cancel'.stage = "kill" => cancel.stage = "intend" /\ cancel.subject # None
    <3>0. cancel \in CancelFrame BY <1>1 DEF TypeOK
    <3>1. CASE RecordIntent(p) BY <3>0, <3>1 DEF RecordIntent, CancelFrame
    <3>2. CASE CheckFamily(p) BY <3>0, <3>2 DEF CheckFamily, CancelFrame
    <3>3. CASE CloseRoot(p) BY <3>0, <3>3 DEF CloseRoot, CancelFrame
    <3>4. CASE CloseIdleJob(p) BY <3>0, <3>4 DEF CloseIdleJob, CancelFrame
    <3>. QED BY <1>7, <3>1, <3>2, <3>3, <3>4
  <2>2. CancelOK' BY <1>1, <1>3, <2>1 DEF CancelOK, TypeOK, CancelFrame
  <2>3. attempts' = attempts /\ executor' = executor /\ validator' = validator
    BY <1>7 DEF RecordIntent, CheckFamily, CloseRoot, CloseIdleJob
  <2>. QED BY <1>2, <1>4, <2>2, <2>3
<1>8. CASE KillChild(p)
  <2>1. CancelOK'
    <3>1. /\ cancel'.job = cancel.job /\ cancel'.current = cancel.current
          /\ cancel'.todo = cancel.todo /\ cancel'.stage = "mark" /\ cancel.stage = "kill"
      BY <1>1, <1>8 DEF KillChild, TypeOK, CancelFrame
    <3>. QED BY <1>1, <1>3, <3>1 DEF CancelOK, TypeOK, CancelFrame
  <2>2. attempts' = attempts BY <1>8 DEF KillChild
  <2>3. ASSUME NEW a \in AttemptIds PROVE AttemptOK(a)'
    <3>1. /\ executor \in [AttemptIds -> Executors] /\ validator \in [AttemptIds -> Validators]
          /\ AttemptOK(a)
      BY <1>1 DEF TypeOK
    <3>2. /\ executor' = executor \/ Kill(executor, cancel.current)
          /\ validator' = validator \/ Kill(validator, cancel.current)
      BY <1>8 DEF KillChild
    <3>3. /\ \/ executor'[a] = executor[a]
             \/ executor[a] = "running" /\ executor'[a] = "dying"
          /\ \/ validator'[a] = validator[a]
             \/ validator[a] = "running" /\ validator'[a] = "dying"
      BY <3>1, <3>2 DEF Kill
    <3>. QED BY <1>2, <1>3, <2>2, <3>1, <3>3 DEF AttemptOK, Untouched, Driven, Tracked, Contained,
         Live, Validating, Running
  <2>. QED BY <1>2, <2>1, <2>2, <2>3
<1>9. CASE MarkCancelled(p)
  <2>1. CancelOK'
    <3>1. /\ cancel.stage = "mark" /\ cancel'.job = cancel.job
          /\ \/ cancel'.stage = "family" /\ cancel'.current = cancel.current
                /\ cancel'.todo = cancel.todo
             \/ /\ cancel'.stage = "kill"
                /\ \E b \in cancel.todo : cancel'.current = b /\ cancel'.todo = cancel.todo \ {b}
      BY <1>1, <1>9 DEF MarkCancelled, TypeOK, CancelFrame
    <3>2. cancel.todo \subseteq AttemptIds BY <1>1 DEF TypeOK, CancelFrame
    <3>. QED BY <1>1, <1>3, <3>1, <3>2 DEF CancelOK
  <2>. QED BY <1>2, <1>9, <2>1, MarkCancelledStep
<1>10. CASE SettleCancel(p)
  <2>1. CancelOK' BY <1>10 DEF SettleCancel, NoCancel, CancelOK
  <2>. QED BY <1>2, <1>4, <1>10, <2>1 DEF SettleCancel
<1>. QED BY <1>5, <1>6, <1>7, <1>8, <1>9, <1>10 DEF CancelJob

\* A call writes its own attempt only; of one that is over it can but file the papers.
LEMMA RunJobRows ==
  ASSUME IInv, NEW a \in AttemptIds, RunJob(a)
  PROVE  /\ Step(a)
         /\ \A b \in AttemptIds : b # a =>
              /\ attempts'[b] = attempts[b] /\ stage'[b] = stage[b] /\ left'[b] = left[b]
              /\ executor'[b] = executor[b] /\ validator'[b] = validator[b]
         /\ ~Live(a) => Stands(a)
<1>. USE DEF Goto, Quiet, children, Kill
<1>1. Step(a)
  BY DEF RunJob, WorktreeFails, IntendExecutor, SpawnExecutor, RecordExecutorPid, RecordUsage,
     JudgeExecutor, ExecutorSucceeded, IntendCheck, SpawnCheck, RecordValidationPid, RecordCheck,
     SettleBudget, PassValidation, FailAttempt
<1>2. TypeOK /\ AttemptOK(a) BY DEF IInv
<1>3. \A s : stage' = [stage EXCEPT ![a] = s] =>
               \A b \in AttemptIds : b # a => stage'[b] = stage[b]
  BY <1>2 DEF TypeOK
<1>4. \E s : stage' = [stage EXCEPT ![a] = s]
  BY DEF RunJob, WorktreeFails, IntendExecutor, SpawnExecutor, RecordExecutorPid, RecordUsage,
     JudgeExecutor, ExecutorSucceeded, IntendCheck, SpawnCheck, RecordValidationPid, RecordCheck,
     SettleBudget, PassValidation, FailAttempt
<1>5. \/ UNCHANGED <<executor, validator>>
      \/ \E s : executor' = [executor EXCEPT ![a] = s] /\ UNCHANGED validator
      \/ \E s : validator' = [validator EXCEPT ![a] = s] /\ UNCHANGED executor
  BY DEF RunJob, WorktreeFails, IntendExecutor, SpawnExecutor, RecordExecutorPid, RecordUsage,
     JudgeExecutor, ExecutorSucceeded, IntendCheck, SpawnCheck, RecordValidationPid, RecordCheck,
     SettleBudget, PassValidation, FailAttempt
<1>6. UNCHANGED left \/ left' = [left EXCEPT ![a] = left[a] - 1]
  BY DEF RunJob, WorktreeFails, IntendExecutor, SpawnExecutor, RecordExecutorPid, RecordUsage,
     JudgeExecutor, ExecutorSucceeded, IntendCheck, SpawnCheck, RecordValidationPid, RecordCheck,
     SettleBudget, PassValidation, FailAttempt
<1>7. \/ UNCHANGED attempts
      \/ /\ \E row : Write(a, row)
         /\ \/ attempts[a].terminal = "null"
            \/ Validating(a)
      \/ IntendExecutor(a) /\ ~Accepts(a, "null", "NOT_RUN")
      \/ RecordUsage(a)
  BY DEF RunJob, WorktreeFails, IntendExecutor, SpawnExecutor, RecordExecutorPid, RecordUsage,
     JudgeExecutor, ExecutorSucceeded, IntendCheck, SpawnCheck, RecordValidationPid, RecordCheck,
     SettleBudget, PassValidation, FailAttempt, Accepts, Validating
<1>8. Exists(a)
  BY <1>2 DEF RunJob, WorktreeFails, IntendExecutor, SpawnExecutor, RecordExecutorPid, RecordUsage,
     JudgeExecutor, ExecutorSucceeded, IntendCheck, SpawnCheck, RecordValidationPid, RecordCheck,
     SettleBudget, PassValidation, FailAttempt, At, AttemptOK, Untouched
<1>9. \A b \in AttemptIds : b # a =>
        executor'[b] = executor[b] /\ validator'[b] = validator[b] /\ left'[b] = left[b]
  BY <1>2, <1>5, <1>6 DEF TypeOK
<1>10. \A b \in AttemptIds : b # a => attempts'[b] = attempts[b]
  BY <1>2, <1>7, WriteRow, FilingStep
<1>11. ASSUME ~Live(a) PROVE Stands(a)
  <2>1. CASE attempts' = attempts BY <2>1 DEF Stands, Filed
  <2>2. CASE (IntendExecutor(a) /\ ~Accepts(a, "null", "NOT_RUN")) \/ RecordUsage(a)
    <3>1. stage[a] \in Executing BY <2>2 DEF IntendExecutor, RecordUsage, At, Executing
    <3>2. attempts[a].terminal = "CANCELLED"
      BY <1>2, <1>8, <1>11, <3>1 DEF AttemptOK, Tracked, Live
    <3>. QED BY <1>2, <2>2, <3>2, FilingStep DEF Stands
  <2>. QED BY <1>7, <1>8, <1>11, <2>1, <2>2 DEF Live
<1>. QED BY <1>1, <1>3, <1>4, <1>9, <1>10, <1>11

\* While the cancel call stands where it was, no row it goes by disappears.
LEMMA CancelStands ==
  ASSUME CancelOK, TypeOK, UNCHANGED cancel, \A a \in AttemptIds : Exists(a) => Exists(a)'
  PROVE  CancelOK'
BY DEF CancelOK, TypeOK, CancelFrame

-----------------------------------------------------------------------------
(* Every step: what it keeps, what it may write and who it may revive *)

\* Every step keeps the invariant and the verdicts, and only a claim makes an attempt live.
LEMMA NextStep ==
  ASSUME IInv, [Next]_vars
  PROVE  /\ IInv'
         /\ \A a \in AttemptIds : Exists(a) /\ ~Live(a) => Stands(a)
         /\ \/ \A a \in AttemptIds : Live(a)' => Live(a)
            \/ \E p \in Procs, j \in DirectJobs \cup Explorations : Claim(p, j)
<1>1. /\ TypeOK /\ ProcsOK /\ CancelOK /\ \A a \in AttemptIds : AttemptOK(a)
      /\ TypeOK'
  BY TypeStep DEF IInv
<1>. DEFINE Kept == \A a \in AttemptIds : AttemptOK(a)'
            Final == \A a \in AttemptIds : Exists(a) /\ ~Live(a) => Stands(a)
            NoneRevived == \A a \in AttemptIds : Live(a)' => Live(a)
            Same == \A a \in AttemptIds : Exists(a)' <=> Exists(a)
            Claims == \E p \in Procs, j \in DirectJobs \cup Explorations : Claim(p, j)
<1>. SUFFICES ProcsOK' /\ CancelOK' /\ Kept /\ Final /\ (NoneRevived \/ Claims)
  BY <1>1 DEF IInv
<1>2. Final /\ Same => NoneRevived
  BY <1>1, FiledRow DEF TypeOK, Stands, Live, Validating
<1>0. \A a \in AttemptIds : attempts'[a] = attempts[a] => Stands(a) BY DEF Stands, Filed
<1>3. ASSUME NEW p \in Procs, StartProcess(p) PROVE ProcsOK' /\ CancelOK' /\ Kept /\ Final /\ Same
  <2>1. Same BY <1>3 DEF StartProcess, ledger, Exists
  <2>2. CancelOK' BY <1>1, <1>3, <2>1, CancelStands DEF StartProcess, cancelling
  <2>3. Final BY <1>0, <1>3 DEF StartProcess, ledger
  <2>. QED BY <1>3, <2>1, <2>2, <2>3, StartProcessStep
<1>4. ASSUME NEW p \in Procs, Crash(p) PROVE ProcsOK' /\ CancelOK' /\ Kept /\ Final /\ Same
  <2>1. Same BY <1>4 DEF Crash, ledger, Exists
  <2>2. CASE cancel' = cancel
    BY <1>0, <1>1, <1>4, <2>1, <2>2, CancelStands, CrashStep DEF Crash, ledger
  <2>3. CASE cancel' = NoCancel
    <3>1. CancelOK' BY <2>3 DEF CancelOK, NoCancel
    <3>. QED BY <1>0, <1>4, <2>1, <3>1, CrashStep DEF Crash, ledger
  <2>. QED BY <1>4, <2>2, <2>3 DEF Crash
<1>5. ASSUME NEW p \in Procs, NEW j \in DirectJobs \cup Explorations, Claim(p, j)
      PROVE  ProcsOK' /\ CancelOK' /\ Kept /\ Final
  <2>1. ProcsOK' BY <1>1, <1>5 DEF Claim, processes, ProcsOK
  <2>2. Kept /\ Final /\ \A b \in AttemptIds : Exists(b) => Exists(b)'
    BY <1>0, <1>5, ClaimStep
  <2>3. CancelOK' BY <1>1, <1>5, <2>2, CancelStands DEF Claim, cancelling
  <2>. QED BY <2>1, <2>2, <2>3
<1>6. ASSUME NEW a \in AttemptIds, RunJob(a) PROVE ProcsOK' /\ CancelOK' /\ Kept /\ Final /\ Same
  <2>1. /\ made' = made /\ generation' = generation /\ alive' = alive /\ fresh' = fresh
        /\ cancel' = cancel
    BY <1>6, RunJobRows DEF Step, processes, cancelling
  <2>2. ProcsOK' /\ Same BY <1>1, <2>1 DEF ProcsOK, Exists
  <2>3. CancelOK' BY <1>1, <2>1, <2>2, CancelStands
  <2>4. Kept
    <3>1. AttemptOK(a)' BY <1>6, RunJobStep
    <3>2. ASSUME NEW b \in AttemptIds, b # a PROVE AttemptOK(b)'
      BY <1>1, <1>6, <2>1, <3>2, RunJobRows, OtherAttempt
    <3>. QED BY <3>1, <3>2
  <2>5. Final BY <1>0, <1>6, RunJobRows
  <2>. QED BY <2>2, <2>3, <2>4, <2>5
<1>7. ASSUME NEW a \in AttemptIds, ExecutorCloses(a) \/ ValidatorCloses(a)
      PROVE  ProcsOK' /\ CancelOK' /\ Kept /\ Final /\ Same
  <2>1. /\ made' = made /\ attempts' = attempts /\ alive' = alive /\ fresh' = fresh
        /\ cancel' = cancel
    BY <1>7 DEF ExecutorCloses, ValidatorCloses, ledger, processes, cancelling
  <2>2. ProcsOK' /\ Same /\ Final BY <1>0, <1>1, <2>1 DEF ProcsOK, Exists
  <2>3. CancelOK' BY <1>1, <2>1, <2>2, CancelStands
  <2>. QED BY <1>7, <2>2, <2>3, CloseStep
<1>8. ASSUME NEW p \in Servers, CancelJob(p) \/ \E j \in Jobs : CancelReads(p, j)
      PROVE  ProcsOK' /\ CancelOK' /\ Kept /\ Final /\ Same
  BY <1>0, <1>1, <1>8, CancelStepLemma DEF ProcsOK, Exists
<1>9. ASSUME NEW p \in Servers, Reconcile(p)
      PROVE  ProcsOK' /\ CancelOK' /\ Kept /\ Final /\ Same
  <2>1. made' = made /\ alive' = alive /\ fresh' = fresh /\ cancel' = cancel
    BY <1>9 DEF Reconcile, processes, cancelling
  <2>2. ProcsOK' /\ Same BY <1>1, <2>1 DEF ProcsOK, Exists
  <2>3. CancelOK' BY <1>1, <2>1, <2>2, CancelStands
  <2>. QED BY <1>0, <1>9, <2>2, <2>3, ReconcileStep
<1>10. CASE UNCHANGED vars
  <2>1. Same /\ Final /\ ProcsOK' BY <1>0, <1>1, <1>10 DEF vars, Exists, ProcsOK
  <2>2. CancelOK' BY <1>1, <1>10, <2>1, CancelStands DEF vars
  <2>3. Kept BY <1>1, <1>10, OtherAttempt DEF vars
  <2>. QED BY <1>2, <2>1, <2>2, <2>3
<1>. HIDE DEF Kept, Final, NoneRevived, Same
<1>. QED BY <1>2, <1>3, <1>4, <1>5, <1>6, <1>7, <1>8, <1>9, <1>10 DEF Next
-----------------------------------------------------------------------------
(* Theorems *)

\* The inductive invariant holds in every reachable state.
THEOREM Invariant == Spec => []IInv
<1>1. IInv /\ [Next]_vars => IInv' BY NextStep
<1>. QED BY <1>1, InitInvariant, PTL DEF Spec

\* The columns of the ledger and the frames of the calls keep their types: no row is
\* written that the schema does not know (db.js CHECK constraints).
THEOREM TypeCorrect == Spec => []TypeOK
<1>1. IInv => TypeOK BY DEF IInv
<1>. QED BY <1>1, Invariant, PTL

\* An attempt whose process runs always has its runJob call at work on it, so that no
\* return, refused event or cancel strands it (runJob, failAttempt, cancelJob).
THEOREM Drive == Spec => []LiveAttemptIsDriven
<1>1. IInv => LiveAttemptIsDriven
  BY DEF IInv, AttemptOK, Driven, LiveAttemptIsDriven, LiveAttempts, Ended, Live
<1>. QED BY <1>1, Invariant, PTL

\* No verdict is given over the head of a running child (runJob, validate, reconcile).
THEOREM Verdicts == Spec => []ClosedAttemptHasNoChild
<1>1. IInv => ClosedAttemptHasNoChild
  BY DEF IInv, AttemptOK, Contained, ClosedAttemptHasNoChild, Running
<1>. QED BY <1>1, Invariant, PTL

\* One attempt at a time, but for the investigations of one root (assertAdmissible),
\* whatever is claimed, cancelled, crashed and recovered in between.
THEOREM Exclusion == Spec => []ExclusiveAttempts
<1>1. Init => ExclusiveAttempts
  BY AttemptIdsType DEF Init, ExclusiveAttempts, LiveAttempts, Live, Exists
<1>2. IInv /\ ExclusiveAttempts /\ [Next]_vars => ExclusiveAttempts'
  <2>. SUFFICES ASSUME IInv, ExclusiveAttempts, [Next]_vars,
                       NEW a \in AttemptIds, NEW b \in AttemptIds, Live(a)', Live(b)', a # b
                PROVE  Siblings(JobOf(a), JobOf(b))
    BY DEF ExclusiveAttempts, LiveAttempts, Siblings, RootOf
  <2>1. CASE \A c \in AttemptIds : Live(c)' => Live(c)
    BY <2>1 DEF ExclusiveAttempts, LiveAttempts
  <2>2. ASSUME NEW p \in Procs, NEW j \in DirectJobs \cup Explorations, Claim(p, j)
        PROVE  Siblings(JobOf(a), JobOf(b))
    <3>1. PICK new : new = <<j, made[j] + 1>> OBVIOUS
    <3>2. /\ new \in AttemptIds /\ JobOf(new) = j
          /\ \A c \in AttemptIds : c # new => (Live(c)' => Live(c))
      BY <2>2, <3>1, ClaimStep DEF Live, Validating, JobOf
    <3>3. \A c \in AttemptIds : Live(c) => Siblings(j, JobOf(c)) /\ Siblings(JobOf(c), j)
      BY <2>2 DEF Claim, Admissible, LiveAttempts, Siblings
    <3>4. CASE a = new BY <3>2, <3>3, <3>4
    <3>5. CASE b = new BY <3>2, <3>3, <3>5
    <3>6. CASE a # new /\ b # new BY <3>2, <3>6 DEF ExclusiveAttempts, LiveAttempts
    <3>. QED BY <3>4, <3>5, <3>6
  <2>. QED BY <2>1, <2>2, NextStep
<1>. QED BY <1>1, <1>2, Invariant, PTL DEF Spec

\* Recovery takes over no attempt that still has a process (reconcile's observations,
\* and its refusal of a start whose process id was never recorded).
THEOREM SafeRecovery == Spec => RecoveryFindsNobody
<1>. DEFINE A == generation' # generation =>
                   \A a \in LiveAttempts :
                     /\ attempts[a].scheduler \notin alive
                     /\ executor[a] \notin {"running", "dying"}
                     /\ validator[a] \notin {"running", "dying"}
<1>1. IInv /\ [Next]_vars => [A]_vars
  <2>. SUFFICES ASSUME IInv, [Next]_vars, generation' # generation,
                       NEW a \in AttemptIds, Live(a)
                PROVE  /\ attempts[a].scheduler \notin alive
                       /\ executor[a] \notin Running /\ validator[a] \notin Running
    BY DEF LiveAttempts, Running
  <2>1. PICK p \in Servers : Reconcile(p)
    <3>1. \A q \in Procs : ~StartProcess(q) /\ ~Crash(q)
      BY DEF StartProcess, Crash, ledger
    <3>2. \A q \in Procs, j \in DirectJobs \cup Explorations : ~Claim(q, j)
      BY DEF Claim
    <3>3. \A c \in AttemptIds : ~RunJob(c) /\ ~ExecutorCloses(c) /\ ~ValidatorCloses(c)
      BY RunJobRows DEF Step, ExecutorCloses, ValidatorCloses, ledger
    <3>4. \A q \in Servers : ~CancelJob(q) /\ \A j \in Jobs : ~CancelReads(q, j)
      BY CancelStepLemma
    <3>. QED BY <3>1, <3>2, <3>3, <3>4 DEF Next, vars
  <2>2. attempts[a].scheduler \notin alive
    BY <2>1 DEF Reconcile, LiveAttempts, Abandoned
  <2>. QED BY <2>1, <2>2, ReconcileStep
<1>. QED BY <1>1, Invariant, PTL DEF Spec, RecoveryFindsNobody
-----------------------------------------------------------------------------
(* The money of a family, for every ceiling and any number of jobs: what is  *)
(* reserved, owed and spent.                                                 *)

Over == {"ok", "bad"}
\* Stages of a call that has not yet started its executor, or not yet metered it.
Unstarted == {"idle", "claimed", "failingSetup", "launching"}
Unmetered == Unstarted \cup {"spawned", "running", "aborted"}

\* What an executor cost is known once it is gone, and it is metered once.
Metered(a) ==
  /\ executor[a] # "none" => attempts[a].intended /\ stage[a] \notin Unstarted
  /\ stage[a] = "launching" => attempts[a].intended
  /\ receipt[a] # "none" => stage[a] \notin Unmetered \ {"failingSetup"}
  /\ Priced(a) => executor[a] \notin Running
  /\ executor[a] \notin Over => spend[a] = 0 /\ logged[a] = 0
  /\ logged[a] <= spend[a]

\* Rows that exist, of every job.
Rows == {a \in AttemptIds : Exists(a)}

MInv == IsFiniteSet(Rows) /\ \A a \in AttemptIds : Metered(a)

\* What one step may do to the money of an attempt that exists.
Moves(a) ==
  /\ attempts'[a].reservation = attempts[a].reservation
  /\ attempts'[a].scheduler = attempts[a].scheduler
  /\ attempts[a].intended => attempts'[a].intended
  /\ attempts'[a].intended => attempts[a].intended \/ Live(a)
  /\ \/ executor'[a] = executor[a] /\ spend'[a] = spend[a] /\ logged'[a] = logged[a]
     \/ /\ executor[a] = "none" /\ stage[a] = "launching" /\ stage'[a] = "spawned"
        /\ executor'[a] = "running" /\ spend'[a] = spend[a] /\ logged'[a] = logged[a]
     \/ /\ executor[a] = "running" /\ executor'[a] = "dying"
        /\ spend'[a] = spend[a] /\ logged'[a] = logged[a]
     \/ executor[a] \in Running /\ executor'[a] \in Over /\ logged'[a] <= spend'[a]
  /\ \/ receipt'[a] = receipt[a]
     \/ /\ receipt[a] = "none" /\ stage'[a] \notin Unmetered
        /\ stage[a] \in {"running", "aborted"}
        /\ receipt'[a] = "COMPLETE" => executor[a] \notin Running
        /\ executor'[a] = executor[a]
  /\ \/ stage'[a] = stage[a]
     \/ stage'[a] \notin Unmetered
     \/ stage'[a] = "failingSetup" /\ stage[a] = "claimed"
     \/ stage'[a] = "launching" /\ stage[a] = "claimed" /\ attempts'[a].intended
     \/ stage'[a] \in {"spawned", "aborted"} /\ stage[a] = "launching"
     \/ stage'[a] \in {"running", "aborted"} /\ stage[a] = "spawned"
-----------------------------------------------------------------------------
\* A move of an attempt's money keeps it metered.
LEMMA MovesKeepMetered ==
  ASSUME TypeOK, NEW a \in AttemptIds, Metered(a), Moves(a)
  PROVE  Metered(a)'
BY DEF TypeOK, Metered, Moves, Priced, Over, Unstarted, Unmetered, Running, Executors

\* A call moves the money of its own attempt.
LEMMA RunJobMoves ==
  ASSUME IInv, NEW a \in AttemptIds, RunJob(a), Metered(a)
  PROVE  \A b \in AttemptIds : Moves(b)
<1>1. TypeOK /\ AttemptOK(a) BY DEF IInv
<1>2. attempts[a] \in AttemptRow BY <1>1 DEF TypeOK
<1>3. Moves(a)
  <2>. USE DEF Step, Goto, At, Quiet, children, Kill, Running, Over, Unstarted, Unmetered
  <2>1. CASE WorktreeFails(a)
    BY <1>1, <2>1 DEF WorktreeFails, Moves, TypeOK
  <2>2. CASE IntendExecutor(a)
    <3>1. CASE Accepts(a, "null", "NOT_RUN")
      <4>1. /\ attempts'[a].intended /\ attempts'[a].reservation = attempts[a].reservation
            /\ attempts'[a].scheduler = attempts[a].scheduler
        <5>1. Write(a, [attempts[a] EXCEPT !.instruction = TRUE, !.executorIntent = TRUE,
                                           !.executorPid = FALSE, !.intended = TRUE])
          BY <2>2, <3>1 DEF IntendExecutor
        <5>2. attempts'[a] = [attempts[a] EXCEPT !.instruction = TRUE, !.executorIntent = TRUE,
                                                 !.executorPid = FALSE, !.intended = TRUE]
          BY <1>1, <5>1, WriteRow
        <5>. QED BY <1>2, <5>2 DEF AttemptRow
      <4>2. Live(a)
        BY <1>1, <2>2, <3>1 DEF IntendExecutor, Live, Accepts, AttemptOK, Untouched
      <4>. QED BY <1>1, <2>2, <4>1, <4>2 DEF IntendExecutor, Moves, TypeOK
    <3>2. CASE ~Accepts(a, "null", "NOT_RUN")
      BY <1>1, <1>2, <2>2, <3>2, FilingStep, FiledRow DEF IntendExecutor, Moves, TypeOK
    <3>. QED BY <3>1, <3>2
  <2>3. CASE SpawnExecutor(a)
    <3>1. executor[a] = "none" BY <1>1, <2>3 DEF SpawnExecutor, Metered, TypeOK, Executors
    <3>. QED BY <1>1, <2>3, <3>1 DEF SpawnExecutor, Moves, TypeOK
  <2>4. CASE RecordExecutorPid(a)
    <3>1. /\ attempts'[a].intended = attempts[a].intended
          /\ attempts'[a].reservation = attempts[a].reservation
          /\ attempts'[a].scheduler = attempts[a].scheduler
      BY <1>1, <1>2, <2>4, WriteRow DEF RecordExecutorPid, AttemptRow
    <3>. QED BY <1>1, <2>4, <3>1 DEF RecordExecutorPid, Moves, TypeOK
  <2>5. CASE RecordUsage(a)
    <3>1. receipt[a] = "none" BY <1>1, <2>5 DEF RecordUsage, Metered
    <3>2. /\ attempts'[a].reservation = attempts[a].reservation
          /\ attempts'[a].scheduler = attempts[a].scheduler
          /\ attempts'[a].intended = attempts[a].intended
      BY <1>1, <1>2, <2>5, FilingStep, FiledRow
    <3>3. /\ stage[a] \in {"running", "aborted"} /\ stage'[a] \notin Unmetered
          /\ children' = children
          /\ receipt'[a] = "COMPLETE" => executor[a] \notin Running
      BY <1>1, <2>5 DEF RecordUsage, TypeOK
    <3>. QED BY <3>1, <3>2, <3>3 DEF Moves
  <2>6. CASE JudgeExecutor(a)
    BY <1>1, <2>6 DEF JudgeExecutor, Moves, TypeOK
  <2>7. ASSUME ExecutorSucceeded(a) \/ IntendCheck(a) \/ RecordCheck(a) \/ PassValidation(a)
                 \/ FailAttempt(a) \/ SpawnCheck(a) \/ RecordValidationPid(a) \/ SettleBudget(a)
        PROVE  Moves(a)
    <3>1. /\ attempts'[a].intended = attempts[a].intended
          /\ attempts'[a].reservation = attempts[a].reservation
          /\ attempts'[a].scheduler = attempts[a].scheduler
      <4>1. CASE UNCHANGED attempts BY <4>1
      <4>2. CASE ExecutorSucceeded(a)
        <5>1. \/ attempts'[a] = attempts[a]
              \/ attempts'[a] = [attempts[a] EXCEPT !.terminal = "SUCCEEDED", !.validation = "PENDING",
                                         !.executorIntent = FALSE, !.executorPid = FALSE]
          BY <1>1, WriteRow, <4>2 DEF ExecutorSucceeded
        <5>. QED BY <1>2, <5>1 DEF AttemptRow
      <4>3. CASE IntendCheck(a)
        <5>1. \/ attempts'[a] = attempts[a]
              \/ attempts'[a] = [attempts[a] EXCEPT !.validationIntent = TRUE, !.validationPid = FALSE]
          BY <1>1, WriteRow, <4>3 DEF IntendCheck
        <5>. QED BY <1>2, <5>1 DEF AttemptRow
      <4>4. CASE RecordCheck(a)
        <5>1. \/ attempts'[a] = attempts[a]
              \/ attempts'[a] = [attempts[a] EXCEPT !.validationIntent = FALSE, !.validationPid = FALSE]
          BY <1>1, WriteRow, <4>4 DEF RecordCheck
        <5>. QED BY <1>2, <5>1 DEF AttemptRow
      <4>5. CASE PassValidation(a)
        BY <1>1, <1>2, <2>7, <4>5, WriteRow DEF PassValidation, AttemptRow
      <4>6. CASE FailAttempt(a)
        <5>1. \/ attempts'[a] = attempts[a]
              \/ (\E v : attempts'[a] = [attempts[a] EXCEPT !.validation = v])
              \/ (\E t : attempts'[a] = [attempts[a] EXCEPT !.terminal = t, !.executorIntent = FALSE,
                                                  !.executorPid = FALSE])
          BY <1>1, WriteRow, <4>6 DEF FailAttempt
        <5>. QED BY <1>2, <5>1 DEF AttemptRow
      <4>7. CASE RecordValidationPid(a)
        BY <1>1, <1>2, <2>7, <4>7, WriteRow DEF RecordValidationPid, AttemptRow
      <4>8. SpawnCheck(a) \/ SettleBudget(a) => UNCHANGED attempts
        BY DEF SpawnCheck, SettleBudget
      <4>. QED BY <2>7, <4>1, <4>2, <4>3, <4>4, <4>5, <4>6, <4>7, <4>8
    <3>2. executor'[a] = executor[a] /\ spend'[a] = spend[a] /\ logged'[a] = logged[a]
          /\ receipt'[a] = receipt[a]
      BY <2>7 DEF ExecutorSucceeded, IntendCheck, RecordCheck, PassValidation, FailAttempt,
         SpawnCheck, RecordValidationPid, SettleBudget
    <3>3. stage'[a] \notin Unmetered
      BY <1>1, <2>7 DEF ExecutorSucceeded, IntendCheck, RecordCheck, PassValidation, FailAttempt,
         SpawnCheck, RecordValidationPid, SettleBudget, TypeOK
    <3>. QED BY <3>1, <3>2, <3>3 DEF Moves
  <2>. QED BY <2>1, <2>2, <2>3, <2>4, <2>5, <2>6, <2>7 DEF RunJob
<1>4. spend' = spend /\ logged' = logged
  BY DEF RunJob, WorktreeFails, IntendExecutor, SpawnExecutor, RecordExecutorPid, RecordUsage,
     JudgeExecutor, ExecutorSucceeded, IntendCheck, SpawnCheck, RecordValidationPid, RecordCheck,
     SettleBudget, PassValidation, FailAttempt, children
<1>5. receipt' = receipt \/ \E r : receipt' = [receipt EXCEPT ![a] = r]
  BY DEF RunJob, WorktreeFails, IntendExecutor, SpawnExecutor, RecordExecutorPid, RecordUsage,
     JudgeExecutor, ExecutorSucceeded, IntendCheck, SpawnCheck, RecordValidationPid, RecordCheck,
     SettleBudget, PassValidation, FailAttempt, Quiet
<1>6. \A b \in AttemptIds : b # a => receipt'[b] = receipt[b]
  BY <1>1, <1>5 DEF TypeOK
<1>. QED BY <1>3, <1>4, <1>6, RunJobRows DEF Moves

\* A claim moves the money of no attempt that existed, and gives the new one its grant.
LEMMA ClaimMoves ==
  ASSUME IInv, NEW p \in Procs, NEW j \in DirectJobs \cup Explorations, Claim(p, j),
         NEW a, a = <<j, made[j] + 1>>
  PROVE  /\ \A b \in AttemptIds : b # a => Moves(b)
         /\ Metered(a) => Metered(a)'
         /\ attempts'[a].reservation \in Grants(j) /\ ~attempts'[a].intended
         /\ receipt' = receipt /\ executor' = executor /\ spend' = spend /\ logged' = logged
         /\ executor[a] = "none" /\ stage[a] = "idle"
<1>1. TypeOK /\ a \in AttemptIds /\ ~Exists(a) /\ AttemptOK(a)
  BY ClaimStep DEF IInv
<1>2. /\ attempts[a] = Blank /\ executor[a] = "none" /\ stage[a] = "idle"
  BY <1>1 DEF AttemptOK, Untouched
<1>3. PICK grant \in Grants(j) :
        /\ Write(a, [attempts[a] EXCEPT !.scheduler = p, !.epoch = generation,
                                        !.reservation = grant])
        /\ Goto(a, "claimed")
  BY DEF Claim
<1>4. receipt' = receipt /\ executor' = executor /\ spend' = spend /\ logged' = logged
  BY DEF Claim, children
<1>5. attempts'[a].reservation = grant /\ ~attempts'[a].intended
  <2>1. attempts'[a] = [Blank EXCEPT !.scheduler = p, !.epoch = generation, !.reservation = grant]
    BY <1>1, <1>2, <1>3, WriteRow
  <2>. QED BY <2>1 DEF Blank
<1>6. \A b \in AttemptIds : b # a => attempts'[b] = attempts[b] /\ stage'[b] = stage[b]
  BY <1>1, <1>3, WriteRow DEF Goto, TypeOK
<1>7. stage'[a] = "claimed" BY <1>1, <1>3 DEF Goto, TypeOK
<1>8. Metered(a) => Metered(a)'
  BY <1>2, <1>4, <1>7 DEF Metered, Unstarted, Unmetered, Running, Priced
<1>. QED BY <1>2, <1>3, <1>4, <1>5, <1>6, <1>8 DEF Moves

\* The other steps.
LEMMA OtherMoves ==
  ASSUME IInv,
         \/ \E p \in Procs : StartProcess(p) \/ Crash(p)
         \/ \E c \in AttemptIds : ExecutorCloses(c) \/ ValidatorCloses(c)
         \/ \E p \in Servers, j \in Jobs : CancelReads(p, j)
         \/ \E p \in Servers : CancelJob(p) \/ Reconcile(p)
         \/ UNCHANGED vars
  PROVE  \A a \in AttemptIds : Moves(a)
<1>. SUFFICES ASSUME NEW a \in AttemptIds PROVE Moves(a) OBVIOUS
<1>1. TypeOK /\ CancelOK /\ AttemptOK(a) /\ attempts[a] \in AttemptRow BY DEF IInv, TypeOK
<1>2. CASE UNCHANGED vars BY <1>2 DEF vars, Moves
<1>3. ASSUME NEW p \in Procs, StartProcess(p) PROVE Moves(a)
  BY <1>3 DEF StartProcess, ledger, frames, children, Moves
<1>4. ASSUME NEW p \in Procs, Crash(p) PROVE Moves(a)
  BY <1>4 DEF Crash, ledger, children, Moves, Unmetered, Unstarted
<1>5. ASSUME NEW c \in AttemptIds, ExecutorCloses(c) PROVE Moves(a)
  <2>1. /\ attempts' = attempts /\ receipt' = receipt /\ stage' = stage
    BY <1>5 DEF ExecutorCloses, ledger, frames
  <2>2. \/ executor'[a] = executor[a] /\ spend'[a] = spend[a] /\ logged'[a] = logged[a]
        \/ executor[a] \in Running /\ executor'[a] \in Over /\ logged'[a] <= spend'[a]
    <3>1. PICK r \in Over : executor[c] \in Running /\ executor' = [executor EXCEPT ![c] = r]
      BY <1>5 DEF ExecutorCloses, Close, Running, Over
    <3>2. PICK cost \in 0..MaxSpend : \E told \in 0..cost :
            spend' = [spend EXCEPT ![c] = cost] /\ logged' = [logged EXCEPT ![c] = told]
      BY <1>5 DEF ExecutorCloses
    <3>3. CASE a = c BY <1>1, <3>1, <3>2, <3>3 DEF TypeOK
    <3>4. CASE a # c BY <1>1, <3>1, <3>2, <3>4 DEF TypeOK
    <3>. QED BY <3>3, <3>4
  <2>. QED BY <2>1, <2>2 DEF Moves
<1>6. ASSUME NEW c \in AttemptIds, ValidatorCloses(c) PROVE Moves(a)
  BY <1>6 DEF ValidatorCloses, ledger, frames, Moves
<1>7. ASSUME NEW p \in Servers, NEW j \in Jobs, CancelReads(p, j) PROVE Moves(a)
  BY <1>7 DEF CancelReads, ledger, frames, children, Moves
<1>8. ASSUME NEW p \in Servers, CancelJob(p) PROVE Moves(a)
  <2>. USE DEF CancelStep, CancelAt, frames
  <2>1. receipt' = receipt /\ stage' = stage /\ spend' = spend /\ logged' = logged
    BY <1>8 DEF CancelJob, CancelReadsFamily, RecordIntent, CloseIdleJob, KillChild, MarkCancelled,
       CheckFamily, CloseRoot, SettleCancel
  <2>2. CASE MarkCancelled(p)
    <3>1. cancel.current \in AttemptIds BY <1>1, <2>2 DEF MarkCancelled, CancelOK
    <3>2. attempts[cancel.current] \in AttemptRow BY <1>1, <3>1 DEF TypeOK
    <3>3. PICK c \in AttemptIds : c = cancel.current BY <3>1
    <3>4. attempts[c] \in AttemptRow BY <3>2, <3>3
    <3>5. /\ attempts'[a].intended = attempts[a].intended
          /\ attempts'[a].reservation = attempts[a].reservation
          /\ attempts'[a].scheduler = attempts[a].scheduler
      <4>1. \/ attempts' = attempts
            \/ Write(c, [attempts[c] EXCEPT !.validation = "NOT_RUN",
                                            !.validationIntent = FALSE, !.validationPid = FALSE])
            \/ Write(c, [attempts[c] EXCEPT !.terminal = "CANCELLED",
                                            !.executorIntent = FALSE, !.executorPid = FALSE])
        BY <2>2, <3>3 DEF MarkCancelled
      <4>2. CASE a = c
        <5>1. \/ attempts'[a] = attempts[a]
              \/ attempts'[a] = [attempts[a] EXCEPT !.validation = "NOT_RUN",
                                   !.validationIntent = FALSE, !.validationPid = FALSE]
              \/ attempts'[a] = [attempts[a] EXCEPT !.terminal = "CANCELLED",
                                   !.executorIntent = FALSE, !.executorPid = FALSE]
          BY <1>1, <4>1, <4>2, WriteRow
        <5>. QED BY <1>1, <5>1 DEF AttemptRow
      <4>3. CASE a # c BY <1>1, <4>1, <4>3, WriteRow
      <4>. QED BY <4>2, <4>3
    <3>. QED BY <2>1, <2>2, <3>5 DEF MarkCancelled, Moves
  <2>3. CASE KillChild(p)
    <3>1. \/ executor'[a] = executor[a]
          \/ executor[a] = "running" /\ executor'[a] = "dying"
      BY <1>1, <2>3 DEF KillChild, Kill, TypeOK
    <3>. QED BY <2>1, <2>3, <3>1 DEF KillChild, Moves
  <2>4. CASE ~MarkCancelled(p) /\ ~KillChild(p)
    <3>1. attempts' = attempts /\ executor' = executor
      BY <1>8, <2>4 DEF CancelJob, CancelReadsFamily, RecordIntent, CloseIdleJob, CheckFamily,
         CloseRoot, SettleCancel
    <3>. QED BY <2>1, <3>1 DEF Moves
  <2>. QED BY <2>2, <2>3, <2>4
<1>9. ASSUME NEW p \in Servers, Reconcile(p) PROVE Moves(a)
  <2>1. receipt' = receipt /\ stage' = stage /\ spend' = spend /\ logged' = logged /\ executor' = executor
    BY <1>9 DEF Reconcile, frames, children
  <2>2. \/ attempts'[a] = attempts[a]
        \/ attempts'[a] = [attempts[a] EXCEPT !.validation = "NOT_RUN"]
        \/ attempts'[a] = [attempts[a] EXCEPT !.terminal = "ORPHANED"]
    BY <1>9 DEF Reconcile
  <2>. QED BY <1>1, <2>1, <2>2 DEF AttemptRow, Moves
<1>. QED BY <1>2, <1>3, <1>4, <1>5, <1>6, <1>7, <1>8, <1>9
-----------------------------------------------------------------------------
(* The money of every attempt, step by step *)

\* Nothing has been reserved, owed or spent at the start.
LEMMA MoneyInit == Init => MInv
<1>. SUFFICES ASSUME Init PROVE MInv OBVIOUS
<1>1. Rows = {} BY AttemptIdsType DEF Init, Rows, Exists
<1>2. \A a \in AttemptIds : Metered(a)
  BY DEF Init, Metered, Unstarted, Unmetered, Priced, Running, Over
<1>. QED BY <1>1, <1>2, FS_EmptySet DEF MInv

\* A step either claims an attempt, or makes no row and revives none.
LEMMA MoneyStep ==
  ASSUME IInv, MInv, [Next]_vars
  PROVE  /\ MInv' /\ TypeOK /\ TypeOK'
         /\ \/ \E p \in Procs, j \in DirectJobs \cup Explorations : Claim(p, j)
            \/ /\ \A a \in AttemptIds : Moves(a) /\ (Exists(a)' <=> Exists(a))
               /\ \A a \in AttemptIds : Live(a)' => Live(a)
<1>1. TypeOK /\ TypeOK' BY NextStep DEF IInv
<1>2. \A a \in AttemptIds : Metered(a) BY DEF MInv
<1>3. ASSUME NEW p \in Procs, NEW j \in DirectJobs \cup Explorations, Claim(p, j) PROVE MInv'
  <2>1. PICK a : a = <<j, made[j] + 1>> OBVIOUS
  <2>2. a \in AttemptIds /\ \A b \in AttemptIds : Exists(b)' <=> Exists(b) \/ b = a
    BY <1>3, <2>1, ClaimStep
  <2>3. Rows' = Rows \cup {a} BY <2>2 DEF Rows
  <2>4. IsFiniteSet(Rows') BY <2>3, FS_AddElement DEF MInv
  <2>5. /\ \A b \in AttemptIds : b # a => Moves(b)
        /\ Metered(a)'
    BY <1>2, <1>3, <2>1, <2>2, ClaimMoves
  <2>6. \A b \in AttemptIds : Metered(b)'
    BY <1>1, <1>2, <2>5, MovesKeepMetered
  <2>. QED BY <2>4, <2>6 DEF MInv
<1>4. ASSUME ~ \E p \in Procs, j \in DirectJobs \cup Explorations : Claim(p, j)
      PROVE  /\ MInv'
             /\ \A a \in AttemptIds : Moves(a) /\ (Exists(a)' <=> Exists(a))
             /\ \A a \in AttemptIds : Live(a)' => Live(a)
  <2>1. /\ \A a \in AttemptIds : Moves(a)
        /\ made' = made
    <3>1. ASSUME NEW c \in AttemptIds, RunJob(c)
          PROVE  (\A a \in AttemptIds : Moves(a)) /\ made' = made
      BY <1>2, <3>1, RunJobMoves, RunJobRows DEF Step
    <3>2. CASE \/ \E p \in Procs : StartProcess(p) \/ Crash(p)
               \/ \E c \in AttemptIds : ExecutorCloses(c) \/ ValidatorCloses(c)
               \/ \E p \in Servers, j \in Jobs : CancelReads(p, j)
               \/ \E p \in Servers : CancelJob(p) \/ Reconcile(p)
               \/ UNCHANGED vars
      <4>1. \A a \in AttemptIds : Moves(a) BY <3>2, OtherMoves
      <4>2. \A p \in Servers : CancelJob(p) => made' = made
        BY CancelStepLemma
      <4>3. made' = made
        BY <3>2, <4>2 DEF StartProcess, Crash, ExecutorCloses, ValidatorCloses, CancelReads,
           Reconcile, ledger, vars
      <4>. QED BY <4>1, <4>3
    <3>. QED BY <1>4, <3>1, <3>2 DEF Next
  <2>2. \A a \in AttemptIds : Exists(a)' <=> Exists(a) BY <2>1 DEF Exists
  <2>3. Rows' = Rows BY <2>2 DEF Rows
  <2>4. \A a \in AttemptIds : Metered(a)' BY <1>1, <1>2, <2>1, MovesKeepMetered
  <2>5. \A a \in AttemptIds : Live(a)' => Live(a) BY <1>4, NextStep
  <2>. QED BY <2>1, <2>2, <2>3, <2>4, <2>5 DEF MInv
<1>. QED BY <1>1, <1>3, <1>4

\* What an attempt owes never grows, as long as it spends no more than it was granted.
LEMMA OwedShrinks ==
  ASSUME TypeOK, TypeOK', NEW a \in AttemptIds, Metered(a), Moves(a), Live(a)' => Live(a),
         spend'[a] <= attempts'[a].reservation
  PROVE  /\ Owed[a] \in Nat /\ Owed'[a] \in Nat /\ Owed'[a] <= Owed[a]
         /\ spend[a] <= attempts[a].reservation
<1>1. /\ attempts[a].reservation \in Nat /\ attempts'[a].reservation = attempts[a].reservation
      /\ attempts'[a].scheduler = attempts[a].scheduler
      /\ spend[a] \in Nat /\ spend'[a] \in Nat /\ logged[a] \in Nat /\ logged'[a] \in Nat
  BY DEF TypeOK, AttemptRow, Moves
<1>2. spend[a] <= attempts[a].reservation
  BY <1>1 DEF Metered, Moves, Over, Running
<1>. QED BY <1>1, <1>2 DEF Owed, Metered, Moves, Priced, Over, Running

\* The parts of a family that its sums range over are finite.
LEMMA FamilyFinite ==
  ASSUME IsFiniteSet(Rows), NEW root
  PROVE  IsFiniteSet(FamilyAttempts(root)) /\ FamilyAttempts(root) \subseteq AttemptIds
<1>1. FamilyAttempts(root) \subseteq Rows BY DEF FamilyAttempts, Rows
<1>. QED BY <1>1, FS_Subset DEF FamilyAttempts

\* What a family has spent and what it holds are numbers.
LEMMA SumTypes ==
  ASSUME TypeOK, IsFiniteSet(Rows), NEW root
  PROVE  /\ Spent(root) \in Nat /\ Reserved(root) \in Nat
         /\ IsFiniteSet({a \in FamilyAttempts(root) : Live(a)})
         /\ \A a \in AttemptIds : logged[a] \in Nat /\ Reservation[a] \in Nat
<1>1. \A a \in AttemptIds : logged[a] \in Nat /\ Reservation[a] \in Nat
  BY DEF TypeOK, AttemptRow, Reservation
<1>2. IsFiniteSet(FamilyAttempts(root)) /\ FamilyAttempts(root) \subseteq AttemptIds
  BY FamilyFinite
<1>. DEFINE L == {a \in FamilyAttempts(root) : Live(a)}
            P == {a \in FamilyAttempts(root) : Priced(a)}
<1>3. L \in SUBSET FamilyAttempts(root) /\ P \in SUBSET FamilyAttempts(root) OBVIOUS
<1>4. IsFiniteSet(L) /\ IsFiniteSet(P) /\ L \subseteq AttemptIds /\ P \subseteq AttemptIds
  BY <1>2, <1>3, FS_Subset
<1>5. Total(logged, P) \in Nat /\ Total(Reservation, L) \in Nat
  <2>. HIDE DEF L, P
  <2>. QED BY <1>1, <1>4, TotalType
<1>. QED BY <1>1, <1>4, <1>5 DEF Spent, Reserved
-----------------------------------------------------------------------------
(* The ceiling *)

\* The family of a root has no attempt of another family, and the root's own members.
LEMMA FamilyOfRoot ==
  ASSUME NEW root \in Roots, NEW j \in DirectJobs \cup Explorations
  PROVE  /\ RootOf(j) \in Roots /\ j \in Jobs
         /\ j \in Family(root) <=> root = RootOf(j)
BY JobsAssumption DEF Family, RootOf, Roots, Jobs

\* A step that revives nobody keeps every family within its ceiling: what is owed only falls as it is spent.
LEMMA CeilingStay ==
  ASSUME TypeOK, TypeOK', MInv, MInv', CeilingHolds,
         \A a \in AttemptIds : Moves(a) /\ (Exists(a)' <=> Exists(a)),
         \A a \in AttemptIds : Live(a)' => Live(a)
  PROVE  CeilingHolds'
<1>1. ASSUME NEW root \in Roots PROVE FamilyAttempts(root)' = FamilyAttempts(root)
  BY DEF FamilyAttempts, Family
<1>2. SpendWithinCeiling'
  <2>. SUFFICES ASSUME NEW root \in Roots, Ceiling[root] # Unlimited,
                       \A a \in FamilyAttempts(root)' : spend'[a] <= attempts'[a].reservation
                PROVE  Total(Owed', FamilyAttempts(root)') <= Ceiling[root]
    BY DEF SpendWithinCeiling
  <2>. DEFINE F == FamilyAttempts(root)
  <2>1. FamilyAttempts(root)' = F BY <1>1
  <2>2. IsFiniteSet(F) /\ F \subseteq AttemptIds BY FamilyFinite DEF MInv
  <2>. HIDE DEF F
  <2>3. \A a \in F : /\ Owed[a] \in Nat /\ Owed'[a] \in Nat /\ Owed'[a] <= Owed[a]
                     /\ spend[a] <= attempts[a].reservation
    BY <2>1, <2>2, OwedShrinks DEF MInv
  <2>4. Total(Owed, F) <= Ceiling[root]
    BY <2>3 DEF CeilingHolds, SpendWithinCeiling, F
  <2>5. Total(Owed', F) <= Total(Owed, F)
    BY <2>2, <2>3, TotalMonotone
  <2>6. Total(Owed, F) \in Nat /\ Total(Owed', F) \in Nat BY <2>2, <2>3, TotalType
  <2>7. Ceiling[root] \in Nat BY JobsAssumption
  <2>. QED BY <2>1, <2>4, <2>5, <2>6, <2>7
<1>3. ReservedWithinCeiling'
  <2>. SUFFICES ASSUME NEW root \in Roots, Ceiling[root] # Unlimited
                PROVE  Reserved(root)' <= Ceiling[root]
    BY DEF ReservedWithinCeiling
  <2>. DEFINE L == {a \in FamilyAttempts(root) : Live(a)}
  <2>1. /\ Reserved(root) \in Nat /\ IsFiniteSet(L)
        /\ \A a \in AttemptIds : Reservation[a] \in Nat
    BY SumTypes DEF MInv
  <2>3. L' \in SUBSET L /\ L \subseteq AttemptIds BY <1>1 DEF FamilyAttempts
  <2>4. \A a \in AttemptIds : Reservation'[a] = Reservation[a] BY DEF Moves, Reservation
  <2>5. Total(Reservation', L') <= Total(Reservation, L)
    <3>. HIDE DEF L
    <3>. QED BY <2>1, <2>3, <2>4, TotalMonotone
  <2>2. Total(Reservation', L') \in Nat
    <3>. HIDE DEF L
    <3>1. IsFiniteSet(L') /\ \A a \in L' : Reservation'[a] \in Nat
      BY <2>1, <2>3, <2>4, FS_Subset
    <3>. QED BY <3>1, TotalType
  <2>6. Reserved(root) <= Ceiling[root] /\ Ceiling[root] \in Nat
    BY JobsAssumption DEF CeilingHolds, ReservedWithinCeiling
  <2>7. Reserved(root)' = Total(Reservation', L') /\ Reserved(root) = Total(Reservation, L)
    BY DEF Reserved
  <2>. QED BY <2>1, <2>2, <2>5, <2>6, <2>7
<1>. QED BY <1>2, <1>3 DEF CeilingHolds

\* A claim is granted only what the ceiling has left, and so keeps every family within it.
LEMMA CeilingClaim ==
  ASSUME IInv, TypeOK', MInv, CeilingHolds,
         NEW p \in Procs, NEW j \in DirectJobs \cup Explorations, Claim(p, j)
  PROVE  CeilingHolds'
<1>0. PICK a : a = <<j, made[j] + 1>> OBVIOUS
<1>1. TypeOK /\ IsFiniteSet(Rows) /\ \A b \in AttemptIds : Metered(b) BY DEF IInv, MInv
<1>2. /\ a \in AttemptIds /\ ~Exists(a) /\ JobOf(a) = j
      /\ \A b \in AttemptIds : b # a => attempts'[b] = attempts[b]
      /\ \A b \in AttemptIds : Exists(b)' <=> Exists(b) \/ b = a
  BY <1>0, ClaimStep DEF JobOf
<1>3. /\ attempts'[a].reservation \in Grants(j)
      /\ receipt' = receipt /\ executor' = executor /\ spend' = spend /\ logged' = logged
      /\ executor[a] = "none" /\ receipt[a] = "none"
  <2>1. /\ attempts'[a].reservation \in Grants(j)
        /\ receipt' = receipt /\ executor' = executor /\ spend' = spend /\ logged' = logged
        /\ executor[a] = "none" /\ stage[a] = "idle"
    BY <1>0, ClaimMoves
  <2>2. receipt[a] = "none" BY <1>1, <1>2, <2>1 DEF Metered, Unmetered, Unstarted
  <2>. QED BY <2>1, <2>2
<1>4. /\ Owed'[a] = attempts'[a].reservation \/ Owed'[a] = 0
      /\ \A b \in AttemptIds : b # a => Owed'[b] = Owed[b] /\ (Live(b)' <=> Live(b))
  BY <1>2, <1>3 DEF Owed, Priced, Live, Validating
<1>5. \A b \in AttemptIds : b # a => Reservation'[b] = Reservation[b]
  BY <1>2 DEF Reservation
<1>6. attempts'[a].reservation \in Nat /\ Reservation'[a] = attempts'[a].reservation
  BY <1>2 DEF TypeOK, AttemptRow, Reservation
<1>7. ASSUME NEW root \in Roots, Ceiling[root] # Unlimited
      PROVE  /\ (\A b \in FamilyAttempts(root)' : spend'[b] <= attempts'[b].reservation)
                  => Total(Owed', FamilyAttempts(root)') <= Ceiling[root]
             /\ Reserved(root)' <= Ceiling[root]
  <2>. DEFINE F == FamilyAttempts(root)
              L == {b \in F : Live(b)}
              P == {b \in F : Priced(b)}
  <2>1. /\ IsFiniteSet(F) /\ F \subseteq AttemptIds /\ a \notin F /\ IsFiniteSet(L)
        /\ Spent(root) \in Nat /\ Reserved(root) \in Nat
        /\ \A b \in AttemptIds : logged[b] \in Nat /\ Reservation[b] \in Nat
    BY <1>1, <1>2, FamilyFinite, SumTypes DEF FamilyAttempts
  <2>2. Reserved(root)' = Total(Reservation', L') /\ Reserved(root) = Total(Reservation, L)
        /\ Spent(root) = Total(logged, P)
    BY DEF Reserved, Spent
  <2>3. Ceiling[root] \in Nat /\ Reserved(root) <= Ceiling[root]
    BY <1>7, JobsAssumption DEF CeilingHolds, ReservedWithinCeiling
  <2>4. \A b \in F : Owed[b] \in Nat
    BY <1>1, <2>1 DEF Owed, TypeOK, AttemptRow, Metered
  <2>5. \A b \in F : b # a /\ Owed'[b] = Owed[b] /\ Reservation'[b] = Reservation[b]
    BY <1>4, <1>5, <2>1
  <2>6. P \in SUBSET F /\ L \in SUBSET F OBVIOUS
  <2>7. CASE root = RootOf(j)
    <3>1. F' = F \cup {a}
      <4>1. j \in Family(root) BY <2>7, FamilyOfRoot
      <4>. QED BY <1>2, <4>1 DEF FamilyAttempts, Family
    <3>2. /\ attempts'[a].reservation <= Headroom(root) /\ Accounted(root)
          /\ Headroom(root) = Ceiling[root] - Spent(root) - Reserved(root)
      BY <1>3, <1>6, <1>7, <2>1, <2>3, <2>7 DEF Grants, Headroom
    <3>3. Total(Owed', F) <= Spent(root) + Reserved(root)
      <4>1. \A b \in F : (IF b \in F THEN Owed'[b] ELSE 0)
               <= (IF b \in P THEN logged[b] ELSE 0) + (IF b \in L THEN Reservation[b] ELSE 0)
        <5>. SUFFICES ASSUME NEW b \in F
             PROVE Owed[b] <= (IF Priced(b) THEN logged[b] ELSE 0)
                              + (IF Live(b) THEN Reservation[b] ELSE 0)
          BY <2>5
        <5>1. Metered(b) /\ (attempts[b].intended => Priced(b)) /\ b \in AttemptIds
          BY <1>1, <2>1, <3>2 DEF Accounted
        <5>2. Owed[b] = IF Priced(b) THEN logged[b] ELSE IF Live(b) THEN Reservation[b] ELSE 0
          BY <5>1 DEF Owed, Metered, Reservation
        <5>3. logged[b] \in Nat /\ Reservation[b] \in Nat BY <2>1, <5>1
        <5>. QED BY <5>2, <5>3
      <4>2. \A b \in F : Owed'[b] \in Nat /\ logged[b] \in Nat /\ Reservation[b] \in Nat
        BY <2>1, <2>4, <2>5
      <4>3. Total(Owed', F) <= Total(logged, P) + Total(Reservation, L)
        <5>. HIDE DEF F, P, L
        <5>1. F \in SUBSET F OBVIOUS
        <5>2. \A b \in P : logged[b] \in Nat BY <2>6, <4>2
        <5>3. \A b \in L : Reservation[b] \in Nat BY <2>6, <4>2
        <5>. QED BY <2>1, <2>6, <4>1, <4>2, <5>1, <5>2, <5>3, TotalBound
      <4>. QED BY <2>2, <4>3
    <3>4. Total(Owed', F') <= Ceiling[root]
      <4>1. \A b \in F \cup {a} : Owed'[b] \in Nat BY <1>4, <1>6, <2>4, <2>5
      <4>2. Total(Owed', F \cup {a}) = Total(Owed', F) + Owed'[a]
        <5>. HIDE DEF F
        <5>. QED BY <2>1, <4>1, TotalAdd
      <4>3. Total(Owed', F) \in Nat BY <2>1, <4>1, TotalType
      <4>. HIDE DEF F
      <4>. QED BY <1>4, <1>6, <2>1, <2>3, <3>1, <3>2, <3>3, <4>2, <4>3
    <3>5. Reserved(root)' <= Ceiling[root]
      <4>1. L' = L \/ L' = L \cup {a} BY <1>2, <1>4, <2>1, <3>1
      <4>2. \A b \in L \cup {a} : Reservation'[b] \in Nat BY <1>6, <2>1, <2>5
      <4>3. Total(Reservation', L) <= Total(Reservation, L)
        <5>1. \A b \in L : Reservation'[b] \in Nat /\ Reservation'[b] <= Reservation[b]
                           /\ Reservation[b] \in Nat
          BY <2>1, <2>5
        <5>. HIDE DEF L
        <5>. QED BY <2>1, <5>1, TotalMonotone
      <4>4. Total(Reservation', L) \in Nat
        <5>. HIDE DEF L
        <5>. QED BY <2>1, <4>2, TotalType
      <4>5. Total(Reservation', L \cup {a}) = Total(Reservation', L) + Reservation'[a]
        <5>1. a \notin L BY <2>1
        <5>. HIDE DEF L
        <5>. QED BY <2>1, <4>2, <5>1, TotalAdd
      <4>. HIDE DEF F, L
      <4>. QED BY <1>6, <2>1, <2>2, <2>3, <3>2, <4>1, <4>3, <4>4, <4>5
    <3>. QED BY <3>4, <3>5
  <2>8. CASE root # RootOf(j)
    <3>1. F' = F
      <4>1. j \notin Family(root) BY <2>8, FamilyOfRoot
      <4>. QED BY <1>2, <4>1 DEF FamilyAttempts, Family
    <3>2. L' = L BY <1>4, <2>5, <2>1, <3>1
    <3>3. Total(Owed', F') <= Ceiling[root]
             \/ ~ \A b \in F' : spend'[b] <= attempts'[b].reservation
      <4>. SUFFICES ASSUME \A b \in F' : spend'[b] <= attempts'[b].reservation
           PROVE Total(Owed', F) <= Ceiling[root]
        BY <3>1
      <4>1. \A b \in F : spend[b] <= attempts[b].reservation BY <1>2, <1>3, <2>1, <3>1
      <4>2. Total(Owed, F) <= Ceiling[root] BY <1>7, <4>1 DEF CeilingHolds, SpendWithinCeiling
      <4>3. \A b \in F : Owed'[b] \in Nat /\ Owed'[b] <= Owed[b] /\ Owed[b] \in Nat BY <2>4, <2>5
      <4>4. Total(Owed', F) <= Total(Owed, F)
        <5>. HIDE DEF F
        <5>. QED BY <2>1, <4>3, TotalMonotone
      <4>5. Total(Owed', F) \in Nat /\ Total(Owed, F) \in Nat BY <2>1, <4>3, TotalType
      <4>. HIDE DEF F
      <4>. QED BY <2>3, <4>2, <4>4, <4>5
    <3>4. Reserved(root)' <= Ceiling[root]
      <4>1. \A b \in L : Reservation'[b] \in Nat /\ Reservation'[b] <= Reservation[b]
                         /\ Reservation[b] \in Nat
        BY <2>1, <2>5
      <4>2. Total(Reservation', L) <= Total(Reservation, L) /\ Total(Reservation', L) \in Nat
        <5>. HIDE DEF L
        <5>. QED BY <2>1, <4>1, TotalMonotone, TotalType
      <4>. HIDE DEF L
      <4>. QED BY <2>1, <2>2, <2>3, <3>2, <4>2
    <3>. QED BY <3>3, <3>4
  <2>. QED BY <2>7, <2>8
<1>. QED BY <1>7 DEF CeilingHolds, SpendWithinCeiling, ReservedWithinCeiling

\* A family without attempts is within its ceiling.
LEMMA CeilingInit == Init => CeilingHolds
<1>. SUFFICES ASSUME Init, NEW root \in Roots, Ceiling[root] # Unlimited
              PROVE  Total(Owed, FamilyAttempts(root)) <= Ceiling[root]
                     /\ Reserved(root) <= Ceiling[root]
  BY DEF CeilingHolds, SpendWithinCeiling, ReservedWithinCeiling
<1>1. FamilyAttempts(root) = {} BY AttemptIdsType DEF Init, FamilyAttempts, Exists
<1>2. {a \in FamilyAttempts(root) : Live(a)} = {} BY <1>1
<1>3. Total(Owed, {}) = 0 /\ Total(Reservation, {}) = 0 BY FS_EmptySet, TotalChoice
<1>4. Reserved(root) = 0 BY <1>2, <1>3 DEF Reserved
<1>5. Ceiling[root] \in Nat BY JobsAssumption
<1>. QED BY <1>1, <1>3, <1>4, <1>5

\* What runs a step keeps of the ceiling and of the money it is counted in.
LEMMA CeilingStep ==
  ASSUME IInv, MInv, CeilingHolds, [Next]_vars
  PROVE  MInv' /\ CeilingHolds'
BY MoneyStep, CeilingStay, CeilingClaim

\* The executor of every attempt is metered at most once and after it is gone, and no
\* attempt that could still spend is counted as if it had (recordUsage, recovery).
THEOREM Metering == Spec => []MInv
<1>1. IInv /\ MInv /\ [Next]_vars => MInv' BY MoneyStep
<1>. QED BY <1>1, MoneyInit, Invariant, PTL DEF Spec

\* A late executor, check or cancel never rewrites the verdict on an attempt that is over
\* (acceptAttemptEvent and the rechecks of every transaction); what is filed late, without
\* the fence, is filed once and only under an attempt that was cancelled.
THEOREM Finality == Spec => ClosedAttemptIsFinal
<1>. DEFINE Final(a) == /\ Verdict(attempts'[a]) = Verdict(attempts[a])
                        /\ attempts[a].instruction => attempts'[a].instruction
                        /\ attempts[a].report => attempts'[a].report
                        /\ receipt[a] # "none" => receipt'[a] = receipt[a]
                        /\ Priced(a) => logged'[a] = logged[a]
                        /\ attempts[a].terminal # "CANCELLED" =>
                             attempts'[a] = attempts[a] /\ receipt'[a] = receipt[a]
<1>1. IInv /\ MInv /\ [Next]_vars => [\A a \in AttemptIds : Exists(a) /\ ~Live(a) => Final(a)]_vars
  <2>. SUFFICES ASSUME IInv, MInv, [Next]_vars, NEW a \in AttemptIds, Exists(a), ~Live(a)
                PROVE  Final(a)
    OBVIOUS
  <2>1. attempts[a] \in AttemptRow /\ AttemptOK(a) /\ Metered(a) BY DEF IInv, TypeOK, MInv
  <2>2. Stands(a) BY NextStep
  <2>3. receipt'[a] = receipt[a] \/ (receipt[a] = "none" /\ attempts[a].terminal = "CANCELLED")
    <3>1. CASE \A b \in AttemptIds : Moves(b)
      <4>1. receipt'[a] = receipt[a] \/ (receipt[a] = "none" /\ stage[a] \in {"running", "aborted"})
        BY <3>1 DEF Moves
      <4>. QED BY <2>1, <4>1 DEF AttemptOK, Tracked, Executing, Live
    <3>2. CASE \E p \in Procs, j \in DirectJobs \cup Explorations : Claim(p, j) BY <3>2 DEF Claim
    <3>. QED BY <3>1, <3>2, MoneyStep
  <2>4. Priced(a) => logged'[a] = logged[a]
    <3>1. CASE \A b \in AttemptIds : Moves(b) BY <2>1, <3>1 DEF Moves, Metered, Priced, Running, Over
    <3>2. CASE \E p \in Procs, j \in DirectJobs \cup Explorations : Claim(p, j)
      BY <3>2 DEF Claim, children
    <3>. QED BY <3>1, <3>2, MoneyStep
  <2>. QED BY <2>1, <2>2, <2>3, <2>4, FiledRow DEF Stands
<1>. QED BY <1>1, Invariant, Metering, PTL DEF Spec, ClosedAttemptIsFinal

\* Whatever starts, fails, is cancelled or is lost in whatever order: a family holds and
\* owes no more than its ceiling, as far as its receipts tell and unless an executor spent
\* more than it was granted (assertWithinBudget, admitAttempt, settleBudget).
THEOREM Ceilings == Spec => []CeilingHolds
<1>1. IInv /\ MInv /\ CeilingHolds /\ [Next]_vars => CeilingHolds' BY CeilingStep
<1>. QED BY <1>1, CeilingInit, Invariant, Metering, PTL DEF Spec
-----------------------------------------------------------------------------
(* A ceiling that is reached stays reached *)

Blocked(root) == Ceiling[root] # Unlimited /\ Spent(root) >= Ceiling[root]

\* Nothing is granted under a ceiling that is reached.
LEMMA BlockedGrantsNothing ==
  ASSUME NEW j \in Jobs, Blocked(RootOf(j))
  PROVE  Grants(j) = {}
BY DEF Blocked, Grants

\* What has been metered is never taken back.
LEMMA BlockedStays ==
  ASSUME IInv, MInv, [Next]_vars, NEW root \in Roots, Blocked(root)
  PROVE  Blocked(root)'
<1>. DEFINE P == {a \in FamilyAttempts(root) : Priced(a)}
<1>1. /\ TypeOK /\ TypeOK' /\ IsFiniteSet(Rows) /\ IsFiniteSet(Rows')
      /\ \A a \in AttemptIds : Metered(a) /\ logged[a] \in Nat /\ logged'[a] \in Nat
  BY MoneyStep DEF MInv, TypeOK
<1>2. ASSUME NEW a \in P PROVE a \in P' /\ logged'[a] = logged[a]
  <2>0. a \in AttemptIds /\ Exists(a) /\ Priced(a) /\ JobOf(a) \in Family(root)
    BY DEF FamilyAttempts
  <2>1. CASE \A b \in AttemptIds : Moves(b) /\ (Exists(b)' <=> Exists(b))
    <3>1. Priced(a)' /\ logged'[a] = logged[a]
      BY <1>1, <2>0, <2>1 DEF Moves, Metered, Priced, Running, Unmetered, Unstarted
    <3>. QED BY <2>0, <2>1, <3>1 DEF FamilyAttempts, Family
  <2>2. ASSUME NEW p \in Procs, NEW j \in DirectJobs \cup Explorations, Claim(p, j)
        PROVE  a \in P' /\ logged'[a] = logged[a]
    <3>1. Exists(a)' /\ receipt' = receipt /\ logged' = logged
      BY <2>0, <2>2, ClaimStep DEF Claim, children
    <3>. QED BY <2>0, <3>1 DEF FamilyAttempts, Family, Priced
  <2>. QED BY <2>1, <2>2, MoneyStep
<1>3. IsFiniteSet(P') /\ P' \subseteq AttemptIds
  <2>1. FamilyAttempts(root)' \in SUBSET Rows' BY DEF FamilyAttempts, Rows
  <2>2. P' \in SUBSET Rows' BY <2>1
  <2>. QED BY <1>1, <2>2, FS_Subset DEF FamilyAttempts
<1>4. Total(logged, P) <= Total(logged', P')
  <2>1. P \in SUBSET P' BY <1>2
  <2>2. \A a \in P : logged[a] \in Nat /\ logged[a] <= logged'[a] BY <1>1, <1>2, <1>3
  <2>3. \A a \in P' : logged'[a] \in Nat BY <1>1, <1>3
  <2>. HIDE DEF P
  <2>. QED BY <1>3, <2>1, <2>2, <2>3, TotalMonotone
<1>5. Total(logged, P) \in Nat /\ Total(logged', P') \in Nat
  <2>1. Total(logged, P) \in Nat BY <1>1, SumTypes DEF Spent
  <2>2. \A a \in P' : logged'[a] \in Nat BY <1>1, <1>3
  <2>. HIDE DEF P
  <2>. QED BY <1>3, <2>1, <2>2, TotalType
<1>6. Spent(root) = Total(logged, P) /\ Spent(root)' = Total(logged', P') BY DEF Spent
<1>7. Ceiling[root] # Unlimited => Ceiling[root] \in Nat BY JobsAssumption
<1>. QED BY <1>4, <1>5, <1>6, <1>7 DEF Blocked
-----------------------------------------------------------------------------
(* The statuses of jobs                                                      *)

Passed(a) == attempts[a].validation = "PASSED"
Of(j)     == {a \in AttemptIds : JobOf(a) = j}

\* The status of a job against its attempts.  A job with a result that may be claimed is
\* one whose family has reached its ceiling, and so is granted nothing.
JobOK(j) ==
  /\ \A a \in Of(j) : Live(a) => jobs[j] \in {"RUNNING", "CANCELLED"}
  /\ \A a, b \in Of(j) : Live(a) /\ Live(b) => a = b
  /\ jobs[j] = "RUNNING" => \E a \in Of(j) : Live(a)
  /\ jobs[j] \in {"READY_FOR_INTEGRATION", "SUCCEEDED"} => \E a \in Of(j) : Passed(a)
  /\ \A a, b \in Of(j) : Passed(a) /\ Passed(b) => a = b
  /\ \A a, b \in Of(j) : Passed(a) => ~Live(b)
  /\ \A a \in Of(j) : Passed(a) =>
       \/ jobs[j] \in {"READY_FOR_INTEGRATION", "SUCCEEDED", "CANCELLED"}
       \/ jobs[j] = "NEEDS_ATTENTION" /\ Blocked(RootOf(j))

\* settleBudget found the ceiling reached, and it still is.
OverspentOK == \A a \in AttemptIds : stage[a] = "overspent" => Blocked(RootOf(JobOf(a)))

RInv == OverspentOK /\ \A j \in DirectJobs \cup Explorations : JobOK(j)
-----------------------------------------------------------------------------
(* What a step does to the statuses and the live and passed attempts *)

Quiescent(A) == \A a \in A : (Live(a)' <=> Live(a)) /\ (Passed(a)' <=> Passed(a))

\* One attempt ends, and its job with it.
Ends(a) ==
  /\ Live(a) /\ ~Live(a)' /\ ~Passed(a) /\ Quiescent(AttemptIds \ {a})
  /\ \E v \in JobStatus :
       /\ jobs' = [jobs EXCEPT ![JobOf(a)] = v]
       /\ \/ ~Passed(a)' /\ v \in {"CANCELLED", "PENDING", "NEEDS_ATTENTION"}
          \/ /\ Passed(a)'
             /\ \/ v = Completed(JobOf(a))
                \/ v = "NEEDS_ATTENTION" /\ stage[a] = "overspent"

\* Every live attempt ends, and every job that had one returns.
AllEnd ==
  /\ \A a \in AttemptIds : ~Live(a)' /\ (Passed(a)' <=> Passed(a))
  /\ jobs' = [j \in Jobs |-> IF \E a \in LiveAttempts : JobOf(a) = j THEN Returned(j) ELSE jobs[j]]

Closes(j) == jobs' = [jobs EXCEPT ![j] = "CANCELLED"] /\ Quiescent(AttemptIds)

\* While the attempt row and the number of rows stand, so does what it says.
LEMMA SameRow ==
  ASSUME NEW a \in AttemptIds, made' = made, attempts'[a].terminal = attempts[a].terminal,
         attempts'[a].validation = attempts[a].validation
  PROVE  (Live(a)' <=> Live(a)) /\ (Passed(a)' <=> Passed(a))
BY DEF Live, Exists, Validating, Passed

\* A call of runJob says nothing about the job until it ends its attempt.
LEMMA RunJobEffect ==
  ASSUME IInv, NEW a \in AttemptIds, RunJob(a)
  PROVE  (jobs' = jobs /\ Quiescent(AttemptIds)) \/ Ends(a)
<1>1. TypeOK /\ AttemptOK(a) /\ attempts[a] \in AttemptRow /\ JobOf(a) \in Jobs
  BY AttemptIdsType DEF IInv, TypeOK
<1>2. /\ made' = made
      /\ \A b \in AttemptIds : b # a => attempts'[b] = attempts[b]
  BY RunJobRows DEF Step
<1>3. Quiescent(AttemptIds \ {a})
  BY <1>2, SameRow DEF Quiescent
<1>. USE DEF At, Quiet
<1>4. Exists(a) /\ Exists(a)'
  BY <1>1, <1>2 DEF RunJob, WorktreeFails, IntendExecutor, SpawnExecutor, RecordExecutorPid,
     RecordUsage, JudgeExecutor, ExecutorSucceeded, IntendCheck, SpawnCheck, RecordValidationPid,
     RecordCheck, SettleBudget, PassValidation, FailAttempt, AttemptOK, Untouched, Exists
<1>5. ASSUME jobs' = jobs, Live(a)' <=> Live(a), Passed(a)' <=> Passed(a)
      PROVE  jobs' = jobs /\ Quiescent(AttemptIds)
  BY <1>3, <1>5 DEF Quiescent
<1>6. ASSUME jobs' = jobs, attempts'[a].terminal = attempts[a].terminal,
             attempts'[a].validation = attempts[a].validation
      PROVE  jobs' = jobs /\ Quiescent(AttemptIds)
  BY <1>2, <1>5, <1>6, SameRow
<1>7. CASE WorktreeFails(a) \/ SpawnExecutor(a) \/ JudgeExecutor(a) \/ SpawnCheck(a)
             \/ SettleBudget(a)
  BY <1>6, <1>7 DEF WorktreeFails, SpawnExecutor, JudgeExecutor, SpawnCheck, SettleBudget
<1>16. CASE RecordUsage(a)
  BY <1>1, <1>6, <1>16, FilingStep, FiledRow DEF RecordUsage
<1>8. CASE IntendExecutor(a)
  <2>1. \/ attempts'[a] = [attempts[a] EXCEPT !.instruction = TRUE]
        \/ attempts'[a] = [attempts[a] EXCEPT !.instruction = TRUE, !.executorIntent = TRUE,
                                              !.executorPid = FALSE, !.intended = TRUE]
    BY <1>1, <1>8, WriteRow DEF IntendExecutor
  <2>. QED BY <1>1, <1>6, <1>8, <2>1 DEF IntendExecutor, AttemptRow
<1>9. CASE RecordExecutorPid(a)
  <2>1. attempts'[a] = attempts[a] \/ attempts'[a] = [attempts[a] EXCEPT !.executorPid = TRUE]
    BY <1>1, <1>9, WriteRow DEF RecordExecutorPid
  <2>. QED BY <1>1, <1>6, <1>9, <2>1 DEF RecordExecutorPid, AttemptRow
<1>10. CASE ExecutorSucceeded(a)
  <2>1. CASE attempts'[a] = attempts[a]
    BY <1>6, <1>10, <2>1 DEF ExecutorSucceeded
  <2>2. CASE /\ attempts[a].terminal = "null" /\ attempts[a].validation = "NOT_RUN"
             /\ attempts'[a] = [attempts[a] EXCEPT !.terminal = "SUCCEEDED",
                                  !.validation = "PENDING", !.executorIntent = FALSE,
                                  !.executorPid = FALSE]
    <3>1. attempts'[a].terminal = "SUCCEEDED" /\ attempts'[a].validation = "PENDING"
      BY <1>1, <2>2 DEF AttemptRow
    <3>2. Live(a) /\ Live(a)' /\ ~Passed(a) /\ ~Passed(a)'
      BY <1>4, <2>2, <3>1 DEF Live, Validating, Passed
    <3>. QED BY <1>5, <1>10, <3>2 DEF ExecutorSucceeded
  <2>. QED BY <1>1, <1>10, <2>1, <2>2, WriteRow DEF ExecutorSucceeded, Accepts
<1>11. CASE IntendCheck(a)
  <2>1. \/ attempts'[a] = attempts[a]
        \/ attempts'[a] = [attempts[a] EXCEPT !.validationIntent = TRUE, !.validationPid = FALSE]
    BY <1>1, <1>11, WriteRow DEF IntendCheck
  <2>. QED BY <1>1, <1>6, <1>11, <2>1 DEF IntendCheck, AttemptRow
<1>12. CASE RecordValidationPid(a)
  <2>1. attempts'[a] = attempts[a] \/ attempts'[a] = [attempts[a] EXCEPT !.validationPid = TRUE]
    BY <1>1, <1>12, WriteRow DEF RecordValidationPid
  <2>. QED BY <1>1, <1>6, <1>12, <2>1 DEF RecordValidationPid, AttemptRow
<1>13. CASE RecordCheck(a)
  <2>1. \/ attempts'[a] = attempts[a]
        \/ attempts'[a] = [attempts[a] EXCEPT !.validationIntent = FALSE, !.validationPid = FALSE]
    BY <1>1, <1>13, WriteRow DEF RecordCheck
  <2>. QED BY <1>1, <1>6, <1>13, <2>1 DEF RecordCheck, AttemptRow
<1>14. CASE PassValidation(a)
  <2>1. CASE Accepts(a, "SUCCEEDED", "PENDING")
    <3>1. Live(a) /\ ~Passed(a) BY <1>4, <2>1 DEF Accepts, Live, Validating, Passed
    <3>2. attempts'[a] = [attempts[a] EXCEPT !.validation = "PASSED"]
      BY <1>1, <1>14, <2>1, WriteRow DEF PassValidation
    <3>3. attempts'[a].terminal = "SUCCEEDED" /\ attempts'[a].validation = "PASSED"
      BY <1>1, <2>1, <3>2 DEF AttemptRow, Accepts
    <3>4. ~Live(a)' /\ Passed(a)' BY <3>3 DEF Live, Validating, Passed
    <3>5. jobs' = [jobs EXCEPT ![JobOf(a)] =
                     IF stage[a] = "overspent" THEN "NEEDS_ATTENTION" ELSE Completed(JobOf(a))]
      BY <1>14, <2>1 DEF PassValidation
    <3>6. Completed(JobOf(a)) \in JobStatus /\ "NEEDS_ATTENTION" \in JobStatus
      BY DEF Completed, JobStatus
    <3>. QED BY <1>3, <3>1, <3>4, <3>5, <3>6 DEF Ends
  <2>2. CASE ~Accepts(a, "SUCCEEDED", "PENDING")
    BY <1>6, <1>14, <2>2 DEF PassValidation
  <2>. QED BY <2>1, <2>2
<1>15. CASE FailAttempt(a)
  <2>1. CASE UNCHANGED <<jobs, attempts>> BY <1>6, <2>1
  <2>2. CASE /\ attempts[a].terminal = "null"
             /\ Write(a, [attempts[a] EXCEPT !.terminal = "FAILED",
                                             !.executorIntent = FALSE, !.executorPid = FALSE])
             /\ jobs' = [jobs EXCEPT ![JobOf(a)] = Returned(JobOf(a))]
    <3>1. attempts'[a] = [attempts[a] EXCEPT !.terminal = "FAILED",
                                             !.executorIntent = FALSE, !.executorPid = FALSE]
      BY <1>1, <2>2, WriteRow
    <3>2. /\ attempts'[a].terminal = "FAILED"
          /\ attempts'[a].validation = attempts[a].validation /\ attempts[a].validation = "NOT_RUN"
      BY <1>1, <2>2, <3>1 DEF AttemptRow, AttemptOK, Tracked
    <3>3. Live(a) /\ ~Live(a)' /\ ~Passed(a) /\ ~Passed(a)'
      BY <1>4, <2>2, <3>2 DEF Live, Validating, Passed
    <3>4. Returned(JobOf(a)) \in {"PENDING", "NEEDS_ATTENTION"} BY DEF Returned
    <3>. QED BY <1>3, <2>2, <3>3, <3>4 DEF Ends, JobStatus
  <2>3. ASSUME NEW v \in {"NOT_RUN", "FAILED"}, Validating(a),
               Write(a, [attempts[a] EXCEPT !.validation = v]),
               jobs' = [jobs EXCEPT ![JobOf(a)] = Returned(JobOf(a))]
        PROVE  Ends(a)
    <3>1. attempts'[a] = [attempts[a] EXCEPT !.validation = v]
      BY <1>1, <2>3, WriteRow
    <3>2. attempts'[a].terminal = "SUCCEEDED" /\ attempts'[a].validation = v
      BY <1>1, <2>3, <3>1 DEF AttemptRow, Validating
    <3>3. Live(a) /\ ~Live(a)' /\ ~Passed(a) /\ ~Passed(a)'
      BY <1>4, <2>3, <3>2 DEF Live, Validating, Passed
    <3>4. Returned(JobOf(a)) \in {"PENDING", "NEEDS_ATTENTION"} BY DEF Returned
    <3>. QED BY <1>3, <2>3, <3>3, <3>4 DEF Ends, JobStatus
  <2>. QED BY <1>15, <2>1, <2>2, <2>3 DEF FailAttempt
<1>. QED BY <1>7, <1>8, <1>9, <1>10, <1>11, <1>12, <1>13, <1>14, <1>15, <1>16 DEF RunJob

\* A cancel says nothing, ends the attempt it has killed, or closes a job.
LEMMA CancelEffect ==
  ASSUME IInv, NEW p \in Servers, CancelJob(p)
  PROVE  \/ jobs' = jobs /\ Quiescent(AttemptIds)
         \/ MarkCancelled(p) /\ \E a \in AttemptIds : a = cancel.current /\ Ends(a)
         \/ (CloseIdleJob(p) \/ CloseRoot(p)) /\ cancel.job \in Jobs /\ Closes(cancel.job)
<1>1. TypeOK /\ CancelOK BY DEF IInv
<1>2. made' = made BY CancelStepLemma
<1>3. ASSUME attempts' = attempts PROVE Quiescent(AttemptIds)
  BY <1>2, <1>3, SameRow DEF Quiescent
<1>4. CASE MarkCancelled(p)
  <2>1. PICK a : a = cancel.current OBVIOUS
  <2>2. /\ a \in AttemptIds /\ Exists(a) /\ AttemptOK(a) /\ attempts[a] \in AttemptRow
        /\ JobOf(a) \in Jobs /\ Exists(a)'
    BY <1>1, <1>2, <1>4, <2>1, AttemptIdsType DEF MarkCancelled, CancelAt, CancelOK, IInv, TypeOK,
       Exists
  <2>3. CASE attempts' = attempts /\ jobs' = jobs BY <1>3, <2>3
  <2>4. CASE /\ Validating(a)
             /\ Write(a, [attempts[a] EXCEPT !.validation = "NOT_RUN",
                                             !.validationIntent = FALSE, !.validationPid = FALSE])
             /\ jobs' = [jobs EXCEPT ![JobOf(a)] = "CANCELLED"]
    <3>1. /\ attempts'[a] = [attempts[a] EXCEPT !.validation = "NOT_RUN",
                               !.validationIntent = FALSE, !.validationPid = FALSE]
          /\ \A b \in AttemptIds : b # a => attempts'[b] = attempts[b]
      BY <1>1, <2>2, <2>4, WriteRow
    <3>2. attempts'[a].terminal = "SUCCEEDED" /\ attempts'[a].validation = "NOT_RUN"
      BY <2>2, <2>4, <3>1 DEF AttemptRow, Validating
    <3>3. Live(a) /\ ~Live(a)' /\ ~Passed(a) /\ ~Passed(a)'
      BY <2>2, <2>4, <3>2 DEF Live, Validating, Passed
    <3>4. Quiescent(AttemptIds \ {a}) BY <1>2, <3>1, SameRow DEF Quiescent
    <3>. QED BY <1>4, <2>1, <2>2, <2>4, <3>3, <3>4 DEF Ends, JobStatus
  <2>5. CASE /\ attempts[a].terminal = "null"
             /\ Write(a, [attempts[a] EXCEPT !.terminal = "CANCELLED",
                                             !.executorIntent = FALSE, !.executorPid = FALSE])
             /\ jobs' = [jobs EXCEPT ![JobOf(a)] = "CANCELLED"]
    <3>1. /\ attempts'[a] = [attempts[a] EXCEPT !.terminal = "CANCELLED",
                               !.executorIntent = FALSE, !.executorPid = FALSE]
          /\ \A b \in AttemptIds : b # a => attempts'[b] = attempts[b]
      BY <1>1, <2>2, <2>5, WriteRow
    <3>2. /\ attempts'[a].terminal = "CANCELLED"
          /\ attempts'[a].validation = "NOT_RUN" /\ attempts[a].validation = "NOT_RUN"
      BY <2>2, <2>5, <3>1 DEF AttemptRow, AttemptOK, Tracked
    <3>3. Live(a) /\ ~Live(a)' /\ ~Passed(a) /\ ~Passed(a)'
      BY <2>2, <2>5, <3>2 DEF Live, Validating, Passed
    <3>4. Quiescent(AttemptIds \ {a}) BY <1>2, <3>1, SameRow DEF Quiescent
    <3>. QED BY <1>4, <2>1, <2>2, <2>5, <3>3, <3>4 DEF Ends, JobStatus
  <2>. QED BY <1>4, <2>1, <2>3, <2>4, <2>5 DEF MarkCancelled
<1>5. CASE CloseIdleJob(p)
  <2>1. attempts' = attempts /\ (jobs' = jobs \/ jobs' = [jobs EXCEPT ![cancel.job] = "CANCELLED"])
    BY <1>5 DEF CloseIdleJob
  <2>2. cancel.job \in Jobs BY <1>1, <1>5 DEF CloseIdleJob, CancelAt, CancelOK
  <2>. QED BY <1>3, <1>5, <2>1, <2>2 DEF Closes
<1>6. CASE CloseRoot(p)
  <2>1. /\ attempts' = attempts
        /\ jobs' = [jobs EXCEPT ![cancel.job] =
                IF @ \in {"SUCCEEDED", "READY_FOR_INTEGRATION"} THEN @ ELSE "CANCELLED"]
    BY <1>6 DEF CloseRoot
  <2>2. cancel.job \in Jobs BY <1>1, <1>6 DEF CloseRoot, CancelAt, CancelOK
  <2>3. jobs' = jobs \/ jobs' = [jobs EXCEPT ![cancel.job] = "CANCELLED"]
    BY <1>1, <2>1, <2>2 DEF TypeOK
  <2>. QED BY <1>3, <1>6, <2>1, <2>2, <2>3 DEF Closes
<1>7. CASE CancelReadsFamily(p) \/ RecordIntent(p) \/ KillChild(p) \/ CheckFamily(p) \/ SettleCancel(p)
  <2>1. attempts' = attempts /\ jobs' = jobs
    BY <1>7 DEF CancelReadsFamily, RecordIntent, KillChild, CheckFamily, SettleCancel
  <2>. QED BY <1>3, <2>1
<1>. QED BY <1>4, <1>5, <1>6, <1>7 DEF CancelJob

\* Recovery ends whatever is live.
LEMMA ReconcileEffect ==
  ASSUME IInv, NEW p \in Servers, Reconcile(p)
  PROVE  AllEnd
<1>. SUFFICES ASSUME NEW a \in AttemptIds PROVE ~Live(a)' /\ (Passed(a)' <=> Passed(a))
  BY DEF Reconcile, AllEnd
<1>1. ~Live(a)' BY ReconcileStep
<1>2. attempts[a] \in AttemptRow BY DEF IInv, TypeOK
<1>3. \/ attempts'[a] = attempts[a]
      \/ /\ attempts[a].validation = "PENDING"
         /\ attempts'[a] = [attempts[a] EXCEPT !.validation = "NOT_RUN"]
      \/ attempts'[a] = [attempts[a] EXCEPT !.terminal = "ORPHANED"]
  BY DEF Reconcile, Validating
<1>4. Passed(a)' <=> Passed(a) BY <1>2, <1>3 DEF AttemptRow, Passed
<1>. QED BY <1>1, <1>4

\* What any step may do to the statuses: these five things.
LEMMA NextEffect ==
  ASSUME IInv, [Next]_vars
  PROVE  \/ \E p \in Procs, j \in DirectJobs \cup Explorations : Claim(p, j)
         \/ jobs' = jobs /\ Quiescent(AttemptIds)
         \/ \E a \in AttemptIds : Ends(a)
         \/ \E j \in Jobs : Closes(j)
         \/ AllEnd
<1>. USE DEF Quiescent
<1>1. ASSUME NEW p \in Procs, StartProcess(p) \/ Crash(p) PROVE jobs' = jobs /\ Quiescent(AttemptIds)
  BY <1>1, SameRow DEF StartProcess, Crash, ledger
<1>2. ASSUME NEW a \in AttemptIds, ExecutorCloses(a) \/ ValidatorCloses(a)
      PROVE  jobs' = jobs /\ Quiescent(AttemptIds)
  BY <1>2, SameRow DEF ExecutorCloses, ValidatorCloses, ledger
<1>3. ASSUME NEW p \in Servers, NEW j \in Jobs, CancelReads(p, j)
      PROVE  jobs' = jobs /\ Quiescent(AttemptIds)
  BY <1>3, SameRow DEF CancelReads, ledger
<1>4. CASE UNCHANGED vars BY <1>4, SameRow DEF vars
<1>. HIDE DEF Quiescent
<1>. QED BY <1>1, <1>2, <1>3, <1>4, RunJobEffect, CancelEffect, ReconcileEffect DEF Next
-----------------------------------------------------------------------------
(* The statuses agree with the attempts *)

\* No job has a result at the start.
LEMMA ResultsInit == Init => RInv
<1>1. Init => \A a \in AttemptIds : ~Live(a) /\ ~Passed(a) /\ stage[a] = "idle"
  BY AttemptIdsType DEF Init, Live, Exists, Passed, Blank
<1>. QED BY <1>1 DEF Init, RInv, OverspentOK, JobOK, Of, Jobs

\* A family that settleBudget found at its ceiling stays there.
LEMMA OverspentStep ==
  ASSUME IInv, MInv, OverspentOK, [Next]_vars
  PROVE  OverspentOK'
<1>. SUFFICES ASSUME NEW a \in AttemptIds, stage'[a] = "overspent"
              PROVE  Blocked(RootOf(JobOf(a)))'
  BY DEF OverspentOK, RootOf, JobOf
<1>1. JobOf(a) \in Jobs /\ RootOf(JobOf(a)) \in Roots
  BY AttemptIdsType, JobsAssumption DEF RootOf, Jobs, Roots
<1>2. TypeOK BY DEF IInv
<1>3. Blocked(RootOf(JobOf(a)))
  <2>1. CASE stage[a] = "overspent" BY <2>1 DEF OverspentOK
  <2>2. CASE stage[a] # "overspent"
    <3>1. ASSUME NEW c \in AttemptIds, RunJob(c) PROVE c = a /\ SettleBudget(c)
      <4>1. c = a BY <2>2, <3>1, RunJobRows
      <4>2. SettleBudget(c)
        BY <1>2, <3>1, <4>1 DEF RunJob, WorktreeFails, IntendExecutor, SpawnExecutor,
           RecordExecutorPid, RecordUsage, JudgeExecutor, ExecutorSucceeded, IntendCheck, SpawnCheck,
           RecordValidationPid, RecordCheck, SettleBudget, PassValidation, FailAttempt, Goto, TypeOK
      <4>. QED BY <4>1, <4>2
    <3>2. \A p \in Procs, j \in DirectJobs \cup Explorations : ~Claim(p, j)
      BY <1>2, <2>2 DEF Claim, Goto, TypeOK
    <3>3. \A p \in Procs : ~StartProcess(p) /\ ~Crash(p)
      BY <2>2 DEF StartProcess, Crash, frames
    <3>4. \A c \in AttemptIds : ~ExecutorCloses(c) /\ ~ValidatorCloses(c)
      BY <2>2 DEF ExecutorCloses, ValidatorCloses, frames
    <3>5. \A p \in Servers : ~CancelJob(p) /\ ~Reconcile(p) /\ \A j \in Jobs : ~CancelReads(p, j)
      BY <2>2 DEF CancelJob, CancelReadsFamily, RecordIntent, CloseIdleJob, KillChild, MarkCancelled,
         CheckFamily, CloseRoot, SettleCancel, CancelStep, Reconcile, CancelReads, frames
    <3>6. SettleBudget(a) BY <2>2, <3>1, <3>2, <3>3, <3>4, <3>5 DEF Next, vars
    <3>7. Exceeded(RootOf(JobOf(a)))
      BY <1>2, <3>6 DEF SettleBudget, Goto, TypeOK
    <3>. QED BY <3>7 DEF Exceeded, Blocked
  <2>. QED BY <2>1, <2>2
<1>4. Blocked(RootOf(JobOf(a)))' <=> (Ceiling[RootOf(JobOf(a))] # Unlimited
                                        /\ Spent(RootOf(JobOf(a)))' >= Ceiling[RootOf(JobOf(a))])
  BY DEF Blocked, RootOf, JobOf
<1>. QED BY <1>1, <1>3, BlockedStays

\* The status of a job agrees with its attempts after every step.
LEMMA JobStep ==
  ASSUME IInv, MInv, RInv, [Next]_vars, NEW j \in DirectJobs \cup Explorations
  PROVE  JobOK(j)'
<1>1. TypeOK /\ JobOK(j) /\ j \in Jobs /\ Of(j)' = Of(j) /\ Of(j) \subseteq AttemptIds
  BY DEF IInv, RInv, Jobs, Of
<1>2. Blocked(RootOf(j)) => Blocked(RootOf(j))'
  <2>1. PICK root \in Roots : root = RootOf(j) BY JobsAssumption DEF RootOf, Roots
  <2>2. Blocked(root) => Blocked(root)' BY BlockedStays
  <2>. QED BY <2>1, <2>2 DEF Blocked, RootOf
<1>3. CASE jobs' = jobs /\ Quiescent(AttemptIds)
  BY <1>1, <1>2, <1>3 DEF JobOK, Quiescent
<1>4. ASSUME NEW p \in Procs, NEW k \in DirectJobs \cup Explorations, Claim(p, k)
      PROVE  JobOK(j)'
  <2>1. PICK a : a = <<k, made[k] + 1>> OBVIOUS
  <2>2. /\ a \in AttemptIds /\ ~Exists(a) /\ JobOf(a) = k
        /\ \A b \in AttemptIds : b # a => attempts'[b] = attempts[b]
        /\ \A b \in AttemptIds : Exists(b)' <=> Exists(b) \/ b = a
    BY <1>4, <2>1, ClaimStep DEF JobOf
  <2>3. \A b \in AttemptIds : b # a => (Live(b)' <=> Live(b)) /\ (Passed(b)' <=> Passed(b))
    BY <2>2 DEF Live, Validating, Passed
  <2>4. ~Live(a) /\ ~Passed(a) /\ ~Passed(a)' /\ Live(a)'
    <3>1. attempts[a] = Blank BY <2>2 DEF IInv, AttemptOK, Untouched
    <3>2. PICK grant \in Grants(k) :
            Write(a, [attempts[a] EXCEPT !.scheduler = p, !.epoch = generation, !.reservation = grant])
      BY <1>4, <2>1 DEF Claim
    <3>3. attempts'[a] = [Blank EXCEPT !.scheduler = p, !.epoch = generation, !.reservation = grant]
      BY <1>1, <2>2, <3>1, <3>2, WriteRow
    <3>. QED BY <2>2, <3>1, <3>3 DEF Blank, Live, Validating, Passed
  <2>5. /\ jobs' = [jobs EXCEPT ![k] = "RUNNING"] /\ jobs[k] \in {"PENDING", "NEEDS_ATTENTION"}
        /\ Grants(k) # {} /\ k \in Jobs
    BY <1>4 DEF Claim, Claimable, Jobs
  <2>6. CASE j = k
    <3>1. \A b \in Of(j) : ~Live(b) BY <1>1, <2>5, <2>6 DEF JobOK
    <3>2. \A b \in Of(j) : ~Passed(b)
      BY <1>1, <2>5, <2>6, BlockedGrantsNothing DEF JobOK
    <3>3. \A b \in Of(j) : ~Passed(b)' /\ (Live(b)' => b = a)
      BY <2>3, <2>4, <3>1, <3>2, <1>1
    <3>4. a \in Of(j) BY <2>2, <2>6 DEF Of
    <3>5. jobs'[j] = "RUNNING" BY <1>1, <2>5, <2>6 DEF TypeOK
    <3>. QED BY <1>1, <2>4, <3>3, <3>4, <3>5 DEF JobOK
  <2>7. CASE j # k
    <3>1. a \notin Of(j) BY <2>2, <2>7 DEF Of
    <3>2. jobs'[j] = jobs[j] BY <1>1, <2>5, <2>7 DEF TypeOK
    <3>3. \A b \in Of(j) : (Live(b)' <=> Live(b)) /\ (Passed(b)' <=> Passed(b))
      BY <1>1, <2>3, <3>1
    <3>. QED BY <1>1, <1>2, <3>2, <3>3 DEF JobOK
  <2>. QED BY <2>6, <2>7
<1>5. ASSUME NEW a \in AttemptIds, Ends(a) PROVE JobOK(j)'
  <2>1. PICK v \in JobStatus :
          /\ jobs' = [jobs EXCEPT ![JobOf(a)] = v]
          /\ \/ ~Passed(a)' /\ v \in {"CANCELLED", "PENDING", "NEEDS_ATTENTION"}
             \/ /\ Passed(a)'
                /\ \/ v = Completed(JobOf(a))
                   \/ v = "NEEDS_ATTENTION" /\ stage[a] = "overspent"
    BY <1>5 DEF Ends
  <2>2. /\ Live(a) /\ ~Live(a)' /\ ~Passed(a)
        /\ \A b \in AttemptIds : b # a => (Live(b)' <=> Live(b)) /\ (Passed(b)' <=> Passed(b))
    BY <1>5 DEF Ends, Quiescent
  <2>3. CASE JobOf(a) = j
    <3>1. a \in Of(j) /\ jobs'[j] = v BY <1>1, <2>1, <2>3 DEF Of, TypeOK
    <3>2. \A b \in Of(j) : ~Live(b)' BY <1>1, <2>2, <3>1 DEF JobOK
    <3>3. \A b \in Of(j) : ~Passed(b) BY <1>1, <2>2, <3>1 DEF JobOK
    <3>4. \A b \in Of(j) : Passed(b)' => b = a BY <1>1, <2>2, <3>3
    <3>5. CASE ~Passed(a)'
      BY <1>1, <2>1, <3>1, <3>2, <3>4, <3>5 DEF JobOK
    <3>6. CASE Passed(a)'
      <4>1. Completed(j) \in {"READY_FOR_INTEGRATION", "SUCCEEDED"}
        BY JobsAssumption DEF Completed, Roots
      <4>2. stage[a] = "overspent" => Blocked(RootOf(j))' BY <1>2, <2>3 DEF RInv, OverspentOK
      <4>3. \/ jobs'[j] \in {"READY_FOR_INTEGRATION", "SUCCEEDED"}
            \/ jobs'[j] = "NEEDS_ATTENTION" /\ Blocked(RootOf(j))'
        BY <2>1, <2>3, <3>1, <3>6, <4>1, <4>2
      <4>. QED BY <1>1, <3>1, <3>2, <3>4, <3>6, <4>3 DEF JobOK
    <3>. QED BY <3>5, <3>6
  <2>4. CASE JobOf(a) # j
    <3>1. a \notin Of(j) /\ jobs'[j] = jobs[j] BY <1>1, <2>1, <2>4 DEF Of, TypeOK
    <3>2. \A b \in Of(j) : (Live(b)' <=> Live(b)) /\ (Passed(b)' <=> Passed(b))
      BY <1>1, <2>2, <3>1
    <3>. QED BY <1>1, <1>2, <3>1, <3>2 DEF JobOK
  <2>. QED BY <2>3, <2>4
<1>6. ASSUME NEW k \in Jobs, Closes(k) PROVE JobOK(j)'
  <2>1. jobs'[j] = jobs[j] \/ jobs'[j] = "CANCELLED" BY <1>1, <1>6 DEF Closes, TypeOK
  <2>2. \A b \in Of(j) : (Live(b)' <=> Live(b)) /\ (Passed(b)' <=> Passed(b))
    BY <1>1, <1>6 DEF Closes, Quiescent
  <2>. QED BY <1>1, <1>2, <2>1, <2>2 DEF JobOK
<1>7. CASE AllEnd
  <2>1. \A b \in Of(j) : ~Live(b)' /\ (Passed(b)' <=> Passed(b)) BY <1>1, <1>7 DEF AllEnd
  <2>2. CASE \E b \in Of(j) : Live(b)
    <3>1. jobs'[j] = Returned(j) BY <1>1, <1>7, <2>2 DEF AllEnd, LiveAttempts, Of
    <3>2. jobs'[j] \in {"PENDING", "NEEDS_ATTENTION"} BY <3>1 DEF Returned
    <3>3. \A b \in Of(j) : ~Passed(b) BY <1>1, <2>2 DEF JobOK
    <3>. QED BY <1>1, <2>1, <3>2, <3>3 DEF JobOK
  <2>3. CASE \A b \in Of(j) : ~Live(b)
    <3>1. jobs'[j] = jobs[j] BY <1>1, <1>7, <2>3 DEF AllEnd, LiveAttempts, Of
    <3>. QED BY <1>1, <1>2, <2>1, <2>3, <3>1 DEF JobOK
  <2>. QED BY <2>2, <2>3
<1>. QED BY <1>3, <1>4, <1>5, <1>6, <1>7, NextEffect

\* The status of every job agrees with its attempts in every reachable state.
THEOREM ResultsInvariant == Spec => []RInv
<1>1. IInv /\ MInv /\ RInv /\ [Next]_vars => RInv'
  BY OverspentStep, JobStep DEF RInv
<1>. QED BY <1>1, ResultsInit, Invariant, Metering, PTL DEF Spec

\* A job says RUNNING only while an attempt of it lives, and reports a result only of the
\* one attempt that passed its checks, whichever of runJob, cancelJob and reconcile wrote
\* last and whatever the family had spent by then.
THEOREM Results == Spec => []JobAgreesWithAttempts
<1>1. RInv => JobAgreesWithAttempts
  <2>. SUFFICES ASSUME RInv, NEW j \in DirectJobs \cup Explorations
                PROVE  /\ jobs[j] = "RUNNING" => \E a \in LiveAttempts : JobOf(a) = j
                       /\ jobs[j] \in {"READY_FOR_INTEGRATION", "SUCCEEDED"}
                            => \E a \in AttemptIds : JobOf(a) = j /\ Passed(a)
                       /\ \A a, b \in AttemptIds :
                            JobOf(a) = j /\ JobOf(b) = j /\ Passed(a) /\ Passed(b) => a = b
    BY DEF JobAgreesWithAttempts, RunningJobHasWorker, ResultIsOnePassedAttempt, Passed
  <2>. QED BY DEF RInv, JobOK, Of, LiveAttempts
<1>. QED BY <1>1, ResultsInvariant, PTL
-----------------------------------------------------------------------------
(* Cancelling a direct job.  Its attempts and its status belong to the one   *)
(* server, which does nothing else while it cancels.                         *)

OneServer   == \A p, q \in alive \cap Servers : p = q
ServersOwn  == \A a \in AttemptIds :
                 Exists(a) /\ JobOf(a) \in DirectJobs => attempts[a].scheduler \in Servers
ServerAsked == IF cancel.stage = "idle" THEN cancel.by = None ELSE cancel.by \in alive \cap Servers

Idle(j) == \A a \in Of(j) : ~Live(a)
Shut(j) == jobs[j] = "CANCELLED" /\ Idle(j)

\* The call has found the one live attempt of the job, and goes by it.
Aims ==
  /\ cancel.current = cancel.subject /\ cancel.current \in Of(cancel.job)
  /\ Live(cancel.current) /\ cancel.epoch = generation /\ cancel.todo = {}

\* Where a cancel of a direct job stands.
FrameOK ==
  cancel.job \in DirectJobs =>
    /\ cancel.stage \in {"read", "intend", "close"} => cancel.status = jobs[cancel.job]
    /\ cancel.stage = "intend" /\ cancel.subject = None => Idle(cancel.job)
    /\ cancel.stage = "close" => Idle(cancel.job)
    /\ cancel.stage = "intend" /\ cancel.subject # None => Aims
    /\ cancel.stage \in {"kill", "mark"} => Aims
    /\ cancel.stage \in {"family", "closeRoot"} => Shut(cancel.job)
    /\ cancel.stage = "settle" /\ cancel.outcome \in {"CLOSED", "CANCELLED"} => Shut(cancel.job)

ReceiptsOK ==
  \A j \in DirectJobs :
    <<j, "CLOSED">> \in outcomes \/ <<j, "CANCELLED">> \in outcomes => Shut(j)

ServerOK == OneServer /\ ServersOwn /\ ServerAsked
CInv == ServerOK /\ FrameOK /\ ReceiptsOK

\* No receipt has been given at the start.
LEMMA ReceiptsInit == Init => CInv
<1>1. Init => \A a \in AttemptIds : ~Exists(a) BY AttemptIdsType DEF Init, Exists
<1>. QED BY <1>1 DEF Init, NoCancel, CInv, ServerOK, OneServer, ServersOwn, ServerAsked, FrameOK,
     ReceiptsOK

\* A direct job that was closed or cancelled and has nothing live stays so: only an open
\* job is claimed, and only a live attempt returns its job.
LEMMA ShutStays ==
  ASSUME IInv, [Next]_vars, NEW j \in DirectJobs, Shut(j)
  PROVE  Shut(j)'
<1>1. TypeOK /\ j \in Jobs /\ Of(j)' = Of(j) /\ Of(j) \subseteq AttemptIds
  BY DEF IInv, Jobs, Of
<1>. SUFFICES jobs'[j] = "CANCELLED" /\ \A a \in Of(j) : ~Live(a)'
  BY <1>1 DEF Shut, Idle
<1>2. jobs[j] = "CANCELLED" /\ \A a \in Of(j) : ~Live(a) BY DEF Shut, Idle
<1>3. ASSUME NEW p \in Procs, NEW k \in DirectJobs \cup Explorations, Claim(p, k)
      PROVE  jobs'[j] = "CANCELLED" /\ \A a \in Of(j) : ~Live(a)'
  <2>1. PICK new : new = <<k, made[k] + 1>> OBVIOUS
  <2>2. k # j /\ JobOf(new) = k BY <1>2, <1>3, <2>1 DEF Claim, Claimable, JobOf
  <2>3. \A a \in AttemptIds : a # new => (Live(a)' <=> Live(a))
    BY <1>3, <2>1, ClaimStep DEF Live, Validating
  <2>4. jobs'[j] = jobs[j] BY <1>1, <1>3, <2>2 DEF Claim, TypeOK
  <2>. QED BY <1>1, <1>2, <2>2, <2>3, <2>4 DEF Of
<1>4. CASE jobs' = jobs /\ Quiescent(AttemptIds)
  BY <1>1, <1>2, <1>4 DEF Quiescent
<1>5. ASSUME NEW a \in AttemptIds, Ends(a)
      PROVE  jobs'[j] = "CANCELLED" /\ \A b \in Of(j) : ~Live(b)'
  <2>1. JobOf(a) # j BY <1>2, <1>5 DEF Ends, Of
  <2>2. jobs'[j] = jobs[j] BY <1>1, <1>5, <2>1 DEF Ends, TypeOK
  <2>3. \A b \in Of(j) : b # a BY <2>1 DEF Of
  <2>. QED BY <1>1, <1>2, <1>5, <2>2, <2>3 DEF Ends, Quiescent
<1>6. ASSUME NEW k \in Jobs, Closes(k)
      PROVE  jobs'[j] = "CANCELLED" /\ \A b \in Of(j) : ~Live(b)'
  BY <1>1, <1>2, <1>6 DEF Closes, Quiescent, TypeOK
<1>7. CASE AllEnd
  BY <1>1, <1>2, <1>7 DEF AllEnd, LiveAttempts, Of
<1>. QED BY <1>3, <1>4, <1>5, <1>6, <1>7, NextEffect

\* The server that runs direct jobs is one process, and it answers for every row of them.
LEMMA ServerStep ==
  ASSUME IInv, MInv, ServerOK, [Next]_vars
  PROVE  ServerOK'
<1>. USE DEF ServerOK
<1>1. TypeOK BY DEF IInv
<1>2. OneServer' /\ ServerAsked'
  <2>1. ASSUME NEW p \in Procs, StartProcess(p) PROVE OneServer' /\ ServerAsked'
    BY <2>1 DEF StartProcess, cancelling, OneServer, ServerAsked
  <2>2. ASSUME NEW p \in Procs, Crash(p) PROVE OneServer' /\ ServerAsked'
    <3>1. OneServer' BY <2>2 DEF Crash, OneServer
    <3>2. ServerAsked'
      BY <2>2, ProcsAssumption DEF Crash, ServerAsked, NoCancel
    <3>. QED BY <3>1, <3>2
  <2>3. ASSUME alive' = alive, cancel' = cancel PROVE OneServer' /\ ServerAsked'
    BY <2>3 DEF OneServer, ServerAsked
  <2>4. ASSUME NEW p \in Servers, NEW j \in Jobs, CancelReads(p, j) PROVE OneServer' /\ ServerAsked'
    BY <2>4 DEF CancelReads, processes, CanStep, OneServer, ServerAsked, NoCancel
  <2>5. ASSUME NEW p \in Servers, CancelJob(p) PROVE OneServer' /\ ServerAsked'
    <3>1. alive' = alive /\ cancel.by = p /\ p \in alive
      BY <2>5 DEF CancelJob, CancelReadsFamily, RecordIntent, CloseIdleJob, KillChild, MarkCancelled,
         CheckFamily, CloseRoot, SettleCancel, CancelAt, CancelStep, processes
    <3>2. \/ cancel' = NoCancel
          \/ cancel'.stage # "idle" /\ cancel'.by = cancel.by
      <4>0. cancel \in CancelFrame BY <1>1 DEF TypeOK
      <4>1. CASE CancelReadsFamily(p)
        BY <4>0, <4>1 DEF CancelReadsFamily, CancelGoto, CancelFrame
      <4>2. CASE RecordIntent(p)
        BY <4>0, <4>2 DEF RecordIntent, CancelGoto, CancelFrame
      <4>3. CASE CloseIdleJob(p)
        BY <4>0, <4>3 DEF CloseIdleJob, CancelGoto, CancelFrame
      <4>4. CASE KillChild(p)
        BY <4>0, <4>4 DEF KillChild, CancelGoto, CancelFrame
      <4>5. CASE MarkCancelled(p)
        BY <4>0, <4>5 DEF MarkCancelled, CancelGoto, CancelFrame
      <4>6. CASE CheckFamily(p)
        BY <4>0, <4>6 DEF CheckFamily, CancelGoto, CancelFrame
      <4>7. CASE CloseRoot(p)
        BY <4>0, <4>7 DEF CloseRoot, CancelGoto, CancelFrame
      <4>8. CASE SettleCancel(p) BY <4>8 DEF SettleCancel
      <4>. QED BY <2>5, <4>1, <4>2, <4>3, <4>4, <4>5, <4>6, <4>7, <4>8 DEF CancelJob
    <3>. QED BY <3>1, <3>2 DEF OneServer, ServerAsked, NoCancel
  <2>6. ASSUME NEW p \in Procs, NEW j \in DirectJobs \cup Explorations, Claim(p, j)
        PROVE  alive' = alive /\ cancel' = cancel
    BY <2>6 DEF Claim, processes, cancelling
  <2>7. ASSUME NEW a \in AttemptIds, RunJob(a) \/ ExecutorCloses(a) \/ ValidatorCloses(a)
        PROVE  alive' = alive /\ cancel' = cancel
    BY <2>7, RunJobRows DEF Step, ExecutorCloses, ValidatorCloses, processes, cancelling
  <2>8. ASSUME NEW p \in Servers, Reconcile(p) PROVE alive' = alive /\ cancel' = cancel
    BY <2>8 DEF Reconcile, processes, cancelling
  <2>9. UNCHANGED vars => alive' = alive /\ cancel' = cancel BY DEF vars
  <2>. QED BY <2>1, <2>2, <2>3, <2>4, <2>5, <2>6, <2>7, <2>8, <2>9 DEF Next
<1>3. ServersOwn'
  <2>1. ASSUME NEW p \in Procs, NEW k \in DirectJobs \cup Explorations, Claim(p, k) PROVE ServersOwn'
    <3>1. PICK new : new = <<k, made[k] + 1>> OBVIOUS
    <3>2. /\ new \in AttemptIds /\ JobOf(new) = k
          /\ \A b \in AttemptIds : b # new => attempts'[b] = attempts[b]
          /\ \A b \in AttemptIds : Exists(b)' <=> Exists(b) \/ b = new
      BY <2>1, <3>1, ClaimStep DEF JobOf
    <3>3. attempts'[new].scheduler = p
      <4>1. PICK grant : Write(new, [attempts[new] EXCEPT !.scheduler = p, !.epoch = generation,
                                                          !.reservation = grant])
        BY <2>1, <3>1 DEF Claim
      <4>2. attempts[new] \in AttemptRow BY <1>1, <3>2 DEF TypeOK
      <4>3. attempts'[new] = [attempts[new] EXCEPT !.scheduler = p, !.epoch = generation,
                                                   !.reservation = grant]
        BY <1>1, <3>2, <4>1, WriteRow
      <4>. QED BY <4>2, <4>3 DEF AttemptRow
    <3>4. k \in DirectJobs => p \in Servers BY <2>1 DEF Claim, Drives
    <3>. QED BY <3>2, <3>3, <3>4 DEF ServersOwn, JobOf
  <2>2. CASE \A a \in AttemptIds : Moves(a) /\ (Exists(a)' <=> Exists(a))
    BY <2>2 DEF Moves, ServersOwn, JobOf
  <2>. QED BY <2>1, <2>2, MoneyStep
<1>. QED BY <1>2, <1>3

\* While the server cancels, no step of anything else touches a direct job: the calls of
\* its own that could are waiting for it, and it is the only one of its kind.
LEMMA CancelFreezes ==
  ASSUME IInv, ServerOK, cancel.stage # "idle", NEW j \in DirectJobs, [Next]_vars,
         \A p \in Servers : ~CancelJob(p)
  PROVE  /\ jobs'[j] = jobs[j] /\ generation' = generation /\ outcomes' = outcomes
         /\ \A a \in Of(j) : Live(a)' <=> Live(a)
         /\ cancel' = cancel \/ cancel' = NoCancel
<1>. USE DEF ServerOK
<1>. DEFINE Frozen == /\ jobs'[j] = jobs[j] /\ generation' = generation /\ outcomes' = outcomes
                      /\ \A a \in Of(j) : Live(a)' <=> Live(a)
                      /\ cancel' = cancel \/ cancel' = NoCancel
<1>1. TypeOK /\ j \in Jobs /\ Of(j) \subseteq AttemptIds /\ \A a \in AttemptIds : AttemptOK(a)
  BY DEF IInv, Jobs, Of
<1>2. \A p \in Servers : ~CanStep(p)
  BY DEF CanStep, OneServer, ServerAsked
<1>3. ASSUME NEW p \in Procs, StartProcess(p) \/ Crash(p) PROVE Frozen
  BY <1>1, <1>3, SameRow DEF StartProcess, Crash, ledger, cancelling
<1>4. ASSUME NEW p \in Procs, NEW k \in DirectJobs \cup Explorations, Claim(p, k) PROVE Frozen
  <2>1. PICK new : new = <<k, made[k] + 1>> OBVIOUS
  <2>2. k # j /\ JobOf(new) = k BY <1>2, <1>4, <2>1 DEF Claim, Drives, JobOf
  <2>3. \A a \in AttemptIds : a # new => (Live(a)' <=> Live(a))
    BY <1>4, <2>1, ClaimStep DEF Live, Validating
  <2>4. jobs'[j] = jobs[j] BY <1>1, <1>4, <2>2 DEF Claim, TypeOK
  <2>5. \A a \in Of(j) : a # new BY <2>2 DEF Of
  <2>. QED BY <1>1, <1>4, <2>3, <2>4, <2>5 DEF Claim, cancelling
<1>5. ASSUME NEW c \in AttemptIds, RunJob(c) PROVE Frozen
  <2>1. CanStep(attempts[c].scheduler) /\ stage[c] # "idle"
    BY <1>5 DEF RunJob, WorktreeFails, IntendExecutor, SpawnExecutor, RecordExecutorPid,
       RecordUsage, JudgeExecutor, ExecutorSucceeded, IntendCheck, SpawnCheck, RecordValidationPid,
       RecordCheck, SettleBudget, PassValidation, FailAttempt, At
  <2>2. Exists(c) BY <1>1, <2>1 DEF AttemptOK, Untouched
  <2>3. JobOf(c) # j BY <1>2, <2>1, <2>2 DEF ServersOwn
  <2>4. /\ made' = made /\ generation' = generation /\ cancel' = cancel /\ outcomes' = outcomes
        /\ \A b \in Of(j) : attempts'[b] = attempts[b]
    BY <1>1, <1>5, <2>3, RunJobRows DEF Step, cancelling, Of
  <2>5. \A b \in Of(j) : Live(b)' <=> Live(b) BY <1>1, <2>4, SameRow
  <2>6. jobs'[j] = jobs[j] BY <1>1, <1>5, <2>3, RunJobEffect DEF Ends, TypeOK
  <2>. QED BY <2>4, <2>5, <2>6
<1>6. ASSUME NEW c \in AttemptIds, ExecutorCloses(c) \/ ValidatorCloses(c) PROVE Frozen
  BY <1>1, <1>6, SameRow DEF ExecutorCloses, ValidatorCloses, ledger, cancelling
<1>7. \A p \in Servers, k \in Jobs : ~CancelReads(p, k)
  BY DEF CancelReads
<1>8. \A p \in Servers : ~Reconcile(p) BY <1>2 DEF Reconcile
<1>9. CASE UNCHANGED vars
  BY <1>1, <1>9, SameRow DEF vars
<1>10. \/ \E p \in Procs : StartProcess(p) \/ Crash(p)
       \/ \E p \in Procs, k \in DirectJobs \cup Explorations : Claim(p, k)
       \/ \E c \in AttemptIds : RunJob(c) \/ ExecutorCloses(c) \/ ValidatorCloses(c)
       \/ UNCHANGED vars
  BY <1>7, <1>8 DEF Next
<1>. QED BY <1>3, <1>4, <1>5, <1>6, <1>9, <1>10

\* Marking the attempt a cancel aims at ends it and its job: the row is still the one that
\* the call read.
LEMMA MarkLands ==
  ASSUME IInv, RInv, FrameOK, NEW p \in Servers, MarkCancelled(p), cancel.job \in DirectJobs
  PROVE  /\ Shut(cancel.job)' /\ cancel'.stage = "family" /\ cancel'.job = cancel.job
<1>1. PICK a : a = cancel.current OBVIOUS
<1>2. PICK j \in DirectJobs : j = cancel.job OBVIOUS
<1>3. Aims BY DEF MarkCancelled, CancelAt, FrameOK
<1>4. /\ a = cancel.subject /\ a \in Of(j) /\ a \in AttemptIds /\ JobOf(a) = j
      /\ Live(a) /\ cancel.epoch = generation /\ cancel.todo = {}
  BY <1>1, <1>2, <1>3 DEF Aims, Of
<1>5. TypeOK /\ AttemptOK(a) /\ attempts[a] \in AttemptRow /\ j \in Jobs /\ JobOK(j)
  BY <1>4 DEF IInv, TypeOK, RInv, Jobs
<1>6. /\ attempts[a].epoch = cancel.epoch
      /\ attempts[a].terminal = "null" \/ Validating(a)
  BY <1>4, <1>5 DEF AttemptOK, Driven, Live
<1>7. /\ jobs' = [jobs EXCEPT ![j] = "CANCELLED"]
      /\ \/ Write(a, [attempts[a] EXCEPT !.validation = "NOT_RUN",
                                         !.validationIntent = FALSE, !.validationPid = FALSE])
              /\ attempts[a].terminal = "SUCCEEDED"
         \/ Write(a, [attempts[a] EXCEPT !.terminal = "CANCELLED",
                                         !.executorIntent = FALSE, !.executorPid = FALSE])
  BY <1>1, <1>4, <1>6 DEF MarkCancelled, Validating
<1>8. ~Live(a)'
  <2>1. \/ attempts'[a] = [attempts[a] EXCEPT !.validation = "NOT_RUN",
                              !.validationIntent = FALSE, !.validationPid = FALSE]
             /\ attempts[a].terminal = "SUCCEEDED"
        \/ attempts'[a] = [attempts[a] EXCEPT !.terminal = "CANCELLED",
                              !.executorIntent = FALSE, !.executorPid = FALSE]
    BY <1>4, <1>5, <1>7, WriteRow
  <2>2. \/ attempts'[a].validation = "NOT_RUN" /\ attempts'[a].terminal = "SUCCEEDED"
        \/ attempts'[a].terminal = "CANCELLED"
    BY <1>5, <2>1 DEF AttemptRow
  <2>. QED BY <2>2 DEF Live, Validating
<1>9. \A b \in Of(j) : ~Live(b)'
  <2>1. \A b \in Of(j) : b # a => ~Live(b) BY <1>4, <1>5 DEF JobOK
  <2>2. made' = made BY CancelStepLemma DEF CancelJob
  <2>3. \A b \in AttemptIds : b # a => attempts'[b] = attempts[b]
    BY <1>4, <1>5, <1>7, WriteRow
  <2>4. \A b \in AttemptIds : b # a => (Live(b)' <=> Live(b))
    BY <2>2, <2>3, SameRow
  <2>. QED BY <1>8, <2>1, <2>4 DEF Of
<1>10. jobs'[j] = "CANCELLED" BY <1>5, <1>7 DEF TypeOK
<1>11. cancel'.stage = "family" /\ cancel'.job = cancel.job
  BY <1>4, <1>5 DEF MarkCancelled, TypeOK, CancelFrame
<1>. QED BY <1>2, <1>9, <1>10, <1>11 DEF Shut, Idle, Of

\* What a cancel knows about its job stays true from one stage to the next.
LEMMA FrameStep ==
  ASSUME IInv, RInv, ServerOK, FrameOK, [Next]_vars
  PROVE  FrameOK'
<1>1. TypeOK /\ CancelOK BY DEF IInv
<1>2. CASE cancel'.stage = "idle" BY <1>2 DEF FrameOK
<1>3. ASSUME NEW p \in Servers, NEW k \in Jobs, CancelReads(p, k) PROVE FrameOK'
  BY <1>3 DEF CancelReads, NoCancel, ledger, FrameOK
<1>4. CASE cancel.stage = "idle" /\ cancel' = cancel BY <1>2, <1>4
<1>5. ASSUME cancel.stage = "idle", \A p \in Servers, k \in Jobs : ~CancelReads(p, k)
      PROVE  cancel' = cancel \/ cancel'.stage = "idle"
  <2>1. \A p \in Servers : ~CancelJob(p)
    BY <1>5 DEF CancelJob, CancelReadsFamily, RecordIntent, CloseIdleJob, KillChild, MarkCancelled,
       CheckFamily, CloseRoot, SettleCancel, CancelAt
  <2>2. ASSUME NEW p \in Procs, StartProcess(p) \/ Crash(p) PROVE cancel' = cancel \/ cancel'.stage = "idle"
    BY <2>2 DEF StartProcess, Crash, cancelling, NoCancel
  <2>3. ASSUME NEW p \in Procs, NEW k \in DirectJobs \cup Explorations, Claim(p, k) PROVE cancel' = cancel
    BY <2>3 DEF Claim, cancelling
  <2>4. ASSUME NEW c \in AttemptIds, RunJob(c) \/ ExecutorCloses(c) \/ ValidatorCloses(c)
        PROVE  cancel' = cancel
    BY <2>4, RunJobRows DEF Step, ExecutorCloses, ValidatorCloses, cancelling
  <2>5. ASSUME NEW p \in Servers, Reconcile(p) PROVE cancel' = cancel
    BY <2>5 DEF Reconcile, cancelling
  <2>6. UNCHANGED vars => cancel' = cancel BY DEF vars
  <2>. QED BY <1>5, <2>1, <2>2, <2>3, <2>4, <2>5, <2>6 DEF Next
<1>6. ASSUME cancel.stage # "idle", \A p \in Servers : ~CancelJob(p) PROVE FrameOK'
  <2>. SUFFICES ASSUME NEW d \in DirectJobs PROVE FrameOK' BY DEF FrameOK
  <2>4. cancel' = cancel \/ cancel' = NoCancel BY <1>6, CancelFreezes
  <2>1. CASE cancel' = NoCancel BY <2>1 DEF NoCancel, FrameOK
  <2>2. CASE cancel' = cancel /\ cancel.job \notin DirectJobs BY <2>2 DEF FrameOK
  <2>3. CASE cancel' = cancel /\ cancel.job \in DirectJobs
    <3>1. PICK j \in DirectJobs : j = cancel.job BY <2>3
    <3>2. /\ jobs'[j] = jobs[j] /\ generation' = generation /\ Of(j)' = Of(j)
          /\ \A a \in Of(j) : Live(a)' <=> Live(a)
      BY <1>6, CancelFreezes DEF Of
    <3>3. (Idle(j) => Idle(j)') /\ (Shut(j) => Shut(j)') BY <3>2 DEF Idle, Shut
    <3>4. Aims => Aims'
      <4>. SUFFICES ASSUME Aims PROVE Aims' OBVIOUS
      <4>1. PICK c \in Of(j) : c = cancel.current BY <3>1 DEF Aims
      <4>2. Live(c)' BY <3>2, <4>1 DEF Aims
      <4>. QED BY <2>3, <3>1, <3>2, <4>1, <4>2 DEF Aims
    <3>. QED BY <2>3, <3>1, <3>2, <3>3, <3>4 DEF FrameOK, Idle, Shut
  <2>. QED BY <2>1, <2>2, <2>3, <2>4
<1>7. ASSUME NEW p \in Servers, CancelJob(p) PROVE FrameOK'
  <2>. USE DEF CancelAt, CancelGoto
  <2>1. /\ cancel.stage # "idle" /\ made' = made /\ generation' = generation
    BY <1>7, CancelStepLemma DEF CancelJob, CancelReadsFamily, RecordIntent, CloseIdleJob, KillChild,
       MarkCancelled, CheckFamily, CloseRoot, SettleCancel
  <2>2. CASE SettleCancel(p) BY <2>2 DEF SettleCancel, NoCancel, FrameOK
  <2>3. CASE ~SettleCancel(p) /\ cancel.job \notin DirectJobs
    <3>1. cancel'.job = cancel.job
      <4>0. cancel \in CancelFrame BY <1>1 DEF TypeOK
      <4>1. CASE CancelReadsFamily(p) BY <4>0, <4>1 DEF CancelReadsFamily, CancelFrame
      <4>2. CASE RecordIntent(p) \/ KillChild(p) BY <4>0, <4>2 DEF RecordIntent, KillChild, CancelFrame
      <4>3. CASE CloseIdleJob(p) BY <4>0, <4>3 DEF CloseIdleJob, CancelFrame
      <4>4. CASE MarkCancelled(p) BY <4>0, <4>4 DEF MarkCancelled, CancelFrame
      <4>5. CASE CheckFamily(p) \/ CloseRoot(p) BY <4>0, <4>5 DEF CheckFamily, CloseRoot, CancelFrame
      <4>. QED BY <1>7, <2>3, <4>1, <4>2, <4>3, <4>4, <4>5 DEF CancelJob
    <3>. QED BY <2>3, <3>1 DEF FrameOK
  <2>4. CASE ~SettleCancel(p) /\ cancel.job \in DirectJobs
    <3>1. PICK j \in DirectJobs : j = cancel.job BY <2>4
    <3>2. JobOK(j) /\ j \in Jobs /\ Of(j)' = Of(j) /\ Of(j) \subseteq AttemptIds
      BY DEF RInv, Jobs, Of
    <3>3. ASSUME attempts' = attempts PROVE \A a \in Of(j) : Live(a)' <=> Live(a)
      BY <2>1, <3>2, <3>3, SameRow
    <3>4. Shut(j) => Shut(j)' BY ShutStays
    <3>5. FamilyAttempts(j) = {a \in Of(j) : Exists(a)}
      BY JobsAssumption DEF FamilyAttempts, Family, Of
    <3>6. CASE CancelReadsFamily(p)
      <4>. DEFINE live == {a \in FamilyAttempts(j) : Live(a)}
                  own  == {a \in live : JobOf(a) = j}
                  checking == {a \in live : Validating(a)}
                  pids == {a \in live : IF a \in checking THEN attempts[a].validationPid
                                                          ELSE attempts[a].executorPid}
      <4>1. live = {a \in Of(j) : Live(a)} /\ own = live
        BY <3>5 DEF Live, Of
      <4>2. PICK subject \in IF live = {} THEN {None} ELSE live :
              /\ cancel'.stage = "intend" /\ cancel'.epoch = generation
              /\ cancel'.subject = subject /\ cancel'.current = subject
              /\ cancel'.todo = live \ {subject} /\ cancel'.status = cancel.status
              /\ cancel'.job = cancel.job /\ jobs' = jobs /\ attempts' = attempts
              /\ cancel.stage = "read"
        <5>. HIDE DEF live, own, checking, pids
        <5>1. PICK subject \in IF live = {} THEN {None} ELSE IF own = {} THEN live ELSE own :
                cancel' = [cancel EXCEPT !.stage = "intend", !.epoch = generation,
                             !.subject = subject, !.current = subject, !.todo = live \ {subject},
                             !.pids = pids, !.checking = checking]
          BY <3>1, <3>6 DEF CancelReadsFamily, live, own, checking, pids
        <5>2. subject \in IF live = {} THEN {None} ELSE live BY <4>1, <5>1
        <5>. QED BY <1>1, <3>6, <5>1, <5>2 DEF CancelReadsFamily, TypeOK, CancelFrame
      <4>3. cancel'.status = jobs'[j] BY <3>1, <4>2 DEF FrameOK
      <4>4. CASE live = {}
        <5>1. Idle(j)' /\ cancel'.subject = None BY <3>2, <3>3, <4>1, <4>2, <4>4 DEF Idle
        <5>. QED BY <3>1, <4>2, <4>3, <5>1 DEF FrameOK, Idle
      <4>5. CASE live # {}
        <5>1. subject \in Of(j) /\ Live(subject) /\ Live(subject)' /\ subject # None
          BY <3>2, <3>3, <4>1, <4>2, <4>5, NoneAssumption
        <5>2. live \ {subject} = {} BY <3>2, <4>1, <4>2, <4>5, <5>1 DEF JobOK
        <5>3. Aims'
          BY <2>1, <3>1, <3>2, <4>2, <5>1, <5>2 DEF Aims, Of
        <5>. QED BY <3>1, <4>2, <4>3, <5>1, <5>3 DEF FrameOK
      <4>. QED BY <4>4, <4>5
    <3>7. CASE RecordIntent(p) \/ KillChild(p)
      <4>1. /\ jobs' = jobs /\ attempts' = attempts
            /\ cancel'.job = cancel.job /\ cancel'.status = cancel.status
            /\ cancel'.current = cancel.current /\ cancel'.subject = cancel.subject
            /\ cancel'.epoch = cancel.epoch /\ cancel'.todo = cancel.todo
            /\ \/ /\ cancel.stage = "intend"
                  /\ cancel'.stage = IF cancel.subject = None THEN "close" ELSE "kill"
               \/ cancel.stage = "kill" /\ cancel'.stage = "mark"
        BY <1>1, <3>7 DEF RecordIntent, KillChild, TypeOK, CancelFrame
      <4>2. Idle(j) => Idle(j)' BY <3>2, <3>3, <4>1 DEF Idle
      <4>3. Aims => Aims'
        <5>. SUFFICES ASSUME Aims PROVE Aims' OBVIOUS
        <5>1. PICK c \in Of(j) : c = cancel.current BY <3>1 DEF Aims
        <5>2. Live(c)' BY <3>3, <4>1, <5>1 DEF Aims
        <5>. QED BY <2>1, <3>1, <3>2, <4>1, <5>1, <5>2 DEF Aims
      <4>4. CASE cancel.stage = "intend" /\ cancel.subject = None
        <5>1. Idle(j)' /\ cancel'.status = jobs'[j] BY <3>1, <4>1, <4>2, <4>4 DEF FrameOK
        <5>. QED BY <3>1, <4>1, <4>4, <5>1 DEF FrameOK, Idle
      <4>5. CASE cancel.stage = "kill" \/ cancel.subject # None
        <5>1. Aims' BY <3>1, <4>1, <4>3, <4>5 DEF FrameOK
        <5>. QED BY <3>1, <4>1, <4>5, <5>1 DEF FrameOK
      <4>. QED BY <4>1, <4>4, <4>5
    <3>8. CASE CloseIdleJob(p)
      <4>1. /\ Idle(j) /\ attempts' = attempts /\ cancel'.stage = "settle"
            /\ cancel'.job = cancel.job
            /\ \/ cancel'.outcome = "CLOSED" /\ jobs' = [jobs EXCEPT ![j] = "CANCELLED"]
               \/ cancel'.outcome \in {"ALREADY_TERMINAL", "NOTHING_RUNNING"}
        BY <1>1, <3>1, <3>8 DEF CloseIdleJob, FrameOK, TypeOK, CancelFrame
      <4>2. Idle(j)' BY <3>2, <3>3, <4>1 DEF Idle
      <4>3. cancel'.outcome = "CLOSED" => Shut(j)'
        BY <1>1, <3>2, <4>1, <4>2 DEF Shut, TypeOK
      <4>. QED BY <3>1, <4>1, <4>3 DEF FrameOK, Shut, Idle
    <3>9. CASE MarkCancelled(p)
      <4>1. /\ Shut(j)' /\ cancel'.stage = "family" /\ cancel'.job = cancel.job
        BY <3>1, <3>9, MarkLands DEF Shut, Idle
      <4>. QED BY <3>1, <4>1 DEF FrameOK, Shut, Idle
    <3>10. CASE CheckFamily(p) \/ CloseRoot(p)
      <4>1. /\ Shut(j) /\ cancel'.stage \in {"settle", "closeRoot"} /\ cancel'.job = cancel.job
        BY <1>1, <3>1, <3>10 DEF CheckFamily, CloseRoot, FrameOK, TypeOK, CancelFrame
      <4>. QED BY <3>1, <3>4, <4>1 DEF FrameOK, Shut, Idle
    <3>. QED BY <1>7, <2>4, <3>6, <3>7, <3>8, <3>9, <3>10 DEF CancelJob
  <2>. QED BY <2>2, <2>3, <2>4
<1>. QED BY <1>2, <1>3, <1>4, <1>5, <1>6, <1>7

\* The receipts given so far are true, and the one now given is.
LEMMA ReceiptsStep ==
  ASSUME IInv, RInv, ServerOK, FrameOK, ReceiptsOK, [Next]_vars
  PROVE  ReceiptsOK'
<1>1. \/ outcomes' = outcomes
      \/ /\ outcomes' = outcomes \cup {<<cancel.job, cancel.outcome>>}
         /\ cancel.stage = "settle"
  <2>1. ASSUME NEW p \in Servers, CancelJob(p)
        PROVE  \/ outcomes' = outcomes
               \/ /\ outcomes' = outcomes \cup {<<cancel.job, cancel.outcome>>}
                  /\ cancel.stage = "settle"
    BY <2>1 DEF CancelJob, CancelReadsFamily, RecordIntent, CloseIdleJob, KillChild, MarkCancelled,
       CheckFamily, CloseRoot, SettleCancel, CancelAt
  <2>2. ASSUME NEW c \in AttemptIds, RunJob(c) PROVE outcomes' = outcomes
    BY <2>2, RunJobRows DEF Step, cancelling
  <2>3. (\A p \in Servers : ~CancelJob(p)) /\ (\A c \in AttemptIds : ~RunJob(c)) => outcomes' = outcomes
    BY DEF Next, StartProcess, Crash, Claim, ExecutorCloses, ValidatorCloses, CancelReads, Reconcile,
       cancelling, vars
  <2>. QED BY <2>1, <2>2, <2>3
<1>. SUFFICES ASSUME NEW j \in DirectJobs,
                     <<j, "CLOSED">> \in outcomes' \/ <<j, "CANCELLED">> \in outcomes'
              PROVE  Shut(j)'
  BY DEF ReceiptsOK, Shut, Idle, Of, JobOf
<1>2. \/ <<j, "CLOSED">> \in outcomes \/ <<j, "CANCELLED">> \in outcomes
      \/ /\ cancel.job = j /\ cancel.outcome \in {"CLOSED", "CANCELLED"} /\ cancel.stage = "settle"
  BY <1>1
<1>3. Shut(j) BY <1>2 DEF ReceiptsOK, FrameOK
<1>. QED BY <1>3, ShutStays

\* The receipts given so far, the cancel that is under way and the jobs it has passed.
THEOREM ReceiptsInvariant == Spec => []CInv
<1>1. IInv /\ MInv /\ RInv /\ CInv /\ [Next]_vars => CInv'
  BY ServerStep, FrameStep, ReceiptsStep DEF CInv
<1>. QED BY <1>1, ReceiptsInit, ResultsInvariant, Invariant, Metering, PTL DEF Spec

\* A receipt that says CLOSED or CANCELLED of a direct job is true from then on, whatever
\* was under way when it was given (cancelJob, and the claim's test of the status).
THEOREM Receipts == Spec => []CancelReceiptIsTrue
<1>1. CInv => CancelReceiptIsTrue BY DEF CInv, ReceiptsOK, CancelReceiptIsTrue, Shut
<1>. QED BY <1>1, ReceiptsInvariant, PTL
-----------------------------------------------------------------------------
(* What is said of a direct job (JobBriefing)                                *)

\* A verdict is on the row of a worker that finished; a failed one, given or about to be, is of a check that failed.
VerdictOK(a) ==
  /\ attempts[a].validation \in {"PASSED", "FAILED"} => attempts[a].terminal = "SUCCEEDED"
  /\ attempts[a].validation = "FAILED" => validator[a] = "bad"
  /\ stage[a] = "failing" /\ Validating(a) => validator[a] = "bad"

\* What is live or passed is the last attempt; a cancelled one has shut its job; attention is asked for what was
\* tried; and a job that went over its ceiling has passed its checks.
Latest(j)    == \A a \in Of(j) : Live(a) \/ Passed(a) => a[2] = made[j]
Cancelled(j) == \A a \in Of(j) : attempts[a].terminal = "CANCELLED" => Shut(j)
Attended(j)  == jobs[j] = "NEEDS_ATTENTION" => made[j] > 0
Overspent(j) == j \in exceededEvents => \E a \in Of(j) : Passed(a)

VerdictsOK == \A a \in AttemptIds : VerdictOK(a)
TInv == VerdictsOK /\ \A j \in DirectJobs : Latest(j) /\ Cancelled(j) /\ Attended(j) /\ Overspent(j)

\* A call of runJob gives its attempt a failed verdict only with a failed check.
LEMMA VerdictStep ==
  ASSUME IInv, NEW a \in AttemptIds, VerdictOK(a), RunJob(a)
  PROVE  VerdictOK(a)'
<1>. USE DEF VerdictOK, Validating, At, Goto
<1>1. /\ attempts[a] \in AttemptRow /\ attempts \in [AttemptIds -> AttemptRow] /\ stage \in [AttemptIds -> Stages]
      /\ validator \in [AttemptIds -> Validators]
      /\ Tracked(a) /\ Driven(a) /\ Untouched(a)
  BY DEF IInv, TypeOK, AttemptOK, Driven
<1>0. Validating(a) /\ stage[a] # "idle" => attempts[a].epoch = generation
  BY <1>1 DEF Driven, Live, Untouched
<1>2. CASE WorktreeFails(a) \/ SpawnExecutor(a) \/ JudgeExecutor(a)
  BY <1>1, <1>2 DEF WorktreeFails, SpawnExecutor, JudgeExecutor, Quiet, children, Tracked, Executing
<1>3. CASE IntendExecutor(a) \/ RecordExecutorPid(a) \/ RecordUsage(a)
  <2>1. validator'[a] = validator[a] /\ attempts[a].terminal # "SUCCEEDED"
    BY <1>1, <1>3 DEF IntendExecutor, RecordExecutorPid, RecordUsage, children, Tracked, Executing
  <2>2. attempts'[a].terminal = attempts[a].terminal /\ attempts'[a].validation = attempts[a].validation
    <3>1. CASE attempts' = attempts BY <3>1
    <3>2. CASE Write(a, [attempts[a] EXCEPT !.instruction = TRUE, !.executorIntent = TRUE,
                                            !.executorPid = FALSE, !.intended = TRUE])
      BY <1>1, <3>2 DEF Write, AttemptRow
    <3>3. CASE Write(a, [attempts[a] EXCEPT !.executorPid = TRUE]) BY <1>1, <3>3 DEF Write, AttemptRow
    <3>4. CASE (IntendExecutor(a) /\ ~Accepts(a, "null", "NOT_RUN")) \/ RecordUsage(a)
      BY <1>1, <3>4, FilingStep, FiledRow DEF IInv
    <3>. QED BY <1>3, <3>1, <3>2, <3>3, <3>4 DEF IntendExecutor, RecordExecutorPid
  <2>. QED BY <1>1, <2>1, <2>2
<1>4. CASE ExecutorSucceeded(a)
  <2>1. validator'[a] = validator[a] /\ attempts[a].terminal # "SUCCEEDED"
    BY <1>1, <1>4 DEF ExecutorSucceeded, children, Tracked, Executing
  <2>2. \/ attempts' = attempts
        \/ attempts'[a].validation = "PENDING" /\ stage'[a] = "checking"
    <3>1. CASE attempts' = attempts BY <3>1
    <3>2. CASE /\ Write(a, [attempts[a] EXCEPT !.terminal = "SUCCEEDED", !.validation = "PENDING",
                                              !.executorIntent = FALSE, !.executorPid = FALSE])
               /\ Goto(a, "checking")
      BY <1>1, <3>2 DEF Write, AttemptRow
    <3>. QED BY <1>4, <3>1, <3>2 DEF ExecutorSucceeded
  <2>. QED BY <1>1, <2>1, <2>2
<1>5. CASE IntendCheck(a)
  <2>1. attempts[a].validation \notin {"PASSED", "FAILED"} /\ validator' = validator
    BY <1>1, <1>5 DEF IntendCheck, Tracked, children
  <2>2. CASE ~Accepts(a, "SUCCEEDED", "PENDING") /\ attempts' = attempts
    BY <1>0, <1>1, <1>5, <2>1, <2>2 DEF IntendCheck, Accepts
  <2>3. CASE /\ Write(a, [attempts[a] EXCEPT !.validationIntent = TRUE, !.validationPid = FALSE])
             /\ Goto(a, "checkLaunching")
    BY <1>1, <2>1, <2>3 DEF Write, AttemptRow
  <2>. QED BY <1>5, <2>2, <2>3 DEF IntendCheck
<1>6. CASE SpawnCheck(a)
  BY <1>1, <1>6 DEF SpawnCheck, Quiet, Tracked
<1>7. CASE RecordValidationPid(a)
  BY <1>1, <1>7 DEF RecordValidationPid, Kill, Tracked, Write, AttemptRow, Validators, Executors
<1>8. CASE RecordCheck(a)
  <2>1. attempts[a].validation \notin {"PASSED", "FAILED"} BY <1>1, <1>8 DEF RecordCheck, Tracked
  <2>2. validator' = validator BY <1>8 DEF RecordCheck, children
  <2>3. CASE attempts' = attempts /\ ~(Accepts(a, "SUCCEEDED", "PENDING") /\ attempts[a].validationIntent)
    <3>1. ~Validating(a)
      BY <1>0, <1>1, <1>8, <2>3 DEF RecordCheck, Accepts, Tracked, InCheck
    <3>. QED BY <2>1, <2>3, <3>1
  <2>4. CASE /\ Write(a, [attempts[a] EXCEPT !.validationIntent = FALSE, !.validationPid = FALSE])
             /\ Goto(a, IF stage[a] = "checkOver" THEN "failingUnrun"
                        ELSE IF validator[a] = "bad" THEN "failing" ELSE "checking")
    BY <1>1, <2>1, <2>2, <2>4 DEF Write, AttemptRow
  <2>. QED BY <1>8, <2>3, <2>4 DEF RecordCheck
<1>9. CASE SettleBudget(a)
  BY <1>1, <1>9 DEF SettleBudget, Quiet, children
<1>10. CASE PassValidation(a)
  BY <1>0, <1>1, <1>10 DEF PassValidation, children, Tracked, Accepts, Write, AttemptRow
<1>11. CASE FailAttempt(a)
  <2>1. validator' = validator /\ stage'[a] = "done" /\ attempts[a].validation \notin {"PASSED", "FAILED"}
    BY <1>1, <1>11 DEF FailAttempt, children, Tracked
  <2>2. \/ attempts' = attempts
        \/ attempts[a].terminal = "null" /\ attempts'[a].validation = attempts[a].validation
        \/ Validating(a) /\ attempts'[a].validation = "NOT_RUN"
        \/ /\ stage[a] = "failing" /\ Validating(a)
           /\ attempts'[a].terminal = "SUCCEEDED" /\ attempts'[a].validation = "FAILED"
        \/ stage[a] = "failingSetup" /\ Validating(a)
    <3>1. CASE attempts' = attempts BY <3>1
    <3>2. CASE /\ attempts[a].terminal = "null"
               /\ Write(a, [attempts[a] EXCEPT !.terminal = "FAILED", !.executorIntent = FALSE, !.executorPid = FALSE])
      <4>1. attempts'[a].validation = attempts[a].validation BY <1>1, <3>2 DEF Write, AttemptRow
      <4>. QED BY <3>2, <4>1
    <3>3. CASE Validating(a) /\ \E v \in {"NOT_RUN", "FAILED"} :
                 /\ Write(a, [attempts[a] EXCEPT !.validation = v])
                 /\ v = IF stage[a] = "failingUnrun" THEN "NOT_RUN" ELSE "FAILED"
      <4>1. PICK v \in {"NOT_RUN", "FAILED"} :
              /\ attempts'[a].validation = v /\ attempts'[a].terminal = attempts[a].terminal
              /\ v = IF stage[a] = "failingUnrun" THEN "NOT_RUN" ELSE "FAILED"
        BY <1>1, <3>3 DEF Write, AttemptRow
      <4>2. stage[a] \in {"failingSetup", "failing", "failingUnrun"} BY <1>11 DEF FailAttempt
      <4>. QED BY <3>3, <4>1, <4>2
    <3>. QED BY <1>11, <3>1, <3>2, <3>3 DEF FailAttempt
  <2>3. ~(stage[a] = "failingSetup" /\ Validating(a)) BY <1>1 DEF Tracked, Executing
  <2>. QED BY <1>1, <2>1, <2>2, <2>3
<1>. QED BY <1>2, <1>3, <1>4, <1>5, <1>6, <1>7, <1>8, <1>9, <1>10, <1>11 DEF RunJob

\* No other step gives or changes a verdict, or turns a check that failed into one that did not.
LEMMA VerdictsStep ==
  ASSUME IInv, VerdictsOK, [Next]_vars
  PROVE  VerdictsOK'
<1>. SUFFICES ASSUME NEW a \in AttemptIds PROVE VerdictOK(a)' BY DEF VerdictsOK
<1>. USE DEF VerdictOK, Validating
<1>1. /\ VerdictOK(a) /\ attempts[a] \in AttemptRow /\ attempts \in [AttemptIds -> AttemptRow]
      /\ stage \in [AttemptIds -> Stages] /\ validator \in [AttemptIds -> Validators] /\ AttemptOK(a)
  BY DEF IInv, TypeOK, VerdictsOK
<1>2. ASSUME NEW c \in AttemptIds, RunJob(c) PROVE VerdictOK(a)'
  <2>1. CASE c = a BY <1>1, <1>2, <2>1, VerdictStep
  <2>2. CASE c # a
    <3>1. attempts'[a] = attempts[a] /\ stage'[a] = stage[a] /\ validator'[a] = validator[a]
      BY <1>2, <2>2, RunJobRows
    <3>. QED BY <1>1, <3>1
  <2>. QED BY <2>1, <2>2
<1>3. ASSUME NEW p \in Procs, StartProcess(p) \/ Crash(p) PROVE VerdictOK(a)'
  BY <1>1, <1>3 DEF StartProcess, Crash, ledger, frames, children
<1>4. ASSUME NEW c \in AttemptIds, ExecutorCloses(c) \/ ValidatorCloses(c) PROVE VerdictOK(a)'
  BY <1>1, <1>4 DEF ExecutorCloses, ValidatorCloses, Close, ledger, frames
<1>5. ASSUME NEW p \in Procs, NEW j \in DirectJobs \cup Explorations, Claim(p, j) PROVE VerdictOK(a)'
  <2>1. PICK new : new = <<j, made[j] + 1>> OBVIOUS
  <2>2. new \in AttemptIds /\ ~Exists(new) /\ validator' = validator BY <1>5, <2>1, ClaimStep DEF Claim, children
  <2>3. CASE a = new
    <3>1. attempts[a].validation = "NOT_RUN" /\ attempts[a].terminal = "null"
      BY <1>1, <2>2, <2>3 DEF AttemptOK, Untouched, Blank
    <3>2. PICK g \in Grants(j) : Write(a, [attempts[a] EXCEPT !.scheduler = p, !.epoch = generation, !.reservation = g])
      BY <1>5, <2>1, <2>3 DEF Claim
    <3>. QED BY <1>1, <3>1, <3>2 DEF Write, AttemptRow
  <2>4. CASE a # new
    <3>1. attempts'[a] = attempts[a] BY <1>5, <2>1, <2>4, ClaimStep
    <3>2. stage'[a] = stage[a] BY <1>1, <1>5, <2>1, <2>4 DEF Claim, Goto
    <3>. QED BY <1>1, <2>2, <3>1, <3>2
  <2>. QED BY <2>3, <2>4
<1>6. ASSUME NEW p \in Servers, NEW j \in Jobs, CancelReads(p, j) PROVE VerdictOK(a)'
  BY <1>1, <1>6 DEF CancelReads, ledger, frames, children
<1>7. ASSUME NEW p \in Servers, CancelJob(p) PROVE VerdictOK(a)'
  <2>1. stage' = stage BY <1>7 DEF CancelJob, CancelReadsFamily, RecordIntent, CloseIdleJob, KillChild, MarkCancelled,
          CheckFamily,
          CloseRoot, SettleCancel, CancelStep, frames
  <2>2. CASE KillChild(p)
    BY <1>1, <2>1, <2>2 DEF KillChild, Kill, Validators, Executors
  <2>3. CASE MarkCancelled(p)
    <3>1. validator' = validator BY <2>3 DEF MarkCancelled
    <3>2. CASE attempts'[a] = attempts[a] BY <1>1, <2>1, <3>1, <3>2
    <3>3. CASE attempts'[a] # attempts[a]
      <4>0. PICK c \in AttemptIds : c = cancel.current
        BY <2>3 DEF IInv, CancelOK, MarkCancelled, CancelAt
      <4>3. c = a BY <1>1, <2>3, <3>3, <4>0 DEF MarkCancelled, Write
      <4>1. \/ attempts[a].terminal = "null" /\ attempts'[a].validation = attempts[a].validation
            \/ attempts'[a].validation = "NOT_RUN"
        <5>1. CASE Write(a, [attempts[a] EXCEPT !.validation = "NOT_RUN", !.validationIntent = FALSE,
                                                !.validationPid = FALSE])
          BY <1>1, <5>1 DEF Write, AttemptRow
        <5>2. CASE /\ attempts[a].terminal = "null"
                   /\ Write(a, [attempts[a] EXCEPT !.terminal = "CANCELLED", !.executorIntent = FALSE,
                                                   !.executorPid = FALSE])
          BY <1>1, <5>2 DEF Write, AttemptRow
        <5>. QED BY <2>3, <3>3, <4>0, <4>3, <5>1, <5>2 DEF MarkCancelled
      <4>2. attempts'[a].validation = "NOT_RUN" BY <1>1, <4>1 DEF AttemptOK, Tracked
      <4>. QED BY <4>2
    <3>. QED BY <3>2, <3>3
  <2>4. CASE attempts' = attempts /\ validator' = validator BY <1>1, <2>1, <2>4
  <2>. QED BY <1>7, <2>2, <2>3, <2>4 DEF CancelJob, CancelReadsFamily, RecordIntent, CloseIdleJob, CheckFamily,
              CloseRoot, SettleCancel
<1>8. ASSUME NEW p \in Servers, Reconcile(p) PROVE VerdictOK(a)'
  <2>1. stage' = stage /\ validator' = validator BY <1>8 DEF Reconcile, frames, children
  <2>2. CASE attempts'[a] = attempts[a] BY <1>1, <2>1, <2>2
  <2>3. CASE attempts'[a] # attempts[a]
    <3>1. \/ attempts[a].terminal = "null" /\ attempts'[a].validation = attempts[a].validation
          \/ attempts'[a].validation = "NOT_RUN"
      BY <1>1, <1>8, <2>3 DEF Reconcile, Live, AttemptRow
    <3>2. attempts'[a].validation = "NOT_RUN" BY <1>1, <3>1 DEF AttemptOK, Tracked
    <3>. QED BY <3>2
  <2>. QED BY <2>2, <2>3
<1>9. CASE UNCHANGED vars BY <1>1, <1>9 DEF vars
<1>. QED BY <1>2, <1>3, <1>4, <1>5, <1>6, <1>7, <1>8, <1>9 DEF Next

\* An attempt is cancelled only while it is live, by a cancel that ends it and its job and nothing else.
LEMMA NewlyCancelled ==
  ASSUME IInv, [Next]_vars, NEW a \in AttemptIds,
         attempts[a].terminal # "CANCELLED", attempts'[a].terminal = "CANCELLED"
  PROVE  Ends(a) /\ jobs'[JobOf(a)] = "CANCELLED"
<1>1. /\ TypeOK /\ AttemptOK(a) /\ attempts[a] \in AttemptRow /\ attempts \in [AttemptIds -> AttemptRow]
      /\ jobs \in [Jobs -> JobStatus] /\ JobOf(a) \in Jobs
  BY AttemptIdsType DEF IInv, TypeOK
<1>2. attempts' # attempts OBVIOUS
<1>3. ASSUME NEW p \in Servers, MarkCancelled(p) PROVE Ends(a) /\ jobs'[JobOf(a)] = "CANCELLED"
  <2>1. PICK c \in AttemptIds : c = cancel.current BY <1>3 DEF IInv, CancelOK, MarkCancelled, CancelAt
  <2>2. c = a BY <1>1, <1>3, <2>1 DEF MarkCancelled, Write
  <2>3. jobs'[JobOf(a)] = "CANCELLED" BY <1>1, <1>2, <1>3, <2>1, <2>2 DEF MarkCancelled
  <2>4. Live(a)
    BY <1>1, <1>2, <1>3, <2>1, <2>2 DEF MarkCancelled, CancelAt, IInv, CancelOK, Live
  <2>5. ~Live(a)' BY DEF Live, Validating
  <2>6. Ends(a) BY <1>3, <2>1, <2>2, <2>4, <2>5, CancelEffect DEF CancelJob, Quiescent, Closes
  <2>. QED BY <2>3, <2>6
<1>4. ASSUME NEW c \in AttemptIds, RunJob(c) PROVE attempts'[a].terminal # "CANCELLED"
  <2>1. CASE c # a BY <1>4, <2>1, RunJobRows
  <2>2. CASE c = a
    <3>. DEFINE Row == attempts[a]
    <3>1. CASE attempts' = attempts BY <3>1
    <3>2. CASE ExecutorSucceeded(a) /\ Write(a, [Row EXCEPT !.terminal = "SUCCEEDED", !.validation = "PENDING",
                                                           !.executorIntent = FALSE, !.executorPid = FALSE])
      BY <1>1, <3>2 DEF Write, AttemptRow
    <3>3. CASE Write(a, [Row EXCEPT !.terminal = "FAILED", !.executorIntent = FALSE, !.executorPid = FALSE])
      BY <1>1, <3>3 DEF Write, AttemptRow
    <3>4. CASE \/ Write(a, [Row EXCEPT !.instruction = TRUE, !.executorIntent = TRUE,
                              !.executorPid = FALSE, !.intended = TRUE])
               \/ Write(a, [Row EXCEPT !.executorPid = TRUE])
               \/ Write(a, [Row EXCEPT !.validationIntent = TRUE, !.validationPid = FALSE])
               \/ Write(a, [Row EXCEPT !.validationPid = TRUE])
               \/ Write(a, [Row EXCEPT !.validationIntent = FALSE, !.validationPid = FALSE])
               \/ \E v \in Validation : Write(a, [Row EXCEPT !.validation = v])
      <4>1. CASE Write(a, [Row EXCEPT !.instruction = TRUE, !.executorIntent = TRUE,
                              !.executorPid = FALSE, !.intended = TRUE])
        BY <1>1, <4>1 DEF Write, AttemptRow
      <4>2. CASE Write(a, [Row EXCEPT !.executorPid = TRUE])
        BY <1>1, <4>2 DEF Write, AttemptRow
      <4>3. CASE Write(a, [Row EXCEPT !.validationIntent = TRUE, !.validationPid = FALSE])
        BY <1>1, <4>3 DEF Write, AttemptRow
      <4>4. CASE Write(a, [Row EXCEPT !.validationPid = TRUE])
        BY <1>1, <4>4 DEF Write, AttemptRow
      <4>5. CASE Write(a, [Row EXCEPT !.validationIntent = FALSE, !.validationPid = FALSE])
        BY <1>1, <4>5 DEF Write, AttemptRow
      <4>6. CASE \E v \in Validation : Write(a, [Row EXCEPT !.validation = v])
        BY <1>1, <4>6 DEF Write, AttemptRow
      <4>. QED BY <3>4, <4>1, <4>2, <4>3, <4>4, <4>5, <4>6
    <3>5. CASE FailAttempt(a) BY <1>1, <3>1, <3>3, <3>4, <3>5 DEF FailAttempt, Validation
    <3>10. CASE (IntendExecutor(a) /\ ~Accepts(a, "null", "NOT_RUN")) \/ RecordUsage(a)
      BY <1>1, <3>10, FilingStep, FiledRow
    <3>6. CASE IntendExecutor(a) \/ RecordExecutorPid(a) \/ ExecutorSucceeded(a)
      BY <3>1, <3>2, <3>4, <3>6, <3>10 DEF IntendExecutor, RecordExecutorPid, ExecutorSucceeded
    <3>7. CASE IntendCheck(a) \/ RecordValidationPid(a) \/ RecordCheck(a) \/ PassValidation(a)
      BY <3>1, <3>4, <3>7 DEF IntendCheck, RecordValidationPid, RecordCheck, PassValidation, Validation
    <3>8. CASE WorktreeFails(a) \/ SpawnExecutor(a) \/ JudgeExecutor(a) \/ SpawnCheck(a) \/ SettleBudget(a)
      BY <3>1, <3>8 DEF WorktreeFails, SpawnExecutor, JudgeExecutor, SpawnCheck, SettleBudget, Quiet
    <3>9. RunJob(a) BY <1>4, <2>2
    <3>. QED BY <3>10, <3>5, <3>6, <3>7, <3>8, <3>9 DEF RunJob
  <2>. QED BY <2>1, <2>2
<1>5. ASSUME NEW p \in Procs, NEW j \in DirectJobs \cup Explorations, Claim(p, j)
      PROVE  attempts'[a].terminal # "CANCELLED"
  <2>1. PICK c, g : Write(c, [attempts[c] EXCEPT !.scheduler = p, !.epoch = generation, !.reservation = g])
    BY <1>5 DEF Claim
  <2>2. CASE c # a BY <1>1, <2>1, <2>2 DEF Write
  <2>3. CASE c = a BY <1>1, <2>1, <2>3 DEF Write, AttemptRow
  <2>. QED BY <2>2, <2>3
<1>6. ASSUME NEW p \in Servers, Reconcile(p) PROVE attempts'[a].terminal # "CANCELLED"
  BY <1>1, <1>6 DEF Reconcile, AttemptRow
<1>7. ASSUME NEW p \in Servers, CancelJob(p), ~MarkCancelled(p) PROVE FALSE
  BY <1>2, <1>7 DEF CancelJob, CancelReadsFamily, RecordIntent, CloseIdleJob, KillChild, CheckFamily, CloseRoot,
              SettleCancel
<1>8. ASSUME \/ \E p \in Procs : StartProcess(p) \/ Crash(p)
             \/ \E c \in AttemptIds : ExecutorCloses(c) \/ ValidatorCloses(c)
             \/ \E p \in Servers, j \in Jobs : CancelReads(p, j)
             \/ UNCHANGED vars
      PROVE  FALSE
  BY <1>2, <1>8 DEF StartProcess, Crash, ExecutorCloses, ValidatorCloses, CancelReads, ledger, vars
<1>. QED BY <1>3, <1>4, <1>5, <1>6, <1>7, <1>8 DEF Next

\* A claim takes no direct job that something is live of, or that passed.
LEMMA ClaimedIsOpen ==
  ASSUME RInv, NEW p \in Procs, NEW j \in DirectJobs, Claim(p, j), NEW a \in Of(j)
  PROVE  ~Live(a) /\ ~Passed(a)
<1>1. j \in Jobs /\ JobOK(j) /\ a \in AttemptIds /\ JobOf(a) = j BY DEF RInv, Jobs, Of
<1>2. ~Live(a)
  <2>1. j \notin Explorations BY JobsAssumption DEF Roots
  <2>. QED BY <1>1, <2>1 DEF Claim, Admissible, Siblings, LiveAttempts
<1>3. ~Blocked(RootOf(j)) BY <1>1, BlockedGrantsNothing DEF Claim
<1>4. jobs[j] \in {"PENDING", "NEEDS_ATTENTION"} BY DEF Claim, Claimable
<1>. QED BY <1>1, <1>2, <1>3, <1>4 DEF JobOK

\* Rows are only added, and what passed stays so.
LEMMA RowsStay ==
  ASSUME IInv, [Next]_vars, NEW j \in Jobs
  PROVE  /\ made[j] \in Nat /\ made'[j] \in Nat /\ made[j] <= made'[j]
         /\ \A a \in Of(j) : Passed(a) => Passed(a)'
         /\ (\A p \in Procs : ~Claim(p, j)) => made'[j] = made[j]
<1>1. TypeOK /\ \A a \in AttemptIds : AttemptOK(a) BY DEF IInv
<1>2. \A a \in AttemptIds : Passed(a) => Exists(a) /\ ~Live(a)
  BY <1>1 DEF AttemptOK, Tracked, Untouched, Blank, Passed, Live, Validating
<1>3. \A a \in Of(j) : Passed(a) => Passed(a)'
  BY <1>1, <1>2, NextStep, FiledRow DEF TypeOK, Stands, Of, Passed
<1>4. ASSUME NEW p \in Procs, NEW k \in DirectJobs \cup Explorations, Claim(p, k)
      PROVE  made'[j] = IF k = j THEN made[j] + 1 ELSE made[j]
  BY <1>1, <1>4 DEF Claim, TypeOK, Jobs
<1>5. ASSUME \A p \in Procs, k \in DirectJobs \cup Explorations : ~Claim(p, k) PROVE made' = made
  <2>1. ASSUME NEW c \in AttemptIds, RunJob(c) PROVE made' = made BY <2>1, RunJobRows DEF Step
  <2>2. ASSUME NEW p \in Servers, CancelJob(p) \/ \E k \in Jobs : CancelReads(p, k) PROVE made' = made
    BY <2>2, CancelStepLemma
  <2>3. ASSUME \/ \E p \in Procs : StartProcess(p) \/ Crash(p)
               \/ \E c \in AttemptIds : ExecutorCloses(c) \/ ValidatorCloses(c)
               \/ \E p \in Servers : Reconcile(p)
               \/ UNCHANGED vars
        PROVE  made' = made
    BY <2>3 DEF StartProcess, Crash, ExecutorCloses, ValidatorCloses, Reconcile, ledger, vars
  <2>. QED BY <1>5, <2>1, <2>2, <2>3 DEF Next
<1>6. made[j] \in Nat BY <1>1 DEF TypeOK
<1>. QED BY <1>3, <1>4, <1>5, <1>6

\* What is live or passed stays the last attempt of its job.
LEMMA LatestStep ==
  ASSUME IInv, RInv, [Next]_vars, NEW j \in DirectJobs, Latest(j)
  PROVE  Latest(j)'
<1>1. j \in Jobs /\ Of(j)' = Of(j) /\ Of(j) \subseteq AttemptIds /\ TypeOK BY DEF Jobs, Of, IInv
<1>. SUFFICES ASSUME NEW a \in Of(j), Live(a)' \/ Passed(a)' PROVE a[2] = made'[j] BY <1>1 DEF Latest
<1>2. ASSUME NEW p \in Procs, Claim(p, j) PROVE a[2] = made'[j]
  <2>1. PICK new : new = <<j, made[j] + 1>> OBVIOUS
  <2>2. ~Live(a) /\ ~Passed(a) BY <1>2, ClaimedIsOpen
  <2>3. a = new
    <3>1. ASSUME a # new PROVE attempts'[a] = attempts[a] /\ (Exists(a)' <=> Exists(a))
      BY <1>1, <1>2, <2>1, <3>1, ClaimStep
    <3>. QED BY <2>2, <3>1 DEF Live, Validating, Passed
  <2>4. made'[j] = made[j] + 1 BY <1>1, <1>2 DEF Claim, TypeOK
  <2>. QED BY <2>1, <2>3, <2>4
<1>3. CASE \A p \in Procs : ~Claim(p, j)
  <2>1. made'[j] = made[j] BY <1>1, <1>3, RowsStay
  <2>2. Live(a) \/ Passed(a)
    <3>1. ASSUME NEW p \in Procs, NEW k \in DirectJobs \cup Explorations, Claim(p, k) PROVE Live(a) \/ Passed(a)
      <4>1. PICK new : new = <<k, made[k] + 1>> OBVIOUS
      <4>2. a # new BY <1>3, <3>1, <4>1 DEF Of, JobOf
      <4>3. attempts'[a] = attempts[a] /\ (Exists(a)' <=> Exists(a)) BY <1>1, <3>1, <4>1, <4>2, ClaimStep
      <4>. QED BY <4>3 DEF Live, Validating, Passed
    <3>. QED BY <1>1, <3>1, NextEffect DEF Quiescent, Ends, Closes, AllEnd
  <2>. QED BY <1>1, <2>1, <2>2 DEF Latest
<1>. QED BY <1>2, <1>3

\* A cancelled attempt has shut its job, which stays shut.
LEMMA CancelledStep ==
  ASSUME IInv, RInv, [Next]_vars, NEW j \in DirectJobs, Cancelled(j)
  PROVE  Cancelled(j)'
<1>1. Of(j)' = Of(j) /\ Of(j) \subseteq AttemptIds /\ JobOK(j) BY DEF Of, RInv
<1>. SUFFICES ASSUME NEW a \in Of(j), attempts'[a].terminal = "CANCELLED" PROVE Shut(j)' BY <1>1 DEF Cancelled
<1>2. CASE attempts[a].terminal = "CANCELLED" BY <1>2, ShutStays DEF Cancelled
<1>3. CASE attempts[a].terminal # "CANCELLED"
  <2>1. Ends(a) /\ jobs'[j] = "CANCELLED" BY <1>1, <1>3, NewlyCancelled DEF Of
  <2>2. \A b \in Of(j) : ~Live(b)' BY <1>1, <2>1 DEF Ends, Quiescent, JobOK
  <2>. QED BY <1>1, <2>1, <2>2 DEF Shut, Idle
<1>. QED BY <1>2, <1>3

\* Attention is asked for what an attempt left.
LEMMA AttendedStep ==
  ASSUME IInv, [Next]_vars, NEW j \in DirectJobs, Attended(j)
  PROVE  Attended(j)'
<1>1. j \in Jobs /\ TypeOK /\ made[j] \in Nat /\ made'[j] \in Nat /\ made[j] <= made'[j] BY RowsStay DEF Jobs, IInv
<1>. SUFFICES ASSUME jobs'[j] = "NEEDS_ATTENTION" PROVE made[j] > 0 \/ made'[j] > 0
  BY <1>1 DEF Attended
<1>2. \A a \in AttemptIds : Live(a) /\ JobOf(a) = j => made[j] > 0
  BY <1>1, AttemptIdsType DEF Live, Exists
<1>3. ASSUME NEW p \in Procs, NEW k \in DirectJobs \cup Explorations, Claim(p, k) PROVE jobs[j] = "NEEDS_ATTENTION"
  BY <1>1, <1>3 DEF Claim, TypeOK
<1>4. ASSUME NEW a \in AttemptIds, Ends(a) PROVE jobs[j] = "NEEDS_ATTENTION" \/ made[j] > 0
  BY <1>1, <1>2, <1>4 DEF Ends, TypeOK
<1>5. ASSUME NEW k \in Jobs, Closes(k) PROVE jobs[j] = "NEEDS_ATTENTION" BY <1>1, <1>5 DEF Closes, TypeOK
<1>6. ASSUME AllEnd PROVE jobs[j] = "NEEDS_ATTENTION" \/ made[j] > 0 BY <1>1, <1>2, <1>6 DEF AllEnd, LiveAttempts
<1>7. jobs[j] = "NEEDS_ATTENTION" \/ made[j] > 0 BY <1>3, <1>4, <1>5, <1>6, NextEffect
<1>. QED BY <1>1, <1>7 DEF Attended

\* A job goes over its ceiling when its checks have passed.
LEMMA OverspentJobStep ==
  ASSUME IInv, [BriefingNext]_briefingVars, NEW j \in DirectJobs, Overspent(j)
  PROVE  Overspent(j)'
<1>1. [Next]_vars BY DEF BriefingNext, briefingVars, vars
<1>2. j \in Jobs /\ Of(j)' = Of(j) BY DEF Jobs, Of
<1>3. CASE j \in exceededEvents BY <1>1, <1>2, <1>3, RowsStay DEF Overspent
<1>4. CASE j \notin exceededEvents /\ j \in exceededEvents'
  <2>1. PICK a \in AttemptIds : JobOf(a) = j /\ Overspends(a) BY <1>4 DEF BriefingNext, briefingVars
  <2>. QED BY <1>2, <2>1 DEF Overspends, Passed, Of, Overspent
<1>. QED BY <1>3, <1>4 DEF Overspent

\* A new ledger has nothing to tell.
LEMMA ToldInit == BriefingInit => TInv
<1>. SUFFICES ASSUME BriefingInit PROVE TInv OBVIOUS
<1>1. \A a \in AttemptIds : ~Exists(a) BY AttemptIdsType DEF BriefingInit, Init, Exists
<1>. QED
  BY <1>1 DEF BriefingInit, Init, Blank, TInv, VerdictsOK, VerdictOK, Validating, Latest, Cancelled, Attended,
     Overspent, Of, Live, Passed, Jobs

\* What is told of direct jobs is kept up by every step.
LEMMA ToldStep ==
  ASSUME IInv, RInv, TInv, [BriefingNext]_briefingVars
  PROVE  TInv'
<1>1. [Next]_vars BY DEF BriefingNext, briefingVars, vars
<1>. QED BY <1>1, VerdictsStep, LatestStep, CancelledStep, AttendedStep, OverspentJobStep DEF TInv

\* The rows and the statuses bear out what is told of a job.
LEMMA ToldTrue ==
  ASSUME IInv, RInv, TInv
  PROVE  ToldAsItWas
<1>. SUFFICES ASSUME NEW j \in DirectJobs
              PROVE  /\ jobs[j] = "NEEDS_ATTENTION" => Told(j).asks
                     /\ Told(j).state = "budget-exceeded" =>
                          /\ attempts[Last(j)].validation = "PASSED"
                          /\ \A a \in LiveAttempts : JobOf(a) # j
                     /\ Told(j).state = "validation-failed" => validator[Last(j)] = "bad"
                     /\ Told(j).state = "validation-interrupted" => ~Live(Last(j))
                     /\ Told(j).state \in {"worker-failed", "exhausted", "retrying"} =>
                          \A n \in 1..made[j] : attempts[<<j, n>>].validation # "PASSED"
  BY DEF ToldAsItWas, AttentionAsks, ExceededIsIntact, VerdictIsReal, FailureIsReal, ReadyToCheck
<1>1. /\ TypeOK /\ j \in Jobs /\ JobOK(j) /\ Latest(j) /\ Cancelled(j) /\ Attended(j) /\ Overspent(j)
      /\ jobs[j] \in JobStatus /\ made[j] \in Nat /\ made[j] <= MaxAttempts[j] /\ MaxAttempts[j] \in Nat
  BY JobsAssumption DEF IInv, RInv, TInv, TypeOK, Jobs
<1>2. CASE made[j] = 0
  BY <1>1, <1>2 DEF Told, Outcome, Say, Attended
<1>3. CASE made[j] # 0
  <2>1. PICK a : a = Last(j) OBVIOUS
  <2>2. \A n \in 1..made[j] : <<j, n>> \in Of(j) /\ <<j, n>>[2] = n
    BY <1>1 DEF AttemptIds, JobOf, Of
  <2>3. a \in Of(j) /\ a \in AttemptIds /\ a[2] = made[j] /\ attempts[a] \in AttemptRow
    BY <1>1, <1>3, <2>1, <2>2 DEF Last, Of, TypeOK
  <2>4. PICK row \in AttemptRow : row = attempts[a] BY <2>3
  <2>5. PICK o : o = ObstacleTo(j) OBVIOUS
  <2>6. Told(j) = Outcome(jobs[j], made[j], row, o) BY <1>3, <2>1, <2>4, <2>5 DEF Told
  <2>7. \A b \in Of(j) : Live(b) \/ Passed(b) => b = a
    BY <1>1, <2>3, AttemptIdsType DEF Latest, Of
  <2>8. o \in {"none", "budget-exceeded", "budget-unverifiable", "budget-reached"}
        /\ (o = "budget-exceeded" => j \in exceededEvents)
    BY <2>5 DEF ObstacleTo, Obstacle
  <2>9. row.terminal = "CANCELLED" => jobs[j] = "CANCELLED" BY <1>1, <2>3, <2>4 DEF Cancelled, Shut
  <2>10. jobs[j] = "NEEDS_ATTENTION" => Told(j).asks
    <3>1. CASE jobs[j] # "NEEDS_ATTENTION" BY <3>1
    <3>2. CASE jobs[j] = "NEEDS_ATTENTION"
      <4>1. row.terminal # "CANCELLED" BY <2>9, <3>2
      <4>2. \E state : Told(j) = Say(state, TRUE) BY <1>3, <2>6, <3>2, <4>1 DEF Outcome, Stuck
      <4>. QED BY <4>2 DEF Say
    <3>. QED BY <3>1, <3>2
  <2>11. ASSUME Told(j).state = "budget-exceeded"
         PROVE  attempts[a].validation = "PASSED" /\ \A b \in LiveAttempts : JobOf(b) # j
    <3>1. o = "budget-exceeded" BY <1>1, <2>6, <2>8, <2>11 DEF Outcome, Say, Stuck, JobStatus
    <3>2. PICK b \in Of(j) : Passed(b) BY <1>1, <2>8, <3>1 DEF Overspent
    <3>. QED BY <1>1, <2>7, <3>2 DEF Passed, JobOK, LiveAttempts, Of
  <2>12. Told(j).state = "validation-failed" => validator[a] = "bad"
    <3>1. Told(j).state = "validation-failed" => row.validation = "FAILED"
      BY <1>1, <2>6, <2>8 DEF Outcome, Say, Stuck, JobStatus
    <3>. QED BY <2>3, <2>4, <3>1 DEF TInv, VerdictsOK, VerdictOK
  <2>13. Told(j).state = "validation-interrupted" => ~Live(a)
    <3>1. Told(j).state = "validation-interrupted" => row.terminal = "SUCCEEDED" /\ row.validation = "NOT_RUN"
      BY <1>1, <2>6, <2>8 DEF Outcome, Say, Stuck, JobStatus
    <3>. QED BY <2>4, <3>1 DEF Live, Validating
  <2>14. ASSUME NEW n \in 1..made[j], attempts[<<j, n>>].validation = "PASSED"
         PROVE  Told(j).state \notin {"worker-failed", "exhausted", "retrying"}
    <3>1. Passed(a) BY <2>2, <2>7, <2>14 DEF Passed
    <3>2. row.validation = "PASSED" /\ row.terminal = "SUCCEEDED"
      BY <2>3, <2>4, <3>1 DEF Passed, TInv, VerdictsOK, VerdictOK
    <3>3. \/ jobs[j] \in {"READY_FOR_INTEGRATION", "SUCCEEDED", "CANCELLED"}
          \/ jobs[j] = "NEEDS_ATTENTION" /\ Blocked(RootOf(j))
      BY <1>1, <2>3, <3>1 DEF JobOK
    <3>4. Blocked(RootOf(j)) => o # "none" BY <2>5 DEF Blocked, ObstacleTo, Obstacle
    <3>. QED BY <1>1, <1>3, <2>6, <2>8, <3>2, <3>3, <3>4 DEF Outcome, Say, Stuck
  <2>. QED BY <2>1, <2>10, <2>11, <2>12, <2>13, <2>14
<1>. QED BY <1>2, <1>3

\* jobOutcome and budgetObstacle: what the operator is told of a direct job, and asked to do about it, is what happened
\* to its attempts and children, whatever ran, failed, was cancelled or recovered before.
THEOREM ToldAsItHappened == BriefingSpec => []ToldAsItWas
<1>1. BriefingSpec => Spec
  <2>1. BriefingInit => Init BY DEF BriefingInit
  <2>2. [BriefingNext]_briefingVars => [Next]_vars BY DEF BriefingNext, briefingVars, vars
  <2>. QED BY <2>1, <2>2, PTL DEF BriefingSpec, Spec
<1>2. IInv /\ RInv /\ TInv /\ [BriefingNext]_briefingVars => TInv' BY ToldStep
<1>3. IInv /\ RInv /\ TInv => ToldAsItWas BY ToldTrue
<1>. QED BY <1>1, <1>2, <1>3, ToldInit, Invariant, ResultsInvariant, PTL DEF BriefingSpec
=============================================================================
