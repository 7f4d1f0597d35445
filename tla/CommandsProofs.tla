--------------------------- MODULE CommandsProofs ---------------------------
(***************************************************************************)
(* Proofs about Commands, for every value of its constants: what is proved  *)
(* of the request ledger and of work proposals holds of the behaviours that *)
(* Commands composes of them, and what a restore promises is proved here.   *)
(* Each component does the steps of its own specification or none, and      *)
(* which component is exercised never changes.                              *)
(***************************************************************************)
EXTENDS Commands, TLAPS

\* The same instances, with what is proved of each.
RetriedP  == INSTANCE ControlRequestsProofs WITH Restore <- None, Crashing <- TRUE, Failing <- TRUE
RestoredP == INSTANCE ControlRequestsProofs WITH
    Bindings <- {Plain, Restoring}, Restore <- Restoring, Crashing <- TRUE, Failing <- FALSE
ProposedP == INSTANCE WorkProposalsProofs WITH Requests <- Calls

\* The assumptions of the components are those of the instances.
LEMMA Assumptions ==
  RetriedP!RequestsAssumption /\ RestoredP!RequestsAssumption /\ ProposedP!WorkAssumption
BY CommandsAssumption
   DEF CommandsAssumption, Retried!RequestsAssumption, RetriedP!RequestsAssumption, Restored!RequestsAssumption,
       RestoredP!RequestsAssumption, Proposed!WorkAssumption, ProposedP!WorkAssumption
-----------------------------------------------------------------------------
(* The steps of an instance, with and without its proofs, are the same.      *)

\* ControlRequests without a restore.
LEMMA RetriedSteps == Retried!Next <=> RetriedP!Next
BY DEF Retried!ledger, RetriedP!ledger, Retried!Terminal, RetriedP!Terminal, Retried!At, RetriedP!At,
       Retried!Answered, RetriedP!Answered, Retried!Claimable, RetriedP!Claimable, Retried!Received,
       RetriedP!Received, Retried!Execute, RetriedP!Execute, Retried!Reply, RetriedP!Reply, Retried!Mutate,
       RetriedP!Mutate, Retried!MutateClosed, RetriedP!MutateClosed, Retried!Effect, RetriedP!Effect,
       Retried!Reinstated, RetriedP!Reinstated, Retried!Recordable, RetriedP!Recordable, Retried!Record,
       RetriedP!Record, Retried!RecordFails, RetriedP!RecordFails, Retried!Finish, RetriedP!Finish,
       Retried!CommandEnds, RetriedP!CommandEnds, Retried!WaitFinds, RetriedP!WaitFinds, Retried!WaitSleeps,
       RetriedP!WaitSleeps, Retried!WaitThrows, RetriedP!WaitThrows, Retried!WaitEnds, RetriedP!WaitEnds,
       Retried!TakeBackup, RetriedP!TakeBackup, Retried!RestoreCloses, RetriedP!RestoreCloses,
       Retried!RestoreReplaces, RetriedP!RestoreReplaces, Retried!Reopens, RetriedP!Reopens,
       Retried!RestoreEnds, RetriedP!RestoreEnds, Retried!Crash, RetriedP!Crash, Retried!Restart,
       RetriedP!Restart, Retried!Serve, RetriedP!Serve, Retried!Next, RetriedP!Next

\* ControlRequests with one.
LEMMA RestoredSteps == Restored!Next <=> RestoredP!Next
BY DEF Restored!ledger, RestoredP!ledger, Restored!Terminal, RestoredP!Terminal, Restored!At, RestoredP!At,
       Restored!Answered, RestoredP!Answered, Restored!Claimable, RestoredP!Claimable, Restored!Received,
       RestoredP!Received, Restored!Execute, RestoredP!Execute, Restored!Reply, RestoredP!Reply,
       Restored!Mutate, RestoredP!Mutate, Restored!MutateClosed, RestoredP!MutateClosed, Restored!Effect,
       RestoredP!Effect, Restored!Reinstated, RestoredP!Reinstated, Restored!Recordable, RestoredP!Recordable,
       Restored!Record, RestoredP!Record, Restored!RecordFails, RestoredP!RecordFails, Restored!Finish,
       RestoredP!Finish, Restored!CommandEnds, RestoredP!CommandEnds, Restored!WaitFinds, RestoredP!WaitFinds,
       Restored!WaitSleeps, RestoredP!WaitSleeps, Restored!WaitThrows, RestoredP!WaitThrows, Restored!WaitEnds,
       RestoredP!WaitEnds, Restored!TakeBackup, RestoredP!TakeBackup, Restored!RestoreCloses,
       RestoredP!RestoreCloses, Restored!RestoreReplaces, RestoredP!RestoreReplaces, Restored!Reopens,
       RestoredP!Reopens, Restored!RestoreEnds, RestoredP!RestoreEnds, Restored!Crash, RestoredP!Crash,
       Restored!Restart, RestoredP!Restart, Restored!Serve, RestoredP!Serve, Restored!Next, RestoredP!Next

\* WorkProposals.
LEMMA ProposedSteps == Proposed!Next <=> ProposedP!Next
BY DEF Proposed!world, ProposedP!world, Proposed!papers, ProposedP!papers, Proposed!JobIds, ProposedP!JobIds,
       Proposed!Startable, ProposedP!Startable, Proposed!Undecided, ProposedP!Undecided, Proposed!NewJob,
       ProposedP!NewJob, Proposed!Inserted, ProposedP!Inserted, Proposed!Updated, ProposedP!Updated,
       Proposed!StateVersion, ProposedP!StateVersion, Proposed!Idle, ProposedP!Idle, Proposed!Begins,
       ProposedP!Begins, Proposed!Answer, ProposedP!Answer, Proposed!Resolved, ProposedP!Resolved,
       Proposed!ResolveRevision, ProposedP!ResolveRevision, Proposed!ProposeBegins, ProposedP!ProposeBegins,
       Proposed!ActionDigest, ProposedP!ActionDigest, Proposed!Proposal, ProposedP!Proposal,
       Proposed!ProposeCommits, ProposedP!ProposeCommits, Proposed!Advance, ProposedP!Advance,
       Proposed!AuthorizeBegins, ProposedP!AuthorizeBegins, Proposed!Authorizable, ProposedP!Authorizable,
       Proposed!Decide, ProposedP!Decide, Proposed!AuthorizeCommits, ProposedP!AuthorizeCommits,
       Proposed!Reject, ProposedP!Reject, Proposed!CreateBegins, ProposedP!CreateBegins,
       Proposed!CreateCommits, ProposedP!CreateCommits, Proposed!ChildBase, ProposedP!ChildBase,
       Proposed!CreateChild, ProposedP!CreateChild, Proposed!RunBegins, ProposedP!RunBegins, Proposed!Family,
       ProposedP!Family, Proposed!Claimable, ProposedP!Claimable, Proposed!RunClaims, ProposedP!RunClaims,
       Proposed!AttemptEnds, ProposedP!AttemptEnds, Proposed!Running, ProposedP!Running, Proposed!RetireChecks,
       ProposedP!RetireChecks, Proposed!RetireCommits, ProposedP!RetireCommits, Proposed!RestoreProject,
       ProposedP!RestoreProject, Proposed!BranchMoves, ProposedP!BranchMoves, Proposed!Tick, ProposedP!Tick,
       Proposed!Next, ProposedP!Next, Proposed!Max, ProposedP!Max
-----------------------------------------------------------------------------
(* A behaviour of the composition is one of each component.                  *)

\* While no restore is exercised the ledger is that of the calls that retry.
LEMMA AsRetried == Spec /\ part # "restores" => RetriedP!Spec /\ [](part # "restores")
<1>1. Init => RetriedP!Init
  BY DEF Init, Retried!Unsent, RetriedP!Unsent, Retried!Empty, RetriedP!Empty, Retried!Init, RetriedP!Init
<1>2. part # "restores" /\ [Next]_vars => (part # "restores")' /\ [RetriedP!Next]_(RetriedP!vars)
  BY RetriedSteps DEF Next, vars, requestVars, RetriedP!vars
<1>. QED BY <1>1, <1>2, PTL DEF Spec, RetriedP!Spec

\* While retries are not exercised it is that of the calls with a restore among them; it starts the same.
LEMMA AsRestored == Spec /\ part # "requests" => RestoredP!Spec /\ [](part # "requests")
<1>1. Init => RestoredP!Init
  BY DEF Init, Retried!Unsent, RestoredP!Unsent, Retried!Empty, RestoredP!Empty, Retried!Init, RestoredP!Init
<1>2. part # "requests" /\ [Next]_vars => (part # "requests")' /\ [RestoredP!Next]_(RestoredP!vars)
  BY RestoredSteps DEF Next, vars, requestVars, RestoredP!vars
<1>. QED BY <1>1, <1>2, PTL DEF Spec, RestoredP!Spec

\* Nothing else touches proposals and jobs.
LEMMA AsProposed == Spec => ProposedP!Spec
<1>1. Init => ProposedP!Init
  BY DEF Init, Proposed!Undecided, ProposedP!Undecided, Proposed!Idle, ProposedP!Idle, Proposed!Init, ProposedP!Init
<1>2. [Next]_vars => [ProposedP!Next]_(ProposedP!vars)
  BY ProposedSteps DEF Next, vars, workVars, ProposedP!vars
<1>. QED BY <1>1, <1>2, PTL DEF Spec, ProposedP!Spec
-----------------------------------------------------------------------------
(* The properties of the runs.                                               *)

\* mutate, executeClaimed and waitForResult: whatever is retried, by whom, and whenever the server dies or a receipt
\* fails, the work of a request is done once at most, as it was bound, and the outcomes that are told of it are the
\* same and true; with restores among the requests no receipt is without its intent.
THEOREM DoneOnce == Spec => []AtMostOnce
<1>1. RetriedP!Spec => []RetriedP!AtMostOnce BY Assumptions, RetriedP!DoneOnce
<1>2. RestoredP!Spec => [](RestoredP!GInv /\ RestoredP!TypeOK) BY Assumptions, RestoredP!TypeCorrect
<1>3. RetriedP!AtMostOnce /\ part # "restores" => AtMostOnce
  BY DEF AtMostOnce, Retried!Terminal, RetriedP!Terminal, Retried!Answers, RetriedP!Answers, Retried!TypeOK,
       RetriedP!TypeOK, Retried!EffectOnce, RetriedP!EffectOnce, Retried!Told, RetriedP!Told, Retried!AnswersAgree,
       RetriedP!AnswersAgree, Retried!AtMostOnce, RetriedP!AtMostOnce
<1>4. RestoredP!TypeOK /\ part # "requests" => AtMostOnce
  BY DEF AtMostOnce, Restored!Terminal, RestoredP!Terminal, Restored!Answers, RestoredP!Answers, Restored!TypeOK,
       RestoredP!TypeOK
<1>5. part # "restores" \/ part # "requests" OBVIOUS
<1>. QED BY <1>1, <1>2, <1>3, <1>4, <1>5, AsRetried, AsRestored, PTL

\* reinstateIntent: a restore that takes its own intent away is reported as what it was.
THEOREM Reported == Spec => RestoreIsReported
<1>1. RetriedP!Spec => []RetriedP!RInv BY Assumptions, RetriedP!RequestsInvariant
<1>2. RestoredP!Spec => RestoredP!RestoreIsReported BY Assumptions, RestoredP!Reported
<1>3. RetriedP!RInv =>
        [\A c \in Calls : (Restored!At(c, "replaced") /\ results[call[c].id] = None /\ call'[c].pc = "answered" /\ up')
            => call'[c].answer \in Restored!Terminal]_(Restored!vars)
  BY DEF RetriedP!RInv, RetriedP!LedgerOK, RetriedP!Steady, Restored!At
<1>4. RestoredP!RestoreIsReported => Restored!RestoreIsReported
  BY DEF Restored!vars, RestoredP!vars, Restored!Terminal, RestoredP!Terminal, Restored!At, RestoredP!At,
       Restored!RestoreIsReported, RestoredP!RestoreIsReported, Restored!vars, RestoredP!vars
<1>5. part # "restores" \/ part # "requests" OBVIOUS
<1>. QED
  BY <1>1, <1>2, <1>3, <1>4, <1>5, AsRetried, AsRestored, PTL DEF RestoreIsReported, Restored!RestoreIsReported

\* proposeWork, authorizeWorkProposal and rejectWorkProposal, with any number of calls that overlap while git resolves
\* the branch: a key is one action, a proposal has one decision and at most one job, and the job that is run is the
\* one that was proposed.
THEOREM Decided == Spec => []DecidedAsProposed
<1>1. ProposedP!Spec => [](ProposedP!TypeOK /\ ProposedP!KeyIsOneAction /\ ProposedP!OneDecisionOneJob
                              /\ ProposedP!AsProposed /\ ProposedP!OneWorld)
  BY Assumptions, ProposedP!ProposalsAreKept
<1>2. ProposedP!TypeOK /\ ProposedP!KeyIsOneAction /\ ProposedP!OneDecisionOneJob /\ ProposedP!AsProposed
      /\ ProposedP!OneWorld => DecidedAsProposed
  BY DEF DecidedAsProposed, Proposed!JobIds, ProposedP!JobIds, Proposed!Undecided, ProposedP!Undecided,
         Proposed!TypeOK, ProposedP!TypeOK, Proposed!Work, ProposedP!Work, Proposed!Authorized, ProposedP!Authorized,
         Proposed!OneDecisionOneJob, ProposedP!OneDecisionOneJob, Proposed!AsProposed, ProposedP!AsProposed,
         Proposed!KeyIsOneAction, ProposedP!KeyIsOneAction, Proposed!OneWorld, ProposedP!OneWorld
<1>. QED BY <1>1, <1>2, AsProposed, PTL

\* authorizeWorkProposal: nothing that has expired or been superseded, during the call either, is authorized.
THEOREM InTime == Spec => AuthorizedInTime
<1>1. ProposedP!Spec => ProposedP!AuthorizedInTime BY Assumptions, ProposedP!InTime
<1>2. ProposedP!AuthorizedInTime => AuthorizedInTime
  BY DEF AuthorizedInTime, Proposed!vars, ProposedP!vars, Proposed!JobIds, ProposedP!JobIds, Proposed!StateVersion,
       ProposedP!StateVersion, Proposed!Authorized, ProposedP!Authorized, Proposed!AuthorizedInTime,
       ProposedP!AuthorizedInTime, Proposed!Max, ProposedP!Max, Proposed!vars, ProposedP!vars
<1>. QED BY <1>1, <1>2, AsProposed, PTL
-----------------------------------------------------------------------------
(* Backup and restore, whoever else writes, moves branches or retires        *)
(* projects meanwhile.                                                       *)

Head == (0..commits) \cup {None}
Phases == {"idle", "listing", "heads", "preflight", "copying", "moving"}
Operation ==
  [pc : Phases, snap : Recovered!Database \cup {None}, required : SUBSET Repos, heads : [Repos -> Head],
   todo : SUBSET Repos, from : backups \cup {None}, both : BOOLEAN, blocked : BOOLEAN,
   seen : [repo : Repos, head : Head] \cup {None}, failed : SUBSET Repos]

\* The operation under way has what its phase needs, and no head is one that was not made yet.
RecoveryTyped ==
  /\ server = TRUE /\ marker \in BOOLEAN
  /\ db \in Recovered!Database \cup {None} /\ (db = None => op.pc = "copying") /\ (op.pc = "copying" => db = None)
  /\ commits \in Recovered!Commit /\ owed \subseteq Repos
  /\ branch \in [Repos -> Head]
  /\ \A b \in backups : b \in Recovered!Backup /\ b.heads \in [Repos -> Head]
  /\ op \in Operation
  /\ op.pc \in {"listing", "heads"} => op.snap # None
  /\ op.pc \in {"preflight", "copying", "moving"} => op.from # None

\* What a database that was put back still needs is to do or has failed, until a person is told.
Accounted ==
  /\ op.pc # "moving" /\ owed # {} => marker
  /\ op.seen # None => op.pc = "moving" /\ op.seen.repo \in op.todo
  /\ op.pc = "moving" =>
       /\ owed \subseteq op.todo \cup op.failed
       /\ \A r \in owed : branch[r] # op.from.heads[r] \/ branch[r] = None

\* A restore moves what the manifest asks for, and has put back the database that comes with it.
Tracked == op.pc = "moving" => db = op.from.db /\ op.todo \subseteq Recovered!Required(op.from)

RecoveryInv == RecoveryTyped /\ Accounted /\ Tracked

\* A value that is not a database is none.
LEMMA RecoveryConstants == /\ MaxCommits \in Nat /\ None \notin Nat /\ None \notin Recovered!Database
BY CommandsAssumption DEF CommandsAssumption, Recovered!RecoveryAssumption

\* At first nothing is under way and nothing is owed.
LEMMA RecoveryInitially == Recovered!Init => RecoveryInv
<1>. SUFFICES ASSUME Recovered!Init PROVE RecoveryInv OBVIOUS
<1>1. 0 \in Head /\ None \in Head /\ commits = 0 /\ 0 \in Recovered!Commit
  BY RecoveryConstants DEF Head, Recovered!Init, Recovered!Commit
<1>2. /\ [r \in Repos |-> 0] \in [Repos -> Head] /\ [r \in Repos |-> None] \in [Repos -> Head]
      /\ [r \in Repos |-> 0] \in [Repos -> Recovered!Commit \cup {None}]
      /\ \A a \in SUBSET Repos : [heads |-> [r \in Repos |-> 0], active |-> a] \in Recovered!Database
  BY <1>1 DEF Recovered!Database
<1>3. \A b \in backups : b \in Recovered!Backup /\ b.heads \in [Repos -> Head]
  BY <1>1, <1>2 DEF Recovered!Init, Recovered!First, Recovered!Backup
<1>4. op \in Operation
  BY <1>1, <1>2 DEF Recovered!Init, Recovered!Idle, Operation, Phases
<1>5. RecoveryTyped
  BY <1>1, <1>2, <1>3, <1>4, RecoveryConstants
     DEF RecoveryTyped, Recovered!Init, Recovered!First, Recovered!Idle
<1>6. Accounted /\ Tracked
  BY <1>3 DEF Accounted, Tracked, Recovered!Init, Recovered!Idle, Recovered!First
<1>. QED BY <1>5, <1>6 DEF RecoveryInv

\* The heads that were made stay made.
LEMMA HeadsGrow == RecoveryTyped /\ commits' \in Nat /\ commits <= commits' => Head \subseteq Head'
BY RecoveryConstants DEF RecoveryTyped, Recovered!Commit, Head

\* Every step keeps the invariant.
LEMMA RecoveryKept ==
  ASSUME RecoveryInv, Recovered!Next
  PROVE  RecoveryInv'
<1>. USE RecoveryConstants
<1>0. RecoveryTyped /\ Accounted /\ Tracked BY DEF RecoveryInv
<1>1. ASSUME NEW b \in backups \cup {None}, NEW both \in BOOLEAN, Recovered!Begin(b, both) PROVE RecoveryInv'
  <2>1. RecoveryTyped'
    <3>1. /\ op' = [Recovered!Idle EXCEPT !.pc = "listing", !.snap = db, !.from = b, !.both = both]
          /\ UNCHANGED <<server, db, branch, backups, marker, commits, owed>>
          /\ op.pc = "idle"
      BY <1>1 DEF Recovered!Begin, Recovered!At
    <3>2. Head' = Head /\ None \in Head BY <3>1 DEF Head
    <3>3. op' \in Operation'
      <4>1. op' = [pc |-> "listing", snap |-> db, required |-> {}, heads |-> [r \in Repos |-> None], todo |-> {},
                   from |-> b, both |-> both, blocked |-> FALSE, seen |-> None, failed |-> {}]
        BY <3>1 DEF Recovered!Idle
      <4>2. db \in Recovered!Database \cup {None} /\ [r \in Repos |-> None] \in [Repos -> Head]
        BY <1>0, <3>2 DEF RecoveryTyped
      <4>3. Operation' = Operation BY <3>1, <3>2 DEF Operation
      <4>. QED BY <1>1, <3>2, <4>1, <4>2, <4>3 DEF Operation, Phases
    <3>4. op'.pc = "listing" /\ op'.snap = db BY <3>1 DEF Recovered!Idle
    <3>. QED BY <1>0, <3>1, <3>2, <3>3, <3>4 DEF RecoveryTyped
  <2>2. Accounted' BY <1>0, <1>1 DEF RecoveryTyped, Accounted, Operation, Recovered!Begin, Recovered!At, Recovered!Idle
  <2>3. Tracked' BY <1>0, <1>1 DEF RecoveryTyped, Tracked, Operation, Recovered!Begin, Recovered!At, Recovered!Idle
  <2>. QED BY <2>1, <2>2, <2>3 DEF RecoveryInv
<1>2. CASE Recovered!ListProjects
  <2>1. RecoveryTyped'
    BY <1>0, <1>2
       DEF RecoveryTyped, Operation, Phases, Head, Recovered!Database, Recovered!Backup, Recovered!ListProjects, Recovered!At,
           Recovered!Idle
  <2>2. Accounted' BY <1>0, <1>2 DEF RecoveryTyped, Accounted, Operation, Recovered!ListProjects, Recovered!At, Recovered!Idle
  <2>3. Tracked' BY <1>0, <1>2 DEF RecoveryTyped, Tracked, Operation, Recovered!ListProjects, Recovered!At, Recovered!Idle
  <2>. QED BY <2>1, <2>2, <2>3 DEF RecoveryInv
<1>3. CASE Recovered!WriteManifest
  <2>1. RecoveryTyped'
    <3>. DEFINE b == [db |-> op.snap, heads |-> op.heads, required |-> op.required]
    <3>1. /\ backups' = backups \cup {b} /\ op.pc = "heads"
          /\ UNCHANGED <<server, db, branch, marker, commits, owed>>
      BY <1>3 DEF Recovered!WriteManifest, Recovered!At
    <3>2. Head' = Head /\ Head \subseteq Recovered!Commit \cup {None} /\ None \in Head
      BY <1>0, <3>1 DEF Head, RecoveryTyped, Recovered!Commit
    <3>3. b \in Recovered!Backup /\ b.heads \in [Repos -> Head]
      BY <1>0, <3>1, <3>2 DEF RecoveryTyped, Operation, Recovered!Backup
    <3>4. op' \in Operation' /\ op'.pc \in {"idle", "preflight"} /\ (op'.pc = "preflight" => op'.from # None)
      <4>1. [r \in Repos |-> None] \in [Repos -> Head] BY <3>2
      <4>2. CASE op.from = None
        <5>1. op' = Recovered!Idle BY <1>3, <4>2 DEF Recovered!WriteManifest
        <5>. QED BY <3>2, <4>1, <5>1 DEF Recovered!Idle, Operation, Phases
      <4>3. CASE op.from # None
        <5>1. PICK todo : todo = IF op.both THEN Recovered!Required(op.from) ELSE {} OBVIOUS
        <5>2. op' = [pc |-> "preflight", snap |-> None, required |-> {}, heads |-> [r \in Repos |-> None],
                     todo |-> todo, from |-> op.from, both |-> op.both, blocked |-> FALSE, seen |-> None,
                     failed |-> {}]
          BY <1>3, <4>3, <5>1 DEF Recovered!WriteManifest, Recovered!Idle
        <5>3. todo \subseteq Repos
          BY <1>0, <4>3, <5>1 DEF RecoveryTyped, Operation, Recovered!Required, Recovered!Backup, Recovered!Database
        <5>4. op.both \in BOOLEAN /\ op.from \in backups BY <1>0, <4>3 DEF RecoveryTyped, Operation
        <5>. QED BY <3>1, <3>2, <4>1, <4>3, <5>2, <5>3, <5>4 DEF Operation, Phases
      <4>. QED BY <4>2, <4>3
    <3>. HIDE DEF b
    <3>. QED BY <1>0, <3>1, <3>2, <3>3, <3>4 DEF RecoveryTyped
  <2>2. Accounted'
    BY <1>0, <1>3
       DEF RecoveryTyped, Accounted, Operation, Recovered!WriteManifest, Recovered!Required, Recovered!At, Recovered!Idle
  <2>3. Tracked'
    BY <1>0, <1>3 DEF RecoveryTyped, Tracked, Operation, Recovered!WriteManifest, Recovered!Required, Recovered!At, Recovered!Idle
  <2>. QED BY <2>1, <2>2, <2>3 DEF RecoveryInv
<1>4. CASE Recovered!Refuse
  <2>1. RecoveryTyped'
    BY <1>0, <1>4
       DEF RecoveryTyped, Operation, Phases, Head, Recovered!Database, Recovered!Backup, Recovered!Refuse, Recovered!At,
           Recovered!Idle
  <2>2. Accounted' BY <1>0, <1>4 DEF RecoveryTyped, Accounted, Operation, Recovered!Refuse, Recovered!At, Recovered!Idle
  <2>3. Tracked' BY <1>0, <1>4 DEF RecoveryTyped, Tracked, Operation, Recovered!Refuse, Recovered!At, Recovered!Idle
  <2>. QED BY <2>1, <2>2, <2>3 DEF RecoveryInv
<1>18. CASE Recovered!Throws
  <2>1. RecoveryTyped'
    BY <1>0, <1>18
       DEF RecoveryTyped, Operation, Phases, Head, Recovered!Database, Recovered!Backup, Recovered!Throws, Recovered!Idle
  <2>2. Accounted' BY <1>0, <1>18 DEF RecoveryTyped, Accounted, Operation, Recovered!Throws, Recovered!Idle
  <2>3. Tracked' BY <1>0, <1>18 DEF Tracked, Recovered!Throws, Recovered!Idle
  <2>. QED BY <2>1, <2>2, <2>3 DEF RecoveryInv
<1>19. CASE Recovered!CopyThrows
  <2>1. RecoveryTyped'
    <3>1. Recovered!Blank \in Recovered!Database BY DEF Recovered!Blank, Recovered!Database
    <3>. QED
      BY <1>0, <1>19, <3>1
         DEF RecoveryTyped, Operation, Phases, Head, Recovered!Backup, Recovered!CopyThrows, Recovered!At,
             Recovered!Idle
  <2>2. Accounted' BY <1>0, <1>19 DEF Accounted, Recovered!CopyThrows, Recovered!Idle
  <2>3. Tracked' BY <1>0, <1>19 DEF Tracked, Recovered!CopyThrows, Recovered!Idle
  <2>. QED BY <2>1, <2>2, <2>3 DEF RecoveryInv
<1>5. CASE Recovered!Remove
  <2>1. RecoveryTyped'
    BY <1>0, <1>5
       DEF RecoveryTyped, Operation, Phases, Head, Recovered!Database, Recovered!Backup, Recovered!Remove, Recovered!Required,
           Recovered!At, Recovered!Idle
  <2>2. Accounted'
    BY <1>0, <1>5 DEF RecoveryTyped, Accounted, Operation, Recovered!Remove, Recovered!Required, Recovered!At, Recovered!Idle
  <2>3. Tracked'
    BY <1>0, <1>5 DEF RecoveryTyped, Tracked, Operation, Recovered!Remove, Recovered!Required, Recovered!At, Recovered!Idle
  <2>. QED BY <2>1, <2>2, <2>3 DEF RecoveryInv
<1>6. CASE Recovered!Copy
  <2>1. RecoveryTyped'
    <3>1. /\ op' = [op EXCEPT !.pc = "moving", !.todo = Recovered!ToMove] /\ db' = op.from.db
          /\ owed' \subseteq Recovered!ToMove /\ op.pc = "copying"
          /\ UNCHANGED <<server, branch, backups, marker, commits>>
      BY <1>6 DEF Recovered!Copy, Recovered!At
    <3>2. Head' = Head BY <3>1 DEF Head
    <3>3. op.from \in backups /\ op.from \in Recovered!Backup /\ op.from # None
      BY <1>0, <3>1 DEF RecoveryTyped, Operation
    <3>4. Recovered!ToMove \subseteq Repos /\ op.from.db \in Recovered!Database
      BY <3>3 DEF Recovered!ToMove, Recovered!Required, Recovered!Backup, Recovered!Database
    <3>5. op' \in Operation' /\ op'.pc = "moving" /\ op'.from = op.from
      BY <1>0, <3>1, <3>2, <3>4 DEF RecoveryTyped, Operation, Phases
    <3>. QED BY <1>0, <3>1, <3>2, <3>3, <3>4, <3>5 DEF RecoveryTyped
  <2>2. Accounted'
    BY <1>0, <1>6
       DEF RecoveryTyped, Accounted, Operation, Recovered!Copy, Recovered!ToMove, Recovered!Required, Recovered!At, Recovered!Idle
  <2>3. Tracked'
    BY <1>0, <1>6
       DEF RecoveryTyped, Tracked, Operation, Recovered!Copy, Recovered!ToMove, Recovered!Required, Recovered!At, Recovered!Idle
  <2>. QED BY <2>1, <2>2, <2>3 DEF RecoveryInv
<1>7. CASE Recovered!MoveBranch
  <2>1. RecoveryTyped'
    <3>1. PICK r : r = op.seen.repo OBVIOUS
    <3>2. /\ op.seen # None /\ op.pc = "moving"
          /\ branch' = [branch EXCEPT ![r] = op.from.heads[r]] /\ owed' = owed \ {r}
          /\ op' = [op EXCEPT !.seen = None, !.todo = op.todo \ {r}, !.failed = op.failed \cup {}]
          /\ UNCHANGED <<server, db, backups, marker, commits>>
      BY <1>7, <3>1 DEF Recovered!MoveBranch, Recovered!Handled, Recovered!At
    <3>3. Head' = Head BY <3>2 DEF Head
    <3>4. op' \in Operation' /\ op'.pc = op.pc /\ op'.from = op.from
      BY <1>0, <3>2, <3>3 DEF RecoveryTyped, Operation
    <3>5. branch' \in [Repos -> Head]
      <4>1. op.from.heads \in [Repos -> Head] /\ r \in Repos BY <1>0, <3>1, <3>2 DEF RecoveryTyped, Operation
      <4>. QED BY <1>0, <3>2, <4>1 DEF RecoveryTyped
    <3>. QED BY <1>0, <3>2, <3>3, <3>4, <3>5 DEF RecoveryTyped
  <2>2. Accounted'
    BY <1>0, <1>7 DEF RecoveryTyped, Accounted, Operation, Recovered!MoveBranch, Recovered!Handled, Recovered!At, Recovered!Idle
  <2>3. Tracked'
    BY <1>0, <1>7 DEF RecoveryTyped, Tracked, Operation, Recovered!MoveBranch, Recovered!Handled, Recovered!At, Recovered!Idle
  <2>. QED BY <2>1, <2>2, <2>3 DEF RecoveryInv
<1>8. CASE Recovered!MoveFails
  <2>1. RecoveryTyped'
    BY <1>0, <1>8
       DEF RecoveryTyped, Operation, Phases, Head, Recovered!Database, Recovered!Backup, Recovered!MoveFails, Recovered!Handled,
           Recovered!At, Recovered!Idle
  <2>2. Accounted'
    BY <1>0, <1>8 DEF RecoveryTyped, Accounted, Operation, Recovered!MoveFails, Recovered!Handled, Recovered!At, Recovered!Idle
  <2>3. Tracked'
    BY <1>0, <1>8 DEF RecoveryTyped, Tracked, Operation, Recovered!MoveFails, Recovered!Handled, Recovered!At, Recovered!Idle
  <2>. QED BY <2>1, <2>2, <2>3 DEF RecoveryInv
<1>9. CASE Recovered!Finish
  <2>1. RecoveryTyped'
    BY <1>0, <1>9
       DEF RecoveryTyped, Operation, Phases, Head, Recovered!Database, Recovered!Backup, Recovered!Finish, Recovered!At,
           Recovered!Idle
  <2>2. Accounted' BY <1>0, <1>9 DEF RecoveryTyped, Accounted, Operation, Recovered!Finish, Recovered!At, Recovered!Idle
  <2>3. Tracked' BY <1>0, <1>9 DEF RecoveryTyped, Tracked, Operation, Recovered!Finish, Recovered!At, Recovered!Idle
  <2>. QED BY <2>1, <2>2, <2>3 DEF RecoveryInv
<1>10. CASE Recovered!ResolveRestore
  <2>1. RecoveryTyped'
    BY <1>0, <1>10
       DEF RecoveryTyped, Operation, Phases, Head, Recovered!Database, Recovered!Backup, Recovered!ResolveRestore,
           Recovered!HandleOpen, Recovered!At, Recovered!Idle
  <2>2. Accounted'
    BY <1>0, <1>10
       DEF RecoveryTyped, Accounted, Operation, Recovered!ResolveRestore, Recovered!HandleOpen, Recovered!At, Recovered!Idle
  <2>3. Tracked'
    BY <1>0, <1>10
       DEF RecoveryTyped, Tracked, Operation, Recovered!ResolveRestore, Recovered!HandleOpen, Recovered!At, Recovered!Idle
  <2>. QED BY <2>1, <2>2, <2>3 DEF RecoveryInv
<1>11. ASSUME NEW r \in Repos, Recovered!ReadHead(r) PROVE RecoveryInv'
  <2>1. RecoveryTyped'
    BY <1>0, <1>11
       DEF RecoveryTyped, Operation, Phases, Head, Recovered!Database, Recovered!Backup, Recovered!ReadHead, Recovered!At,
           Recovered!Idle
  <2>2. Accounted' BY <1>0, <1>11 DEF RecoveryTyped, Accounted, Operation, Recovered!ReadHead, Recovered!At, Recovered!Idle
  <2>3. Tracked'
    BY <1>0, <1>11 DEF RecoveryTyped, Tracked, Operation, Recovered!ReadHead, Recovered!At, Recovered!Idle
  <2>. QED BY <2>1, <2>2, <2>3 DEF RecoveryInv
<1>12. ASSUME NEW r \in Repos, Recovered!Preflight(r) PROVE RecoveryInv'
  <2>1. RecoveryTyped'
    BY <1>0, <1>12
       DEF RecoveryTyped, Operation, Phases, Head, Recovered!Database, Recovered!Backup, Recovered!Preflight,
           Recovered!Unreturnable, Recovered!At, Recovered!Idle
  <2>2. Accounted'
    BY <1>0, <1>12
       DEF RecoveryTyped, Accounted, Operation, Recovered!Preflight, Recovered!Unreturnable, Recovered!At, Recovered!Idle
  <2>3. Tracked'
    BY <1>0, <1>12
       DEF RecoveryTyped, Tracked, Operation, Recovered!Preflight, Recovered!Unreturnable, Recovered!At,
           Recovered!Idle
  <2>. QED BY <2>1, <2>2, <2>3 DEF RecoveryInv
<1>13. ASSUME NEW r \in Repos, Recovered!ReadBranch(r) PROVE RecoveryInv'
  <2>1. RecoveryTyped'
    <3>1. UNCHANGED <<server, db, branch, backups, marker, commits, owed>> /\ op.pc = "moving"
      BY <1>13 DEF Recovered!ReadBranch, Recovered!At
    <3>2. Head' = Head BY <3>1 DEF Head
    <3>3. [repo |-> r, head |-> branch[r]] \in [repo : Repos, head : Head] BY <1>0, <1>13 DEF RecoveryTyped
    <3>4. PICK seen : seen = [repo |-> r, head |-> branch[r]] OBVIOUS
    <3>5. \/ op' = [op EXCEPT !.todo = op.todo \ {r}, !.failed = op.failed \cup {r}]
          \/ op' = [op EXCEPT !.todo = op.todo \ {r}]
          \/ op' = [op EXCEPT !.seen = seen]
      BY <1>13, <3>4 DEF Recovered!ReadBranch
    <3>6. op' \in Operation' /\ op'.pc = op.pc /\ op'.from = op.from
      <4>1. op \in Operation /\ seen \in [repo : Repos, head : Head] BY <1>0, <3>3, <3>4 DEF RecoveryTyped
      <4>2. Operation' = Operation BY <3>1, <3>2 DEF Operation
      <4>3. CASE op' = [op EXCEPT !.todo = op.todo \ {r}, !.failed = op.failed \cup {r}]
        BY <1>13, <4>1, <4>2, <4>3 DEF Operation
      <4>4. CASE op' = [op EXCEPT !.todo = op.todo \ {r}] BY <4>1, <4>2, <4>4 DEF Operation
      <4>5. CASE op' = [op EXCEPT !.seen = seen] BY <4>1, <4>2, <4>5 DEF Operation
      <4>. QED BY <3>5, <4>3, <4>4, <4>5
    <3>. QED BY <1>0, <3>1, <3>2, <3>6 DEF RecoveryTyped
  <2>2. Accounted'
    <3>1. UNCHANGED <<branch, marker, owed>> /\ op.pc = "moving" /\ r \in op.todo
      BY <1>13 DEF Recovered!ReadBranch, Recovered!At
    <3>2. owed \subseteq op.todo \cup op.failed /\ \A q \in owed : branch[q] # op.from.heads[q] \/ branch[q] = None
      BY <1>0, <3>1 DEF Accounted
    <3>3. op.seen = None BY <1>13 DEF Recovered!ReadBranch
    <3>4. CASE branch[r] = None
      <4>1. op' = [op EXCEPT !.todo = op.todo \ {r}, !.failed = op.failed \cup {r}]
        BY <1>13, <3>4 DEF Recovered!ReadBranch
      <4>. QED BY <1>0, <3>1, <3>2, <3>3, <4>1 DEF RecoveryTyped, Operation, Accounted
    <3>5. CASE branch[r] # None /\ branch[r] = op.from.heads[r]
      <4>1. op' = [op EXCEPT !.todo = op.todo \ {r}] /\ r \notin owed BY <1>13, <3>2, <3>5 DEF Recovered!ReadBranch
      <4>. QED BY <1>0, <3>1, <3>2, <3>3, <4>1 DEF RecoveryTyped, Operation, Accounted
    <3>6. CASE branch[r] # None /\ branch[r] # op.from.heads[r]
      <4>1. op' = [op EXCEPT !.seen = [repo |-> r, head |-> branch[r]]] BY <1>13, <3>6 DEF Recovered!ReadBranch
      <4>. QED BY <1>0, <3>1, <3>2, <4>1 DEF RecoveryTyped, Operation, Accounted
    <3>. QED BY <3>4, <3>5, <3>6
  <2>3. Tracked'
    BY <1>0, <1>13 DEF RecoveryTyped, Tracked, Operation, Recovered!ReadBranch, Recovered!At, Recovered!Idle
  <2>. QED BY <2>1, <2>2, <2>3 DEF RecoveryInv
<1>14. ASSUME NEW r \in Repos, Recovered!Integrate(r) PROVE RecoveryInv'
  <2>1. RecoveryTyped'
    <3>1. /\ UNCHANGED <<server, backups, marker, op, owed>> /\ op.pc # "copying"
          /\ commits' = commits + 1 /\ commits < MaxCommits /\ branch' = [branch EXCEPT ![r] = commits + 1]
          /\ db' = [db EXCEPT !.heads[r] = commits + 1]
      BY <1>14 DEF Recovered!Integrate, Recovered!HandleOpen, Recovered!Committed
    <3>2. commits + 1 \in Recovered!Commit /\ commits + 1 \in Head' /\ Head \subseteq Head'
      BY <1>0, <3>1, HeadsGrow DEF RecoveryTyped, Recovered!Commit, Head
    <3>3. db \in Recovered!Database BY <1>0, <3>1 DEF RecoveryTyped
    <3>4. db' \in Recovered!Database
      BY <3>1, <3>2, <3>3 DEF Recovered!Database
    <3>5. op \in Operation' BY <1>0, <3>1, <3>2 DEF RecoveryTyped, Operation
    <3>6. branch' \in [Repos -> Head'] BY <1>0, <3>1, <3>2 DEF RecoveryTyped
    <3>7. \A b \in backups : b \in Recovered!Backup /\ b.heads \in [Repos -> Head'] BY <1>0, <3>2 DEF RecoveryTyped
    <3>. QED BY <1>0, <3>1, <3>2, <3>4, <3>5, <3>6, <3>7 DEF RecoveryTyped
  <2>2. Accounted'
    BY <1>0, <1>14
       DEF RecoveryTyped, Accounted, Operation, Recovered!Integrate, Recovered!HandleOpen,
           Recovered!Committed, Recovered!At, Recovered!Idle
  <2>3. Tracked'
    BY <1>0, <1>14
       DEF RecoveryTyped, Tracked, Operation, Recovered!Integrate, Recovered!HandleOpen,
           Recovered!Committed, Recovered!At, Recovered!Idle
  <2>. QED BY <2>1, <2>2, <2>3 DEF RecoveryInv
<1>15. ASSUME NEW r \in Repos, Recovered!RetireProject(r) PROVE RecoveryInv'
  <2>1. RecoveryTyped'
    BY <1>0, <1>15
       DEF RecoveryTyped, Operation, Phases, Head, Recovered!Database, Recovered!Backup, Recovered!RetireProject,
           Recovered!HandleOpen, Recovered!At, Recovered!Idle
  <2>2. Accounted'
    BY <1>0, <1>15
       DEF RecoveryTyped, Accounted, Operation, Recovered!RetireProject, Recovered!HandleOpen, Recovered!At,
           Recovered!Idle
  <2>3. Tracked'
    BY <1>0, <1>15
       DEF RecoveryTyped, Tracked, Operation, Recovered!RetireProject, Recovered!HandleOpen,
           Recovered!At, Recovered!Idle
  <2>. QED BY <2>1, <2>2, <2>3 DEF RecoveryInv
<1>16. ASSUME NEW r \in Repos, Recovered!Outside(r) PROVE RecoveryInv'
  <2>1. RecoveryTyped'
    <3>1. UNCHANGED <<server, db, backups, marker, op, owed>> BY <1>16 DEF Recovered!Outside
    <3>2. /\ commits' \in Recovered!Commit /\ commits <= commits' /\ Head \subseteq Head'
          /\ branch' \in [Repos -> Head']
      <4>1. CASE commits < MaxCommits /\ Recovered!Committed(r)
        <5>1. commits' = commits + 1 /\ branch' = [branch EXCEPT ![r] = commits + 1] BY <4>1 DEF Recovered!Committed
        <5>2. commits' \in Recovered!Commit /\ commits <= commits' /\ commits + 1 \in Head'
          BY <1>0, <4>1, <5>1 DEF RecoveryTyped, Recovered!Commit, Head
        <5>3. Head \subseteq Head' BY <1>0, <5>2, HeadsGrow DEF Recovered!Commit
        <5>. QED BY <1>0, <5>1, <5>2, <5>3 DEF RecoveryTyped
      <4>2. CASE branch' = [branch EXCEPT ![r] = None] /\ UNCHANGED commits
        <5>1. Head' = Head /\ None \in Head /\ commits <= commits'
          BY <1>0, <4>2 DEF RecoveryTyped, Head, Recovered!Commit
        <5>. QED BY <1>0, <4>2, <5>1 DEF RecoveryTyped
      <4>. QED BY <1>16, <4>1, <4>2 DEF Recovered!Outside
    <3>3. op \in Operation' BY <1>0, <3>1, <3>2 DEF RecoveryTyped, Operation
    <3>4. \A b \in backups : b \in Recovered!Backup /\ b.heads \in [Repos -> Head'] BY <1>0, <3>2 DEF RecoveryTyped
    <3>. QED BY <1>0, <3>1, <3>2, <3>3, <3>4 DEF RecoveryTyped
  <2>2. Accounted'
    <3>1. UNCHANGED <<marker, op, owed>> BY <1>16 DEF Recovered!Outside
    <3>2. ASSUME op.pc = "moving", NEW q \in owed
          PROVE  branch'[q] # op.from.heads[q] \/ branch'[q] = None
      <4>1. branch[q] # op.from.heads[q] \/ branch[q] = None BY <1>0, <3>2 DEF Accounted
      <4>2. op.from.heads \in [Repos -> Head] /\ q \in Repos BY <1>0, <3>2 DEF RecoveryTyped, Operation
      <4>3. commits + 1 \notin Head BY <1>0 DEF RecoveryTyped, Head, Recovered!Commit
      <4>4. branch'[q] \in {branch[q], commits + 1, None}
        BY <1>0, <1>16, <4>2 DEF RecoveryTyped, Recovered!Outside, Recovered!Committed
      <4>. QED BY <4>1, <4>2, <4>3, <4>4
    <3>. QED BY <1>0, <3>1, <3>2 DEF Accounted
  <2>3. Tracked'
    BY <1>0, <1>16
       DEF RecoveryTyped, Tracked, Operation, Recovered!Outside, Recovered!Committed, Recovered!At, Recovered!Idle
  <2>. QED BY <2>1, <2>2, <2>3 DEF RecoveryInv
<1>17. ~Recovered!Crash /\ ~Recovered!Restart BY <1>0 DEF RecoveryTyped, Recovered!Crash, Recovered!Restart
<1>. QED
  BY <1>1, <1>2, <1>3, <1>4, <1>5, <1>6, <1>7, <1>8, <1>9, <1>10, <1>11, <1>12, <1>13, <1>14, <1>15, <1>16, <1>17,
     <1>18, <1>19
     DEF Recovered!Next, Recovered!BackupCreate, Recovered!BackupRestore

\* restoreBackup and its neighbours: whatever is written, moved, retired or fails between two of its steps, the
\* operation under way, the databases and the heads agree.
THEOREM RecoveryInvariant == Spec => []RecoveryInv
<1>1. Init => RecoveryInv BY RecoveryInitially DEF Init
<1>2. RecoveryInv /\ [Next]_vars => RecoveryInv'
  <2>1. ASSUME RecoveryInv, Recovered!Next PROVE RecoveryInv'
    BY <2>1, RecoveryKept
  <2>2. ASSUME RecoveryInv, UNCHANGED recoveryVars PROVE RecoveryInv'
    <3>1. Head' = Head BY <2>2 DEF Head, recoveryVars
    <3>2. Operation' = Operation BY <2>2, <3>1 DEF Operation, recoveryVars
    <3>. QED BY <2>2, <3>1, <3>2 DEF RecoveryInv, RecoveryTyped, Accounted, Tracked, recoveryVars
  <2>. QED BY <2>1, <2>2 DEF Next, vars
<1>. QED BY <1>1, <1>2, PTL DEF Spec

\* restoreBackup and resolveRestoreRequirements: after a restore is over, a database that was put back and whose
\* repositories did not all follow is marked until a person has dealt with them, whoever moves branches or deletes
\* repositories meanwhile; and a database can be read whenever a handler may.
THEOREM Marked == Spec => []DividedIsMarked
<1>1. RecoveryInv => DividedIsMarked
  <2>1. RecoveryInv => Recovered!TypeOK
    <3>. SUFFICES ASSUME RecoveryInv PROVE Recovered!TypeOK OBVIOUS
    <3>2. Head \subseteq Recovered!Commit \cup {None}
      BY RecoveryConstants DEF RecoveryInv, RecoveryTyped, Head, Recovered!Commit
    <3>3. branch \in [Repos -> Recovered!Commit \cup {None}] BY <3>2 DEF RecoveryInv, RecoveryTyped
    <3>4. op.from \in backups \cup {None} /\ op.todo \subseteq Repos /\ op.failed \subseteq Repos
      BY DEF RecoveryInv, RecoveryTyped, Operation
    <3>5. Recovered!HandleOpen => db # None BY DEF RecoveryInv, RecoveryTyped, Recovered!HandleOpen
    <3>. QED BY <3>3, <3>4, <3>5 DEF RecoveryInv, RecoveryTyped, Recovered!TypeOK
  <2>2. RecoveryInv => Recovered!DividedIsMarked
    BY DEF RecoveryInv, Accounted, Recovered!DividedIsMarked, Recovered!At
  <2>. QED BY <2>1, <2>2 DEF DividedIsMarked
<1>. QED BY <1>1, RecoveryInvariant, PTL

\* What a restore replaces is in a backup when it is gone.
LEMMA StepKeeps ==
  ASSUME RecoveryInv, RecoveryInv', Recovered!Next
  PROVE  (db # None /\ db' = None) => \E b \in backups' : b.db = db
<1>. SUFFICES ASSUME db # None, db' = None PROVE \E b \in backups' : b.db = db OBVIOUS
<1>1. op.pc # "copying" /\ op'.pc = "copying" BY DEF RecoveryInv, RecoveryTyped
<1>2. op \in Operation BY DEF RecoveryInv, RecoveryTyped
<1>3. Recovered!Remove
  BY <1>1, <1>2
     DEF Operation, Recovered!Blank, Recovered!Idle, Recovered!At, Recovered!HandleOpen, Recovered!Begin,
         Recovered!BackupCreate, Recovered!BackupRestore, Recovered!ListProjects, Recovered!ReadHead,
         Recovered!WriteManifest, Recovered!Preflight, Recovered!Refuse, Recovered!Throws, Recovered!CopyThrows,
         Recovered!Copy, Recovered!ReadBranch, Recovered!Handled, Recovered!MoveBranch, Recovered!MoveFails,
         Recovered!Finish, Recovered!ResolveRestore, Recovered!Integrate, Recovered!RetireProject,
         Recovered!Outside, Recovered!Crash, Recovered!Restart, Recovered!Next
<1>4. PICK b : b = [db |-> db, heads |-> Recovered!Idle.heads, required |-> {}] OBVIOUS
<1>5. b \in backups' /\ b.db = db BY <1>3, <1>4 DEF Recovered!Remove
<1>. QED BY <1>5

\* A branch that a restore moves is one of a project that the restored database, or its manifest, tracks.
LEMMA StepTracks ==
  ASSUME RecoveryInv, Recovered!Next, NEW r \in Repos, Recovered!Moved(r)
  PROVE  r \in db.active \/ (op.from.required # None /\ r \in op.from.required)
<1>. USE DEF Recovered!Moved
<1>1. branch # branch' OBVIOUS
<1>2. commits + 1 # commits BY RecoveryConstants DEF RecoveryInv, RecoveryTyped, Recovered!Commit
<1>3. ~ \E q \in Repos : Recovered!Outside(q)
  <2>. SUFFICES ASSUME NEW q \in Repos, Recovered!Outside(q) PROVE FALSE OBVIOUS
  <2>1. branch' = [branch EXCEPT ![q] = None] BY <1>2 DEF Recovered!Outside, Recovered!Committed
  <2>. QED BY <2>1 DEF RecoveryInv, RecoveryTyped
<1>4. Recovered!MoveBranch
  BY <1>1, <1>2, <1>3
     DEF Recovered!Begin, Recovered!BackupCreate, Recovered!BackupRestore, Recovered!ListProjects,
         Recovered!ReadHead, Recovered!WriteManifest, Recovered!Preflight, Recovered!Refuse, Recovered!Throws,
         Recovered!CopyThrows, Recovered!Remove, Recovered!Copy, Recovered!ReadBranch, Recovered!MoveFails,
         Recovered!Finish, Recovered!ResolveRestore, Recovered!Committed, Recovered!Integrate,
         Recovered!RetireProject, Recovered!Crash, Recovered!Restart, Recovered!Next
<1>5. r = op.seen.repo /\ op.seen # None
  BY <1>4 DEF Recovered!MoveBranch, RecoveryInv, RecoveryTyped
<1>6. r \in op.todo /\ op.todo \subseteq Recovered!Required(op.from) /\ db = op.from.db
  BY <1>5 DEF RecoveryInv, Accounted, Tracked, Recovered!At
<1>. QED BY <1>6 DEF Recovered!Required

\* restoreBackup and createBackup: whatever a restore replaces is in a backup, and it moves no branch of a project
\* that neither the restored database nor the project list of its backup tracks.
THEOREM RestoredSafely == Spec => RestoreIsSafe
<1>1. RecoveryInv /\ RecoveryInv' /\ [Next]_vars =>
        /\ [(db # None /\ db' = None) => \E b \in backups' : b.db = db]_(Recovered!vars)
        /\ [\A r \in Repos : Recovered!Moved(r)
              => r \in db.active \/ (op.from.required # None /\ r \in op.from.required)]_(Recovered!vars)
  <2>. SUFFICES ASSUME RecoveryInv, RecoveryInv', [Next]_vars
       PROVE  /\ [(db # None /\ db' = None) => \E b \in backups' : b.db = db]_(Recovered!vars)
              /\ [\A r \in Repos : Recovered!Moved(r)
                    => r \in db.active \/ (op.from.required # None /\ r \in op.from.required)]_(Recovered!vars)
    OBVIOUS
  <2>1. CASE Recovered!Next BY <2>1, StepKeeps, StepTracks
  <2>2. CASE UNCHANGED recoveryVars BY <2>2 DEF recoveryVars, Recovered!vars
  <2>. QED BY <2>1, <2>2 DEF Next, vars
<1>. QED
  BY <1>1, RecoveryInvariant, PTL DEF Spec, RestoreIsSafe, Recovered!ReplacedIsKept, Recovered!OnlyListedMoves
=============================================================================
