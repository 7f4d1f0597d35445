------------------------- MODULE ManagerLoopProofs -------------------------
(***************************************************************************)
(* Proofs about ManagerLoop for every number of "manage" processes,        *)
(* questions, briefs, rounds and turns, and any number of starts, crashes  *)
(* and cancellations.  What only one process at a time can promise is      *)
(* stated at the end, of one process.                                      *)
(***************************************************************************)
EXTENDS ManagerLoop, SequenceTheorems, TLAPS

Phases   == {"PLAN", "SYNTHESIS", "REVIEW"}
Maybe(S) == {None} \cup S

Turn == [phase: Phases, state: {"INTENDED", "COMPLETED", "FAILED", "UNCERTAIN"}, subject: Maybe(Nat),
         said: Maybe(Decisions), question: Nat, life: Nat, billed: BOOLEAN]

Digests == Briefs \X Nat
Order   == [brief: Briefs, digest: Digests, start: Nat]

Attempt == [terminal: {"LIVE", "SUCCEEDED", "FAILED", "CANCELLED"}, validation: {"NOT_RUN", "PASSED", "FAILED"},
            commit: BOOLEAN, brief: Briefs, digest: Digests, start: Nat]

\* The points at which a process reads a new copy of the row, and those at which it works with one.
Outside == {"idle", "opening", "loop", "settling"}
Asking  == {"turn", "intend", "called", "asked", "decided"}
Inside  == Asking \cup {"briefed", "planned", "revised", "halting", "children", "exploring", "instructed", "claim", "working"}

Points  == Outside \cup Inside

Memory == [pc: Points, run: Maybe(RunRow), phase: Maybe(Phases), rolled: BOOLEAN, ordinal: Nat,
           said: Maybe(Decisions), complete: BOOLEAN, told: Maybe(Order), worker: Nat,
           launched: SUBSET Questions, life: Nat, stranded: SUBSET Nat]

Typed ==
  /\ job \in JobStatus /\ intact \in BOOLEAN
  /\ run \in Maybe(RunRow)
  /\ turns \in Seq(Turn) /\ attempts \in Seq(Attempt)
  /\ children \in [Questions -> ChildStatus] /\ tries \in [Questions -> Nat]
  /\ plans \in [1..MaxRounds -> Maybe(SUBSET Questions)] /\ briefs \in [Slots -> Maybe(Briefs)]
  /\ my \in [Managers -> Memory]
  /\ moves \in Nat /\ starts \in Nat

\* A row, in the table or in memory, names attempts that exist.
Names(r) == {r.candidate, r.accepted} \subseteq Maybe(DOMAIN attempts)

\* The row in the table.
RowOK ==
  /\ run # None => Names(run)
  /\ (run # None /\ run.status = "REVIEWING") => run.candidate # None
  /\ (run # None /\ run.status = "EXPLORING") => run.xround \in 1..MaxRounds /\ plans[run.xround] # None
  /\ turns # <<>> => run # None
  /\ Len(turns) <= MaxTurns
  /\ \A n \in DOMAIN turns : turns[n].phase = "REVIEW" => turns[n].subject \in DOMAIN attempts

\* The turn a process has on its hands is its own.
Own(m) == /\ my[m].ordinal \in DOMAIN turns
          /\ turns[my[m].ordinal].phase = my[m].phase
          /\ turns[my[m].ordinal].subject = Subject(m)

\* What a process holds in memory against the tables and the files.
MindOK(m) ==
  /\ my[m].pc \notin {"idle", "opening"} => run # None
  /\ my[m].pc \in Inside => my[m].run # None /\ Names(my[m].run)
  /\ my[m].pc \in Asking => my[m].phase \in Phases
  /\ my[m].pc \in Asking /\ my[m].phase = "REVIEW" => my[m].run.candidate # None
  /\ my[m].pc = "intend" => my[m].ordinal \in 1..Len(turns) + 1 /\ my[m].ordinal <= MaxTurns
  /\ my[m].pc \in {"called", "asked", "decided"} => Own(m)
  /\ my[m].pc = "decided" => /\ my[m].said \in Decisions
                             /\ Terminal(turns[my[m].ordinal])
                             /\ turns[my[m].ordinal].said = my[m].said
  /\ my[m].pc \in {"briefed", "revised"} => my[m].said \in Decisions /\ my[m].said.brief \in Briefs
  /\ my[m].pc = "planned" => my[m].run.xround + 1 <= MaxRounds /\ plans[my[m].run.xround + 1] # None
  /\ my[m].pc \in {"children", "exploring"} =>
        my[m].run.xround \in 1..MaxRounds /\ plans[my[m].run.xround] # None
  /\ my[m].pc \in {"instructed", "claim"} => my[m].told \in Order
  /\ my[m].pc = "working" => my[m].worker \in DOMAIN attempts
  /\ my[m].pc = "settling" => my[m].stranded \subseteq DOMAIN turns

LInv == Typed /\ RowOK /\ \A m \in Managers : MindOK(m)
-----------------------------------------------------------------------------
\* What was accepted was earned, whoever accepted it.
Earned ==
  (run # None /\ run.accepted # None) =>
    /\ attempts[run.accepted].terminal = "SUCCEEDED" /\ attempts[run.accepted].validation = "PASSED"
    /\ attempts[run.accepted].commit
    /\ \E n \in DOMAIN turns : /\ turns[n].phase = "REVIEW" /\ turns[n].subject = run.accepted
                              /\ turns[n].said = Act("ACCEPT", {}, None) /\ Terminal(turns[n])
-----------------------------------------------------------------------------
\* No two processes live the same life.
Lives ==
  /\ \A m \in Managers : /\ my[m].life <= starts
                         /\ my[m].life = 0 <=> my[m].pc \in {"idle", "settling"}
  /\ \A m, k \in Managers : my[m].life = my[k].life /\ my[m].life > 0 => m = k
  /\ \A n \in DOMAIN turns : turns[n].life \in 1..starts /\ turns[n].question <= moves

\* A turn this process paid for, about the question it is at now.
Paid(m, n) == turns[n].life = my[m].life /\ turns[n].question = moves /\ turns[n].billed

PaidFor(m) ==
  /\ my[m].pc \in {"called", "asked"} => /\ turns[my[m].ordinal].life = my[m].life
                                        /\ \A n \in DOMAIN turns : n > my[m].ordinal => turns[n].life # my[m].life
  /\ \A n \in DOMAIN turns : Paid(m, n) =>
        my[m].pc \in {"decided", "briefed", "planned", "halting"} \/ (my[m].pc = "asked" /\ n = my[m].ordinal)

PInv == Lives /\ (\A m \in Managers : PaidFor(m)) /\ PaidOncePerProcess
-----------------------------------------------------------------------------
\* The decision a worker is to be told: the last one that told anything.
ToldLast(b) == \E n \in DOMAIN turns : LastTold(n) /\ turns[n].said.brief = b
Revises     == \E n \in DOMAIN turns : LastTold(n) /\ turns[n].said.action = "REVISE"

(* What holds of one process when it is the only one. *)

\* What is offered was accepted, and the process is not in the middle of anything.
Offers(m) == job = "READY_FOR_INTEGRATION" =>
  run # None /\ run.status = "ACCEPTED" /\ my[m].pc \in {"idle", "loop", "settling"}

\* The row it holds is the row of the table, and its turn is the newest.
Current(m) ==
  /\ my[m].pc \in Inside \ {"revised", "halting"} => my[m].run = run
  /\ my[m].pc \in {"called", "asked", "decided"} => my[m].ordinal = Len(turns)

\* What it is about to pass on was decided last.
Passes(m) ==
  /\ (my[m].pc = "decided" /\ my[m].said.action \in {"IMPLEMENT", "REVISE"}) =>
        ToldLast(my[m].said.brief) /\ (my[m].said.action = "REVISE" => Revises)
  /\ my[m].pc = "briefed" => ToldLast(my[m].said.brief) /\ briefs[Slot(run)] = my[m].said.brief
  /\ my[m].pc = "revised" => /\ ToldLast(my[m].said.brief) /\ Revises
                             /\ run.status = "IMPLEMENTING" /\ briefs[Slot(run)] = None
  /\ my[m].pc \in {"instructed", "claim"} => ToldLast(my[m].told.brief)

\* The brief in the file of an implementation that is due was decided last, unless it is still to be written;
\* there are no briefs of later revisions.
Files(m) ==
  /\ (run # None /\ run.status = "IMPLEMENTING" /\ my[m].pc # "revised") =>
        /\ my[m].pc \in {"idle", "loop", "instructed", "claim", "working", "halting", "settling"}
        /\ (briefs[Slot(run)] = None /\ Revises) \/ ToldLast(briefs[Slot(run)])
  /\ \A s \in Slots : briefs[s] # None => run # None /\ s <= Slot(run)

Alone(m) == Offers(m) /\ Current(m) /\ Passes(m) /\ Files(m)
-----------------------------------------------------------------------------
(***************************************************************************)
(* Types.                                                                  *)
(***************************************************************************)
\* The steps by what they write: only memory, the run row, a turn, a file, the work of the dispatcher.
MindStep(m) == \/ LoopThinks(m) \/ LoopReviews(m) \/ Ask(m) \/ AnswerRefused(m) \/ Escalates(m)
               \/ RefuseAccept(m) \/ Explore(m) \/ RoundUnfunded(m) \/ Synthesize(m) \/ ClaimThrows(m) \/ Crash(m)
RowStep(m)  == \/ Start(m) \/ EnsureRun(m) \/ LoopStops(m) \/ EnterImplementing(m) \/ Replan(m)
               \/ EnterExploring(m) \/ DecideRevise(m) \/ Accept(m) \/ Halt(m) \/ EnterReviewing(m)
TurnStep(m) == \/ Intend(m) \/ Call(m) \/ Answers(m) \/ AnswersBadly(m) \/ StaleThread(m) \/ ReconcileTurn(m)
FileStep(m) == DecideImplement(m) \/ DecideExplore(m) \/ StoreRevisedBrief(m)
WorkStep(m) == \/ Implement(m) \/ Release(m) \/ LaunchRound(m) \/ ClaimAttempt(m) \/ WorkerPasses(m) \/ WorkerFails(m)
               \/ ReconcileReads(m) \/ \E q \in Questions : CreateChild(m, q) \/ ChildEnds(m, q)
WorldStep   == CancelJob \/ BranchMoves \/ WorkerLost

\* Every step is one of these.
LEMMA EveryStep ==
  ASSUME [Next]_vars
  PROVE  \/ \E m \in Managers : MindStep(m) \/ RowStep(m) \/ TurnStep(m) \/ FileStep(m) \/ WorkStep(m)
         \/ WorldStep
         \/ UNCHANGED vars
BY DEF Next, Step, RunTurn, Decide, Investigate, Build, MindStep, RowStep, TurnStep, FileStep, WorkStep, WorldStep

\* How often a candidate may be revised is a number, of which the slots of the briefs are made.
LEMMA Caps == RevisionCap \in Nat /\ Slots = 1..RevisionCap + 1
BY BoundsAssumption DEF RevisionCap, Min2, Slots

\* What a decision is made of, whichever it is: only an implementation or a revision carries a brief.
LEMMA DecisionShape ==
  ASSUME NEW d \in Decisions
  PROVE  /\ d # None /\ d.questions \in SUBSET Questions
         /\ d.action \in {"IMPLEMENT", "REVISE"} => d.brief \in Briefs
         /\ d.action = "ACCEPT" => d = Act("ACCEPT", {}, None)
BY NoneAssumption DEF Decisions, Act

(* The updates of a process's memory, which all stay in its type. *)

\* A process goes on to its next point.
LEMMA PointFits ==
  ASSUME NEW r \in Memory, NEW pc \in Points
  PROVE  [r EXCEPT !.pc = pc] \in Memory
BY DEF Memory

\* It takes a copy of a row.
LEMMA RowFits ==
  ASSUME NEW r \in Memory, NEW pc \in Points, NEW row \in Maybe(RunRow)
  PROVE  [r EXCEPT !.pc = pc, !.run = row] \in Memory
BY DEF Memory

\* It begins a turn.
LEMMA TurnFits ==
  ASSUME NEW r \in Memory, NEW pc \in Points, NEW row \in Maybe(RunRow), NEW ph \in Phases, NEW b \in BOOLEAN
  PROVE  [r EXCEPT !.pc = pc, !.run = row, !.phase = ph, !.rolled = b] \in Memory
BY DEF Memory, Maybe

\* It begins a review, with what could be read of the attempt.
LEMMA EvidenceFits ==
  ASSUME NEW r \in Memory, NEW pc \in Points, NEW row \in Maybe(RunRow), NEW ph \in Phases,
         NEW b \in BOOLEAN, NEW c \in BOOLEAN
  PROVE  [r EXCEPT !.pc = pc, !.run = row, !.phase = ph, !.rolled = b, !.complete = c] \in Memory
BY DEF Memory, Maybe

\* It begins the synthesis of a round.
LEMMA SynthesisFits ==
  ASSUME NEW r \in Memory, NEW pc \in Points, NEW ph \in Phases, NEW b \in BOOLEAN, NEW qs \in SUBSET Questions
  PROVE  [r EXCEPT !.pc = pc, !.phase = ph, !.rolled = b, !.launched = qs] \in Memory
BY DEF Memory, Maybe

\* It counts the turns.
LEMMA OrdinalFits ==
  ASSUME NEW r \in Memory, NEW pc \in Points, NEW n \in Nat
  PROVE  [r EXCEPT !.pc = pc, !.ordinal = n] \in Memory
BY DEF Memory

\* It has an answer.
LEMMA DecisionFits ==
  ASSUME NEW r \in Memory, NEW pc \in Points, NEW d \in Decisions
  PROVE  [r EXCEPT !.pc = pc, !.said = d] \in Memory
BY DEF Memory, Maybe

\* It opens another thread.
LEMMA ThreadFits ==
  ASSUME NEW r \in Memory, NEW pc \in Points, NEW b \in BOOLEAN
  PROVE  [r EXCEPT !.pc = pc, !.rolled = b] \in Memory
BY DEF Memory

\* It launches the investigations of a round.
LEMMA LaunchFits ==
  ASSUME NEW r \in Memory, NEW pc \in Points, NEW qs \in SUBSET Questions
  PROVE  [r EXCEPT !.pc = pc, !.launched = qs] \in Memory
BY DEF Memory

\* It renders an instruction.
LEMMA OrderFits ==
  ASSUME NEW r \in Memory, NEW pc \in Points, NEW row \in Maybe(RunRow), NEW o \in Order
  PROVE  [r EXCEPT !.pc = pc, !.run = row, !.told = o] \in Memory
BY DEF Memory, Maybe

\* It claims an attempt.
LEMMA WorkerFits ==
  ASSUME NEW r \in Memory, NEW pc \in Points, NEW n \in Nat
  PROVE  [r EXCEPT !.pc = pc, !.worker = n] \in Memory
BY DEF Memory

\* It reads the interrupted turns.
LEMMA StrandedFits ==
  ASSUME NEW r \in Memory, NEW pc \in Points, NEW ns \in SUBSET Nat
  PROVE  [r EXCEPT !.pc = pc, !.stranded = ns] \in Memory
BY DEF Memory

\* A process starts from nothing, but for the life it has and the point it is at.
LEMMA RestFits ==
  ASSUME NEW pc \in Points, NEW n \in Nat
  PROVE  Rest \in Memory /\ [Rest EXCEPT !.pc = pc, !.life = n] \in Memory
BY DEF Rest, Memory, Maybe, Points, Outside

\* A step of the loop that writes no row of the tables: what a process holds stays in its type.
LEMMA MindSteps ==
  ASSUME LInv, NEW m \in Managers, MindStep(m)
  PROVE  Typed'
<1>. USE DEF MindStep
<1>1. my \in [Managers -> Memory] /\ my[m] \in Memory /\ run \in Maybe(RunRow) /\ Len(turns) \in Nat
  BY DEF LInv, Typed
<1>2. Rest \in Memory BY RestFits DEF Points, Outside
<1>3. my' \in [Managers -> Memory]
  <2>1. CASE LoopThinks(m)
    <3>1. PICK p \in {<<"PLANNING", "PLAN">>, <<"SYNTHESIZING", "SYNTHESIS">>} :
            my' = [my EXCEPT ![m].pc = "turn", ![m].run = run, ![m].phase = p[2], ![m].rolled = FALSE]
      BY <2>1 DEF LoopThinks
    <3>2. "turn" \in Points /\ p[2] \in Phases BY DEF Points, Inside, Asking, Phases
    <3>3. [my[m] EXCEPT !.pc = "turn", !.run = run, !.phase = p[2], !.rolled = FALSE] \in Memory
      BY <1>1, <3>2, TurnFits
    <3>. QED BY <1>1, <3>1, <3>3
  <2>2. CASE LoopReviews(m)
    <3>1. CASE run.candidate = None
      <4>1. my' = [my EXCEPT ![m].pc = "halting", ![m].run = run] BY <2>2, <3>1 DEF LoopReviews, Enter
      <4>. QED BY <1>1, <4>1, RowFits DEF Points, Inside
    <3>2. CASE run.candidate # None
      <4>1. PICK c \in BOOLEAN :
              my' = [my EXCEPT ![m].pc = "turn", ![m].run = run, ![m].phase = "REVIEW", ![m].rolled = FALSE,
                               ![m].complete = c]
        BY <2>2, <3>2 DEF LoopReviews, Readable
      <4>2. "turn" \in Points /\ "REVIEW" \in Phases BY DEF Points, Inside, Asking, Phases
      <4>3. [my[m] EXCEPT !.pc = "turn", !.run = run, !.phase = "REVIEW", !.rolled = FALSE, !.complete = c] \in Memory
        BY <1>1, <4>2, EvidenceFits
      <4>. QED BY <1>1, <4>1, <4>3
    <3>. QED BY <3>1, <3>2
  <2>3. CASE Ask(m)
    <3>1. CASE my' = [my EXCEPT ![m].pc = "halting"]
      BY <1>1, <3>1, PointFits DEF Points, Inside
    <3>2. CASE my' = [my EXCEPT ![m].pc = "intend", ![m].ordinal = Len(turns) + 1]
      <4>1. "intend" \in Points /\ Len(turns) + 1 \in Nat BY <1>1 DEF Points, Inside, Asking
      <4>2. [my[m] EXCEPT !.pc = "intend", !.ordinal = Len(turns) + 1] \in Memory BY <1>1, <4>1, OrdinalFits
      <4>. QED BY <1>1, <3>2, <4>2
    <3>. QED BY <2>3, <3>1, <3>2 DEF Ask, To
  <2>4. CASE AnswerRefused(m) \/ Escalates(m) \/ RefuseAccept(m) \/ RoundUnfunded(m)
    <3>1. my' = [my EXCEPT ![m].pc = "halting"]
      BY <2>4 DEF AnswerRefused, Escalates, RefuseAccept, RoundUnfunded, To
    <3>. QED BY <1>1, <3>1, PointFits DEF Points, Inside
  <2>5. CASE Explore(m)
    BY <1>1, <2>5, RowFits DEF Explore, Points, Enter, Inside
  <2>6. CASE Synthesize(m)
    BY <1>1, <2>6, SynthesisFits DEF Synthesize, Points, Phases, Inside, Asking
  <2>7. CASE ClaimThrows(m) \/ Crash(m)
    BY <1>1, <1>2, <2>7 DEF ClaimThrows, Crash, Return
  <2>. QED BY <2>1, <2>2, <2>3, <2>4, <2>5, <2>6, <2>7
<1>4. UNCHANGED <<job, intact, run, turns, attempts, children, tries, plans, briefs, moves, starts>>
  BY DEF LoopThinks, LoopReviews, Ask, AnswerRefused, Escalates, RefuseAccept, Explore, RoundUnfunded, Synthesize,
         ClaimThrows, Crash, work, files
<1>. QED BY <1>3, <1>4 DEF LInv, Typed
(* The updates of the run row. *)

\* The row is a row whatever its status becomes, and keeps its attempts.
LEMMA StatusFits ==
  ASSUME NEW r \in RunRow, NEW s \in RunStatus
  PROVE  [r EXCEPT !.status = s] \in RunRow
BY DEF RunRow

\* The candidate is given up, or is another attempt.
LEMMA CandidateFits ==
  ASSUME NEW r \in RunRow, NEW s \in RunStatus, NEW c \in Nat \cup {None}
  PROVE  [r EXCEPT !.status = s, !.candidate = c] \in RunRow
BY DEF RunRow

\* The candidate is accepted.
LEMMA AcceptedFits ==
  ASSUME NEW r \in RunRow, NEW s \in RunStatus, NEW c \in Nat \cup {None}
  PROVE  [r EXCEPT !.status = s, !.accepted = c] \in RunRow
BY DEF RunRow

\* A round is opened.
LEMMA RoundFits ==
  ASSUME NEW r \in RunRow, NEW s \in RunStatus, NEW n \in 0..MaxRounds
  PROVE  [r EXCEPT !.status = s, !.xround = n] \in RunRow
BY DEF RunRow

\* A candidate is revised.
LEMMA RevisionFits ==
  ASSUME NEW r \in RunRow, NEW s \in RunStatus, NEW n \in 0..RevisionCap
  PROVE  [r EXCEPT !.rround = n, !.status = s] \in RunRow
BY DEF RunRow

\* A job starts with a row that has no candidate, and a row is never taken for a missing one.
LEMMA FreshFits == FreshRun \in RunRow /\ \A r \in RunRow : r # None
BY Caps, BoundsAssumption, NoneAssumption DEF FreshRun, RunRow, RunStatus

\* A step of the loop that writes the row, or the job, and no other table: everything stays in its type.
LEMMA RowSteps ==
  ASSUME LInv, NEW m \in Managers, RowStep(m)
  PROVE  Typed' /\ (run # None => run' # None)
<1>. USE DEF RowStep
<1>1. /\ my \in [Managers -> Memory] /\ my[m] \in Memory /\ run \in Maybe(RunRow)
      /\ job \in JobStatus /\ moves \in Nat /\ starts \in Nat
  BY DEF LInv, Typed
<1>2. MindOK(m) BY DEF LInv
<1>3. UNCHANGED <<intact, turns, attempts, children, tries, plans, briefs>>
  BY DEF Start, EnsureRun, LoopStops, EnterImplementing, Replan, EnterExploring, DecideRevise, Accept, Halt,
         EnterReviewing, work, files
<1>4. my[m].pc \in Inside \cup {"loop"} => run \in RunRow
  BY <1>1, <1>2 DEF MindOK, Inside, Asking, Maybe
<1>5. my[m].pc \in Inside => my[m].run \in RunRow
  BY <1>1, <1>2 DEF MindOK, Memory, Maybe
<1>6. Back(m) => my' \in [Managers -> Memory]
  <2>1. my[m].life \in Nat /\ "loop" \in Points BY <1>1 DEF Memory, Points, Outside
  <2>2. [Rest EXCEPT !.pc = "loop", !.life = my[m].life] \in Memory BY <2>1, RestFits
  <2>. QED BY <1>1, <2>2 DEF Back
<1>7. Return(m) => my' \in [Managers -> Memory]
  <2>1. Rest \in Memory BY RestFits DEF Points, Outside
  <2>. QED BY <1>1, <2>1 DEF Return
<1>8. \A pc \in Points : To(m, pc) => my' \in [Managers -> Memory]
  BY <1>1, PointFits DEF To
<1>9. my' \in [Managers -> Memory] /\ starts' \in Nat
  <2>1. CASE Start(m)
    <3>1. /\ starts + 1 \in Nat /\ {"opening", "loop"} \subseteq Points
          /\ starts' = starts + 1
      BY <1>1, <2>1 DEF Points, Outside, Start
    <3>2. PICK pc \in {"opening", "loop"} : my' = [my EXCEPT ![m] = [Rest EXCEPT !.pc = pc, !.life = starts + 1]]
      BY <2>1 DEF Start
    <3>3. [Rest EXCEPT !.pc = pc, !.life = starts + 1] \in Memory BY <3>1, RestFits
    <3>. QED BY <1>1, <3>1, <3>2, <3>3
  <2>2. CASE DecideRevise(m)
    <3>1. To(m, "revised") \/ To(m, "halting") BY <2>2 DEF DecideRevise
    <3>2. {"revised", "halting"} \subseteq Points BY DEF Points, Inside
    <3>3. starts' = starts BY <2>2 DEF DecideRevise
    <3>. QED BY <1>1, <1>8, <3>1, <3>2, <3>3
  <2>3. CASE EnsureRun(m) \/ LoopStops(m) \/ EnterImplementing(m) \/ Replan(m) \/ EnterExploring(m)
             \/ Accept(m) \/ Halt(m) \/ EnterReviewing(m)
    <3>1. Back(m) \/ Return(m)
      BY <2>3 DEF EnsureRun, LoopStops, EnterImplementing, Replan, EnterExploring, Accept, Halt, EnterReviewing
    <3>2. starts' = starts
      BY <2>3 DEF EnsureRun, LoopStops, EnterImplementing, Replan, EnterExploring, Accept, Halt, EnterReviewing
    <3>. QED BY <1>1, <1>6, <1>7, <3>1, <3>2
  <2>. QED BY <2>1, <2>2, <2>3
<1>10. moves' \in Nat
  BY <1>1 DEF Start, EnsureRun, LoopStops, EnterImplementing, Replan, EnterExploring, DecideRevise, Accept, Halt,
     EnterReviewing, Moved
<1>11. job' \in JobStatus
  BY <1>1 DEF Start, EnsureRun, LoopStops, EnterImplementing, Replan, EnterExploring, DecideRevise, Accept, Halt,
     EnterReviewing, JobStatus
<1>12. run' \in Maybe(RunRow) /\ (run # None => run' # None)
  <2>1. CASE Start(m)
    BY <1>1, <2>1 DEF Start
  <2>2. CASE EnsureRun(m)
    BY <1>1, <2>2, FreshFits DEF EnsureRun, Maybe
  <2>3. CASE LoopStops(m)
    <3>1. run \in RunRow BY <1>4, <2>3 DEF LoopStops, At
    <3>2. run' = run \/ run' = [run EXCEPT !.status = "CANCELLED"] BY <2>3 DEF LoopStops, Moved
    <3>. QED BY <3>1, <3>2, StatusFits, FreshFits DEF RunStatus, Stopped, Maybe
  <2>4. CASE EnterImplementing(m)
    <3>1. run \in RunRow BY <1>4, <2>4 DEF EnterImplementing, At, Inside
    <3>2. run.candidate \in Nat \cup {None} BY <3>1 DEF RunRow
    <3>3. PICK c \in Nat \cup {None} : run' = [run EXCEPT !.status = "IMPLEMENTING", !.candidate = c]
      BY <2>4, <3>2 DEF EnterImplementing, Moved
    <3>. QED BY <3>1, <3>3, CandidateFits, FreshFits DEF RunStatus, Maybe
  <2>5. CASE Replan(m)
    <3>1. run \in RunRow BY <1>4, <2>5 DEF Replan, Said, At, Inside, Asking
    <3>2. PICK s \in RunStatus : run' = [run EXCEPT !.status = s]
      BY <2>5 DEF Replan, ReplanStatus, Moved, RunStatus
    <3>. QED BY <3>1, <3>2, StatusFits, FreshFits DEF Maybe
  <2>6. CASE EnterExploring(m)
    <3>1. run \in RunRow BY <1>4, <2>6 DEF EnterExploring, At, Inside
    <3>2. my[m].run \in RunRow /\ my[m].run.xround + 1 <= MaxRounds
      BY <1>2, <1>5, <2>6 DEF EnterExploring, At, Inside, MindOK
    <3>3. my[m].run.xround + 1 \in 0..MaxRounds BY <3>2, BoundsAssumption DEF RunRow
    <3>4. run' = [run EXCEPT !.status = "EXPLORING", !.xround = my[m].run.xround + 1]
      BY <2>6 DEF EnterExploring, Moved
    <3>. QED BY <3>1, <3>3, <3>4, RoundFits, FreshFits DEF RunStatus, Maybe
  <2>7. CASE DecideRevise(m)
    <3>1. run \in RunRow /\ my[m].run \in RunRow BY <1>4, <1>5, <2>7 DEF DecideRevise, Said, At, Inside, Asking
    <3>2. CASE run' = run BY <3>1, <3>2 DEF Maybe
    <3>3. CASE run' # run
      <4>1. Revisable(m) /\ run' = [run EXCEPT !.rround = my[m].run.rround + 1, !.status = "IMPLEMENTING"]
        BY <2>7, <3>3 DEF DecideRevise, Moved
      <4>2. my[m].run.rround + 1 \in 0..RevisionCap
        <5>1. my[m].run.rround \in Nat BY <3>1 DEF RunRow
        <5>2. my[m].run.rround + 1 <= RevisionCap BY <4>1 DEF Revisable
        <5>. QED BY <5>1, <5>2, Caps
      <4>. QED BY <3>1, <4>1, <4>2, RevisionFits, FreshFits DEF RunStatus, Maybe
    <3>. QED BY <3>2, <3>3
  <2>8. CASE Accept(m)
    <3>1. run \in RunRow /\ my[m].run \in RunRow BY <1>4, <1>5, <2>8 DEF Accept, Said, At, Inside, Asking
    <3>2. my[m].run.candidate \in Nat \cup {None} BY <3>1 DEF RunRow
    <3>3. run' = [run EXCEPT !.status = "ACCEPTED", !.accepted = my[m].run.candidate]
      BY <2>8 DEF Accept, Moved
    <3>. QED BY <3>1, <3>2, <3>3, AcceptedFits, FreshFits DEF RunStatus, Stopped, Maybe
  <2>9. CASE Halt(m)
    <3>1. run \in RunRow BY <1>4, <2>9 DEF Halt, At, Inside
    <3>2. run' = [run EXCEPT !.status = "AWAITING_HUMAN"] BY <2>9 DEF Halt, Moved
    <3>. QED BY <3>1, <3>2, StatusFits, FreshFits DEF RunStatus, Stopped, Maybe
  <2>10. CASE EnterReviewing(m)
    <3>1. run \in RunRow BY <1>4, <2>10 DEF EnterReviewing, At, Inside
    <3>2. Len(attempts) \in Nat BY DEF LInv, Typed
    <3>3. run' = [run EXCEPT !.status = "REVIEWING", !.candidate = Len(attempts)]
      BY <2>10 DEF EnterReviewing, Moved
    <3>. QED BY <3>1, <3>2, <3>3, CandidateFits, FreshFits DEF RunStatus, Maybe
  <2>. QED BY <2>1, <2>2, <2>3, <2>4, <2>5, <2>6, <2>7, <2>8, <2>9, <2>10
<1>. QED BY <1>3, <1>9, <1>10, <1>11, <1>12 DEF LInv, Typed
(* The updates of the turns. *)

\* One row of a table is written: the table stays a table of such rows, of the same length.
LEMMA Written ==
  ASSUME NEW S, NEW s \in Seq(S), NEW n \in DOMAIN s, NEW v \in S
  PROVE  /\ [s EXCEPT ![n] = v] \in Seq(S)
         /\ Len([s EXCEPT ![n] = v]) = Len(s) /\ DOMAIN [s EXCEPT ![n] = v] = DOMAIN s
OBVIOUS

\* A row is added at the end.
LEMMA Added ==
  ASSUME NEW S, NEW s \in Seq(S), NEW v \in S
  PROVE  /\ Append(s, v) \in Seq(S)
         /\ Len(Append(s, v)) = Len(s) + 1 /\ DOMAIN Append(s, v) = DOMAIN s \cup {Len(s) + 1}
         /\ \A i \in DOMAIN s : Append(s, v)[i] = s[i]
         /\ Append(s, v)[Len(s) + 1] = v
OBVIOUS

\* A call is made.
LEMMA BilledFits ==
  ASSUME NEW r \in Turn
  PROVE  [r EXCEPT !.billed = TRUE] \in Turn
BY DEF Turn

\* A turn comes to its end.
LEMMA FinishedFits ==
  ASSUME NEW r \in Turn, NEW s \in {"COMPLETED", "FAILED", "UNCERTAIN"}, NEW d \in Maybe(Decisions), NEW b \in BOOLEAN
  PROVE  [r EXCEPT !.state = s, !.said = d, !.billed = b] \in Turn
BY DEF Turn

\* A turn is given up.
LEMMA UncertainFits ==
  ASSUME NEW r \in Turn
  PROVE  [r EXCEPT !.state = "UNCERTAIN"] \in Turn
BY DEF Turn

\* A turn is intended.
LEMMA IntendedFits ==
  ASSUME Typed, NEW m \in Managers, MindOK(m), my[m].pc = "intend"
  PROVE  NewTurn(m) \in Turn
<1>1. my[m] \in Memory /\ my[m].phase \in Phases /\ my[m].run \in RunRow
  BY DEF Typed, MindOK, Asking, Inside, Memory, Maybe
<1>2. my[m].life \in Nat /\ moves \in Nat BY <1>1 DEF Memory, Typed
<1>3. Subject(m) \in Maybe(Nat) BY <1>1 DEF Subject, RunRow, Maybe
<1>. QED BY <1>1, <1>2, <1>3 DEF NewTurn, Turn, Maybe

\* finishTurn leaves a table of turns.
LEMMA Finishes ==
  ASSUME Typed, NEW m \in Managers, MindOK(m), my[m].pc = "asked",
         NEW s \in {"COMPLETED", "FAILED", "UNCERTAIN"}, NEW d \in Maybe(Decisions), NEW b \in BOOLEAN,
         FinishTurn(m, s, d, b)
  PROVE  /\ turns' \in Seq(Turn) /\ DOMAIN turns' = DOMAIN turns /\ Len(turns') = Len(turns)
         /\ my[m].ordinal \in DOMAIN turns
         /\ turns' = [turns EXCEPT ![my[m].ordinal] =
                        [turns[my[m].ordinal] EXCEPT !.state = s, !.said = d, !.billed = b]]
<1>1. my[m].ordinal \in DOMAIN turns /\ turns \in Seq(Turn) BY DEF Typed, MindOK, Own
<1>2. turns[my[m].ordinal] \in Turn BY <1>1
<1>3. [turns[my[m].ordinal] EXCEPT !.state = s, !.said = d, !.billed = b] \in Turn BY <1>2, FinishedFits
<1>4. turns' = [turns EXCEPT ![my[m].ordinal] =
                  [turns[my[m].ordinal] EXCEPT !.state = s, !.said = d, !.billed = b]]
  BY DEF FinishTurn
<1>. QED BY <1>1, <1>3, <1>4, Written

\* A step that writes a turn: everything stays in its type.
LEMMA TurnSteps ==
  ASSUME LInv, NEW m \in Managers, TurnStep(m)
  PROVE  Typed'
<1>. USE DEF TurnStep
<1>1. /\ my \in [Managers -> Memory] /\ my[m] \in Memory /\ run \in Maybe(RunRow)
      /\ turns \in Seq(Turn) /\ job \in JobStatus /\ moves \in Nat /\ Typed
  BY DEF LInv, Typed
<1>2. MindOK(m) BY DEF LInv
<1>3. UNCHANGED <<intact, attempts, children, tries, plans, briefs, starts>>
  BY DEF Intend, Call, Answers, AnswersBadly, StaleThread, ReconcileTurn, work, files
<1>4. {"called", "asked", "decided", "halting", "turn", "settling", "idle"} \subseteq Points
  BY DEF Points, Outside, Inside, Asking
<1>5. \A pc \in Points : To(m, pc) => my' \in [Managers -> Memory]
  BY <1>1, PointFits DEF To
<1>6. Rest \in Memory BY <1>4, RestFits
<1>7. ASSUME Intend(m) \/ Call(m) \/ Answers(m) \/ AnswersBadly(m) \/ StaleThread(m)
      PROVE  job' \in JobStatus /\ run' \in Maybe(RunRow) /\ moves' \in Nat
  BY <1>1, <1>7 DEF Intend, Call, Answers, AnswersBadly, StaleThread
<1>8. CASE Intend(m)
  <2>1. turns' \in Seq(Turn)
    <3>1. turns' = turns \/ turns' = Append(turns, NewTurn(m)) BY <1>8 DEF Intend
    <3>2. NewTurn(m) \in Turn BY <1>1, <1>2, <1>8, IntendedFits DEF Intend, At
    <3>. QED BY <1>1, <3>1, <3>2, Added
  <2>2. my' \in [Managers -> Memory] BY <1>1, <1>4, <1>5, <1>6, <1>8 DEF Intend, Return
  <2>. QED BY <1>1, <1>3, <1>7, <1>8, <2>1, <2>2 DEF Typed
<1>9. CASE Call(m)
  <2>1. turns' \in Seq(Turn)
    <3>1. my[m].ordinal \in DOMAIN turns BY <1>2, <1>9 DEF Call, At, MindOK, Own
    <3>2. [turns[my[m].ordinal] EXCEPT !.billed = TRUE] \in Turn BY <1>1, <3>1, BilledFits
    <3>3. turns' = [turns EXCEPT ![my[m].ordinal] = [turns[my[m].ordinal] EXCEPT !.billed = TRUE]]
      BY <1>9 DEF Call
    <3>. QED BY <1>1, <3>1, <3>2, <3>3, Written
  <2>2. my' \in [Managers -> Memory] BY <1>4, <1>5, <1>9 DEF Call
  <2>. QED BY <1>1, <1>3, <1>7, <1>9, <2>1, <2>2 DEF Typed
<1>10. CASE Answers(m)
  <2>1. PICK d \in Decisions : /\ FinishTurn(m, "COMPLETED", d, TRUE)
                               /\ my' = [my EXCEPT ![m].pc = "decided", ![m].said = d]
    BY <1>10 DEF Answers
  <2>2. turns' \in Seq(Turn) BY <1>1, <1>2, <1>10, <2>1, Finishes DEF Answers, At, Maybe
  <2>3. [my[m] EXCEPT !.pc = "decided", !.said = d] \in Memory BY <1>1, <1>4, DecisionFits
  <2>4. my' \in [Managers -> Memory] BY <1>1, <2>1, <2>3
  <2>. QED BY <1>1, <1>3, <1>7, <1>10, <2>2, <2>4 DEF Typed
<1>11. CASE AnswersBadly(m)
  <2>1. PICK s \in {"COMPLETED", "FAILED", "UNCERTAIN"}, b \in BOOLEAN : FinishTurn(m, s, None, b)
    BY <1>11 DEF AnswersBadly
  <2>2. turns' \in Seq(Turn) BY <1>1, <1>2, <1>11, <2>1, Finishes DEF AnswersBadly, At, Maybe
  <2>3. my' \in [Managers -> Memory] BY <1>4, <1>5, <1>11 DEF AnswersBadly
  <2>. QED BY <1>1, <1>3, <1>7, <1>11, <2>2, <2>3 DEF Typed
<1>12. CASE StaleThread(m)
  <2>1. FinishTurn(m, "FAILED", None, FALSE) BY <1>12 DEF StaleThread
  <2>2. turns' \in Seq(Turn) BY <1>1, <1>2, <1>12, <2>1, Finishes DEF StaleThread, At, Maybe
  <2>3. my' \in [Managers -> Memory]
    <3>1. [my[m] EXCEPT !.pc = "turn", !.rolled = TRUE] \in Memory BY <1>1, <1>4, ThreadFits
    <3>2. my' = [my EXCEPT ![m].pc = "turn", ![m].rolled = TRUE] BY <1>12 DEF StaleThread
    <3>. QED BY <1>1, <3>1, <3>2
  <2>. QED BY <1>1, <1>3, <1>7, <1>12, <2>2, <2>3 DEF Typed
<1>13. CASE ReconcileTurn(m)
  <2>1. PICK n \in my[m].stranded :
           /\ turns' = [turns EXCEPT ![n].state = "UNCERTAIN"]
           /\ IF my[m].stranded = {n} THEN Return(m) ELSE my' = [my EXCEPT ![m].stranded = my[m].stranded \ {n}]
    BY <1>13 DEF ReconcileTurn
  <2>2. turns' \in Seq(Turn)
    <3>1. n \in DOMAIN turns BY <1>2, <1>13 DEF ReconcileTurn, At, MindOK
    <3>2. [turns[n] EXCEPT !.state = "UNCERTAIN"] \in Turn BY <1>1, <3>1, UncertainFits
    <3>3. turns' = [turns EXCEPT ![n] = [turns[n] EXCEPT !.state = "UNCERTAIN"]] BY <2>1
    <3>. QED BY <1>1, <3>1, <3>2, <3>3, Written
  <2>3. my' \in [Managers -> Memory]
    <3>1. my[m].stranded \ {n} \in SUBSET Nat BY <1>1 DEF Memory
    <3>2. [my[m] EXCEPT !.stranded = my[m].stranded \ {n}] \in Memory BY <1>1, <3>1 DEF Memory
    <3>. QED BY <1>1, <1>6, <2>1, <3>2 DEF Return
  <2>4. run' \in Maybe(RunRow)
    <3>1. run \in RunRow BY <1>1, <1>2, <1>13 DEF ReconcileTurn, At, MindOK, Maybe
    <3>2. run' = [run EXCEPT !.status = "AWAITING_HUMAN"] BY <1>13 DEF ReconcileTurn, Moved
    <3>. QED BY <3>1, <3>2, StatusFits DEF RunStatus, Stopped, Maybe
  <2>5. job' \in JobStatus /\ moves' \in Nat BY <1>1, <1>13 DEF ReconcileTurn, Moved, JobStatus
  <2>. QED BY <1>1, <1>3, <2>2, <2>3, <2>4, <2>5 DEF Typed
<1>. QED BY <1>8, <1>9, <1>10, <1>11, <1>12, <1>13
\* A step that writes a file of the control directory: everything stays in its type.
LEMMA FileSteps ==
  ASSUME LInv, NEW m \in Managers, FileStep(m)
  PROVE  Typed'
<1>. USE DEF FileStep
<1>1. /\ my \in [Managers -> Memory] /\ my[m] \in Memory /\ run \in Maybe(RunRow)
      /\ plans \in [1..MaxRounds -> Maybe(SUBSET Questions)] /\ briefs \in [Slots -> Maybe(Briefs)]
  BY DEF LInv, Typed
<1>2. MindOK(m) BY DEF LInv
<1>3. UNCHANGED <<job, intact, run, turns, attempts, children, tries, moves, starts>>
  BY DEF DecideImplement, DecideExplore, StoreRevisedBrief, work
<1>4. {"briefed", "planned", "halting", "loop"} \subseteq Points BY DEF Points, Outside, Inside
<1>5. \A pc \in Points : To(m, pc) => my' \in [Managers -> Memory]
  BY <1>1, PointFits DEF To
<1>6. run \in RunRow /\ my[m].run \in Maybe(RunRow)
  BY <1>1, <1>2 DEF DecideImplement, DecideExplore, StoreRevisedBrief, Said, At, MindOK, Maybe, Memory
<1>7. CASE DecideImplement(m)
  <2>1. my[m].said \in Decisions /\ my[m].said.action = "IMPLEMENT"
    BY <1>2, <1>7 DEF DecideImplement, Said, At, MindOK
  <2>2. my[m].said.brief \in Briefs BY <2>1, DecisionShape
  <2>3. briefs' \in [Slots -> Maybe(Briefs)] BY <1>1, <1>7, <2>2 DEF DecideImplement, Maybe
  <2>4. my' \in [Managers -> Memory] /\ plans' = plans BY <1>4, <1>5, <1>7 DEF DecideImplement
  <2>. QED BY <1>3, <2>3, <2>4 DEF LInv, Typed
<1>8. CASE DecideExplore(m)
  <2>1. my[m].said \in Decisions BY <1>2, <1>8 DEF DecideExplore, Said, At, MindOK
  <2>2. my[m].said.questions \in SUBSET Questions BY <2>1, DecisionShape
  <2>3. plans' \in [1..MaxRounds -> Maybe(SUBSET Questions)]
    BY <1>1, <1>8, <2>2 DEF DecideExplore, Maybe
  <2>4. my' \in [Managers -> Memory]
    <3>1. To(m, "halting") \/ Enter(m, "planned", RoundFrom(m)) BY <1>8 DEF DecideExplore
    <3>2. RoundFrom(m) \in Maybe(RunRow) BY <1>6 DEF RoundFrom, Maybe
    <3>3. [my[m] EXCEPT !.pc = "planned", !.run = RoundFrom(m)] \in Memory BY <1>1, <1>4, <3>2, RowFits
    <3>4. Enter(m, "planned", RoundFrom(m)) => my' \in [Managers -> Memory] BY <1>1, <3>3 DEF Enter
    <3>. QED BY <1>4, <1>5, <3>1, <3>4
  <2>5. briefs' = briefs BY <1>8 DEF DecideExplore
  <2>. QED BY <1>1, <1>3, <2>3, <2>4, <2>5 DEF LInv, Typed
<1>9. CASE StoreRevisedBrief(m)
  <2>1. my[m].said.brief \in Briefs BY <1>2, <1>9 DEF StoreRevisedBrief, At, MindOK
  <2>2. briefs' \in [Slots -> Maybe(Briefs)] BY <1>1, <1>9, <2>1 DEF StoreRevisedBrief, Maybe
  <2>3. my' \in [Managers -> Memory]
    <3>1. [Rest EXCEPT !.pc = "loop", !.life = my[m].life] \in Memory BY <1>1, <1>4, RestFits DEF Memory
    <3>. QED BY <1>1, <1>9, <3>1 DEF StoreRevisedBrief, Back
  <2>4. plans' = plans BY <1>9 DEF StoreRevisedBrief
  <2>. QED BY <1>1, <1>3, <2>2, <2>3, <2>4 DEF LInv, Typed
<1>. QED BY <1>7, <1>8, <1>9

\* The attempt a worker is claimed for is one, and stays one whatever becomes of it.
LEMMA AttemptFits ==
  /\ \A o \in Order : NewAttempt(o) \in Attempt
  /\ \A a \in Attempt : [a EXCEPT !.terminal = "CANCELLED"] \in Attempt
BY DEF NewAttempt, Order, Attempt

\* An attempt that ends stays one attempt of the table, and no other changes.
LEMMA Ends ==
  ASSUME Typed, NEW a \in DOMAIN attempts, NEW t \in {"SUCCEEDED", "FAILED"},
         NEW v \in {"NOT_RUN", "PASSED", "FAILED"}, NEW c \in BOOLEAN, Ended(a, t, v, c)
  PROVE  /\ attempts' \in Seq(Attempt) /\ DOMAIN attempts' = DOMAIN attempts
         /\ \A k \in DOMAIN attempts \ {a} : attempts'[k] = attempts[k]
<1>1. attempts \in Seq(Attempt) /\ attempts[a] \in Attempt BY DEF Typed
<1>2. [attempts[a] EXCEPT !.terminal = t, !.validation = v, !.commit = c] \in Attempt BY <1>1 DEF Attempt
<1>3. attempts' = [attempts EXCEPT ![a] = [attempts[a] EXCEPT !.terminal = t, !.validation = v, !.commit = c]]
  BY DEF Ended
<1>4. attempts' \in Seq(Attempt) /\ DOMAIN attempts' = DOMAIN attempts BY <1>1, <1>2, <1>3, Written
<1>5. \A k \in DOMAIN attempts \ {a} : attempts'[k] = attempts[k] BY <1>1, <1>3
<1>. QED BY <1>4, <1>5

\* The instruction of a worker: a brief, its digest and where it starts.
LEMMA Instructs ==
  ASSUME Typed, NEW b \in Briefs
  PROVE  Instruction(b) \in Order
<1>1. Len(attempts) \in Nat BY DEF Typed
<1>2. StartSha \in Nat BY <1>1 DEF StartSha
<1>3. Digest(b) \in Digests BY <1>1 DEF Digest, Digests
<1>. QED BY <1>2, <1>3 DEF Instruction, Order
\* A cancelled job has the attempts it had; the live ones are cancelled.
LEMMA Cancels ==
  ASSUME Typed, CancelJob
  PROVE  /\ attempts' \in Seq(Attempt) /\ DOMAIN attempts' = DOMAIN attempts
         /\ \A a \in DOMAIN attempts : ~Live(a) => attempts'[a] = attempts[a]
         /\ children' \in [Questions -> ChildStatus]
         /\ job' \in JobStatus
<1>1. attempts \in Seq(Attempt) /\ children \in [Questions -> ChildStatus] /\ job \in JobStatus BY DEF Typed
<1>2. attempts' = [a \in 1..Len(attempts) |->
         IF Live(a) THEN [attempts[a] EXCEPT !.terminal = "CANCELLED"] ELSE attempts[a]]
  BY <1>1 DEF CancelJob
<1>3. \A a \in 1..Len(attempts) :
         (IF Live(a) THEN [attempts[a] EXCEPT !.terminal = "CANCELLED"] ELSE attempts[a]) \in Attempt
  BY <1>1, AttemptFits
<1>4. attempts' \in Seq(Attempt) BY <1>1, <1>2, <1>3
<1>5. children' \in [Questions -> ChildStatus] BY <1>1 DEF CancelJob, ChildStatus
<1>6. job' \in JobStatus BY <1>1 DEF CancelJob, JobStatus
<1>7. DOMAIN attempts' = DOMAIN attempts /\ \A a \in DOMAIN attempts : ~Live(a) => attempts'[a] = attempts[a]
  BY <1>1, <1>2
<1>. QED BY <1>4, <1>5, <1>6, <1>7

\* A step of a worker, or of an investigation: everything stays in its type.
LEMMA WorkSteps ==
  ASSUME LInv, NEW m \in Managers, WorkStep(m)
  PROVE  Typed'
<1>. USE DEF WorkStep
<1>1. /\ my \in [Managers -> Memory] /\ my[m] \in Memory /\ run \in Maybe(RunRow) /\ job \in JobStatus
      /\ attempts \in Seq(Attempt) /\ turns \in Seq(Turn) /\ starts \in Nat
      /\ children \in [Questions -> ChildStatus] /\ tries \in [Questions -> Nat]
      /\ plans \in [1..MaxRounds -> Maybe(SUBSET Questions)] /\ briefs \in [Slots -> Maybe(Briefs)] /\ Typed
  BY DEF LInv, Typed
<1>2. MindOK(m) BY DEF LInv
<1>3. UNCHANGED <<run, turns, plans, briefs, moves>>
  BY DEF Implement, Release, CreateChild, LaunchRound, ChildEnds, ClaimAttempt, WorkerPasses, WorkerFails,
         ReconcileReads, work, files
<1>4. {"halting", "instructed", "claim", "working", "exploring", "settling"} \subseteq Points
  BY DEF Points, Outside, Inside
<1>5. AfterFailure \in JobStatus BY DEF AfterFailure, JobStatus
<1>6. CASE Implement(m)
  <2>1. UNCHANGED <<job, intact, attempts, children, tries, starts>> BY <1>6 DEF Implement, work
  <2>2. CASE Enter(m, "halting", run)
    <3>1. [my[m] EXCEPT !.pc = "halting", !.run = run] \in Memory BY <1>1, <1>4, RowFits
    <3>. QED BY <1>1, <1>3, <2>1, <2>2, <3>1 DEF Enter, Typed
  <2>3. CASE ~Enter(m, "halting", run)
    <3>1. PICK b : b = briefs[Slot(run)] OBVIOUS
    <3>2. b # None /\ my' = [my EXCEPT ![m].pc = "instructed", ![m].run = run, ![m].told = Instruction(b)]
      BY <1>6, <2>3, <3>1 DEF Implement
    <3>3. run \in RunRow BY <1>1, <1>2, <1>6 DEF Implement, Going, At, MindOK, Maybe
    <3>4. Slot(run) \in Slots BY <3>3, Caps DEF Slot, RunRow
    <3>5. b \in Briefs BY <1>1, <3>1, <3>2, <3>4 DEF Maybe
    <3>6. [my[m] EXCEPT !.pc = "instructed", !.run = run, !.told = Instruction(b)] \in Memory
      BY <1>1, <1>4, <3>5, Instructs, OrderFits
    <3>7. my' \in [Managers -> Memory] BY <1>1, <3>2, <3>6
    <3>. QED BY <1>1, <1>3, <2>1, <3>7 DEF Typed
  <2>. QED BY <2>2, <2>3
<1>7. CASE \E q \in Questions : CreateChild(m, q)
  BY <1>1, <1>3, <1>7 DEF CreateChild, Typed, ChildStatus
<1>8. CASE LaunchRound(m)
  <2>1. PICK S \in SUBSET { k \in Pending(m) : ChildClaimable(k) } :
           /\ children' = [k \in Questions |-> IF k \in S THEN "RUNNING" ELSE children[k]]
           /\ tries' = [k \in Questions |-> IF k \in S THEN tries[k] + 1 ELSE tries[k]]
           /\ my' = [my EXCEPT ![m].pc = "exploring", ![m].launched = S]
    BY <1>8 DEF LaunchRound
  <2>2. Plan(m) \in SUBSET Questions
    BY <1>1, <1>2, <1>8 DEF LaunchRound, At, MindOK, Plan, Maybe
  <2>3. S \in SUBSET Questions BY <2>1, <2>2 DEF Pending
  <2>4. [my[m] EXCEPT !.pc = "exploring", !.launched = S] \in Memory BY <1>1, <1>4, <2>3, LaunchFits
  <2>5. my' \in [Managers -> Memory] BY <1>1, <2>1, <2>4
  <2>6. children' \in [Questions -> ChildStatus] /\ tries' \in [Questions -> Nat] BY <1>1, <2>1 DEF ChildStatus
  <2>7. UNCHANGED <<job, intact, attempts, starts>> BY <1>8 DEF LaunchRound
  <2>. QED BY <1>1, <1>3, <2>5, <2>6, <2>7 DEF Typed
<1>9. CASE \E q \in Questions : ChildEnds(m, q)
  BY <1>1, <1>3, <1>9 DEF ChildEnds, Typed, ChildStatus
<1>10. CASE ClaimAttempt(m)
  <2>1. my[m].told \in Order BY <1>2, <1>10 DEF ClaimAttempt, At, MindOK
  <2>2. NewAttempt(my[m].told) \in Attempt BY <2>1, AttemptFits
  <2>3. attempts' = Append(attempts, NewAttempt(my[m].told)) BY <1>10 DEF ClaimAttempt
  <2>4. attempts' \in Seq(Attempt) BY <1>1, <2>2, <2>3, Added
  <2>5. [my[m] EXCEPT !.pc = "working", !.worker = Len(attempts) + 1] \in Memory
    <3>1. Len(attempts) + 1 \in Nat BY <1>1
    <3>. QED BY <1>1, <1>4, <3>1, WorkerFits
  <2>6. my' = [my EXCEPT ![m].pc = "working", ![m].worker = Len(attempts) + 1] BY <1>10 DEF ClaimAttempt
  <2>7. my' \in [Managers -> Memory] BY <1>1, <2>5, <2>6
  <2>8. job' = "RUNNING" /\ UNCHANGED <<intact, children, tries, starts>> BY <1>10 DEF ClaimAttempt
  <2>. QED BY <1>1, <1>3, <2>4, <2>7, <2>8 DEF Typed, JobStatus
<1>11. CASE WorkerPasses(m) \/ WorkerFails(m)
  <2>1. my[m].worker \in DOMAIN attempts BY <1>2, <1>11 DEF WorkerPasses, WorkerFails, At, MindOK
  <2>2. PICK t \in {"SUCCEEDED", "FAILED"}, v \in {"NOT_RUN", "PASSED", "FAILED"}, c \in BOOLEAN :
           Ended(my[m].worker, t, v, c)
    BY <1>11 DEF WorkerPasses, WorkerFails
  <2>3. attempts' \in Seq(Attempt) BY <1>1, <2>1, <2>2, Ends
  <2>4. job' \in JobStatus BY <1>5, <1>11 DEF WorkerPasses, WorkerFails, JobStatus
  <2>5. UNCHANGED <<intact, children, tries, my, starts>> BY <1>11 DEF WorkerPasses, WorkerFails
  <2>. QED BY <1>1, <1>3, <2>3, <2>4, <2>5 DEF Typed
<1>12. CASE ReconcileReads(m)
  <2>1. PICK ns : ns = { n \in DOMAIN turns : ~Terminal(turns[n]) } OBVIOUS
  <2>2. ns \in SUBSET Nat BY <1>1, <2>1
  <2>3. my' = [my EXCEPT ![m].pc = "settling", ![m].stranded = ns] BY <1>12, <2>1 DEF ReconcileReads
  <2>4. [my[m] EXCEPT !.pc = "settling", !.stranded = ns] \in Memory BY <1>1, <1>4, <2>2, StrandedFits
  <2>5. my' \in [Managers -> Memory] BY <1>1, <2>3, <2>4
  <2>6. starts' \in Nat /\ UNCHANGED <<job, intact, attempts, children, tries>>
    BY <1>1, <1>12 DEF ReconcileReads, work
  <2>. QED BY <1>1, <1>3, <2>5, <2>6 DEF Typed
<1>13. CASE Release(m)
  <2>1. job' = "PENDING" /\ my' = [my EXCEPT ![m].pc = "claim"] BY <1>13 DEF Release, To
  <2>2. [my[m] EXCEPT !.pc = "claim"] \in Memory BY <1>1, <1>4, PointFits
  <2>3. my' \in [Managers -> Memory] BY <1>1, <2>1, <2>2
  <2>4. UNCHANGED <<intact, attempts, children, tries, starts>> BY <1>13 DEF Release, work
  <2>. QED BY <1>1, <1>3, <2>1, <2>3, <2>4 DEF Typed, JobStatus
<1>. QED BY <1>6, <1>7, <1>8, <1>9, <1>10, <1>11, <1>12, <1>13

\* A step of the operator, of a developer or of the dispatcher's recovery: everything stays in its type.
LEMMA WorldSteps ==
  ASSUME LInv, WorldStep
  PROVE  Typed'
<1>. USE DEF WorldStep
<1>1. /\ my \in [Managers -> Memory] /\ job \in JobStatus /\ attempts \in Seq(Attempt)
      /\ children \in [Questions -> ChildStatus] /\ Typed
  BY DEF LInv, Typed
<1>2. UNCHANGED <<run, turns, plans, briefs, moves>>
  BY DEF CancelJob, BranchMoves, WorkerLost, work, files
<1>3. AfterFailure \in JobStatus BY DEF AfterFailure, JobStatus
<1>4. CASE CancelJob
  <2>1. UNCHANGED <<intact, tries, my, starts>> BY <1>4 DEF CancelJob
  <2>. QED BY <1>1, <1>2, <1>4, <2>1, Cancels DEF Typed
<1>5. CASE BranchMoves
  BY <1>1, <1>2, <1>5 DEF BranchMoves, Typed, work
<1>6. CASE WorkerLost
  <2>1. CASE \E a \in DOMAIN attempts : Abandoned(a) /\ Ended(a, "FAILED", "NOT_RUN", FALSE)
    <3>1. PICK a \in DOMAIN attempts : Ended(a, "FAILED", "NOT_RUN", FALSE) BY <2>1
    <3>2. attempts' \in Seq(Attempt) BY <1>1, <3>1, Ends
    <3>3. job' \in JobStatus /\ children' \in [Questions -> ChildStatus] /\ UNCHANGED <<intact, tries, my, starts>>
      BY <1>1, <1>3, <1>6 DEF WorkerLost, ChildStatus
    <3>. QED BY <1>1, <1>2, <3>2, <3>3 DEF Typed
  <2>2. CASE ~ \E a \in DOMAIN attempts : Abandoned(a) /\ Ended(a, "FAILED", "NOT_RUN", FALSE)
    <3>1. /\ \E k \in Questions : Orphan(k) /\ children' = [children EXCEPT ![k] = "NEEDS_ATTENTION"]
          /\ UNCHANGED <<job, intact, attempts, tries, my, starts>>
      BY <1>6, <2>2 DEF WorkerLost
    <3>. QED BY <1>1, <1>2, <3>1 DEF Typed, ChildStatus
  <2>. QED BY <2>1, <2>2
<1>. QED BY <1>4, <1>5, <1>6
-----------------------------------------------------------------------------
(***************************************************************************)
(* What is never taken back: the row, an attempt, what a turn is about,    *)
(* how it ended, the plan of a round.                                      *)
(***************************************************************************)
Grows ==
  /\ run # None => run' # None
  /\ DOMAIN attempts \subseteq DOMAIN attempts'
  /\ DOMAIN turns \subseteq DOMAIN turns'
  /\ \A n \in DOMAIN turns :
       /\ turns'[n].phase = turns[n].phase /\ turns'[n].subject = turns[n].subject
       /\ turns'[n].life = turns[n].life /\ turns'[n].question = turns[n].question
       /\ Terminal(turns[n]) => Terminal(turns'[n]) /\ turns'[n].said = turns[n].said
  /\ \A r \in 1..MaxRounds : plans[r] # None => plans'[r] # None

\* What a process does to its turn leaves what the turn is about.
LEMMA TurnsGrow ==
  ASSUME LInv, Typed', NEW m \in Managers, TurnStep(m)
  PROVE  /\ DOMAIN turns \subseteq DOMAIN turns'
         /\ \A n \in DOMAIN turns :
              /\ turns'[n].phase = turns[n].phase /\ turns'[n].subject = turns[n].subject
              /\ turns'[n].life = turns[n].life /\ turns'[n].question = turns[n].question
              /\ Terminal(turns[n]) => Terminal(turns'[n]) /\ turns'[n].said = turns[n].said
<1>. USE DEF TurnStep
<1>1. turns \in Seq(Turn) /\ turns' \in Seq(Turn) /\ MindOK(m) /\ Typed BY DEF LInv, Typed
<1>2. CASE Intend(m)
  <2>1. turns' = turns \/ turns' = Append(turns, NewTurn(m)) BY <1>2 DEF Intend
  <2>2. NewTurn(m) \in Turn BY <1>1, <1>2, IntendedFits DEF Intend, At
  <2>3. DOMAIN turns \subseteq DOMAIN turns' /\ \A n \in DOMAIN turns : turns'[n] = turns[n]
    BY <1>1, <2>1, <2>2, Added
  <2>. QED BY <2>3
<1>3. CASE Call(m)
  <2>1. turns' = [turns EXCEPT ![my[m].ordinal].billed = TRUE] BY <1>3 DEF Call
  <2>2. DOMAIN turns' = DOMAIN turns BY <2>1
  <2>3. ASSUME NEW n \in DOMAIN turns
        PROVE  /\ turns'[n].phase = turns[n].phase /\ turns'[n].subject = turns[n].subject
               /\ turns'[n].life = turns[n].life /\ turns'[n].question = turns[n].question
               /\ turns'[n].state = turns[n].state /\ turns'[n].said = turns[n].said
    <3>1. turns[n] \in Turn BY <1>1
    <3>2. turns'[n] = IF n = my[m].ordinal THEN [turns[n] EXCEPT !.billed = TRUE] ELSE turns[n] BY <2>1
    <3>. QED BY <3>1, <3>2 DEF Turn
  <2>. QED BY <2>2, <2>3 DEF Terminal
<1>4. CASE Answers(m) \/ AnswersBadly(m) \/ StaleThread(m)
  <2>1. PICK s \in {"COMPLETED", "FAILED", "UNCERTAIN"}, d \in Maybe(Decisions), b \in BOOLEAN :
           FinishTurn(m, s, d, b)
    BY <1>4 DEF Answers, AnswersBadly, StaleThread, Maybe
  <2>2. PICK i : i = my[m].ordinal OBVIOUS
  <2>3. /\ i \in DOMAIN turns /\ DOMAIN turns' = DOMAIN turns
        /\ turns' = [turns EXCEPT ![i] = [turns[i] EXCEPT !.state = s, !.said = d, !.billed = b]]
    <3>1. my[m].pc = "asked" BY <1>4 DEF Answers, AnswersBadly, StaleThread, At
    <3>2. i \in DOMAIN turns BY <1>1, <2>2, <3>1 DEF MindOK, Own
    <3>3. turns' = [turns EXCEPT ![i] = [turns[i] EXCEPT !.state = s, !.said = d, !.billed = b]]
      BY <2>1, <2>2 DEF FinishTurn
    <3>. QED BY <3>2, <3>3
  <2>4. ~Terminal(turns[i]) BY <2>1, <2>2 DEF FinishTurn
  <2>5. turns[i] \in Turn BY <1>1, <2>3
  <2>6. /\ turns'[i].phase = turns[i].phase /\ turns'[i].subject = turns[i].subject
        /\ turns'[i].life = turns[i].life /\ turns'[i].question = turns[i].question
    BY <1>1, <2>3, <2>5 DEF Turn
  <2>7. \A n \in DOMAIN turns : n # i => turns'[n] = turns[n] BY <1>1, <2>3
  <2>8. ASSUME NEW n \in DOMAIN turns
        PROVE  /\ turns'[n].phase = turns[n].phase /\ turns'[n].subject = turns[n].subject
               /\ turns'[n].life = turns[n].life /\ turns'[n].question = turns[n].question
               /\ Terminal(turns[n]) => Terminal(turns'[n]) /\ turns'[n].said = turns[n].said
    <3>1. CASE n = i BY <2>4, <2>6, <3>1
    <3>2. CASE n # i BY <2>7, <3>2
    <3>. QED BY <3>1, <3>2
  <2>. QED BY <2>3, <2>8
<1>5. CASE ReconcileTurn(m)
  <2>1. PICK i \in my[m].stranded : turns' = [turns EXCEPT ![i].state = "UNCERTAIN"] BY <1>5 DEF ReconcileTurn
  <2>. QED BY <1>1, <2>1 DEF Turn, Terminal
<1>. QED BY <1>2, <1>3, <1>4, <1>5

\* Every step takes nothing of this back.
LEMMA Growth ==
  ASSUME LInv, Typed', [Next]_vars
  PROVE  Grows
<1>1. /\ turns \in Seq(Turn) /\ attempts \in Seq(Attempt) /\ run \in Maybe(RunRow) /\ run' \in Maybe(RunRow)
      /\ plans \in [1..MaxRounds -> Maybe(SUBSET Questions)]
  BY DEF LInv, Typed
<1>2. ASSUME turns' = turns, plans' = plans, DOMAIN attempts \subseteq DOMAIN attempts', run # None => run' # None
      PROVE  Grows
  BY <1>2 DEF Grows
<1>3. \A r \in RunRow : r # None BY FreshFits
<1>4. ASSUME NEW m \in Managers, MindStep(m) PROVE Grows
  BY <1>2, <1>4 DEF MindStep, LoopThinks, LoopReviews, Ask, AnswerRefused, Escalates, RefuseAccept, Explore,
     RoundUnfunded, Synthesize, ClaimThrows, Crash, work, files
<1>5. ASSUME NEW m \in Managers, RowStep(m) PROVE Grows
  <2>1. turns' = turns /\ plans' = plans /\ attempts' = attempts
    BY <1>5 DEF RowStep, Start, EnsureRun, LoopStops, EnterImplementing, Replan, EnterExploring, DecideRevise,
       Accept, Halt, EnterReviewing, work, files
  <2>2. run # None => run' # None BY <1>5, RowSteps
  <2>. QED BY <1>2, <2>1, <2>2
<1>6. ASSUME NEW m \in Managers, TurnStep(m) PROVE Grows
  <2>1. plans' = plans /\ attempts' = attempts
    BY <1>6 DEF TurnStep, Intend, Call, Answers, AnswersBadly, StaleThread, ReconcileTurn, work, files
  <2>2. run # None => run' # None
    <3>1. CASE run' = run BY <3>1
    <3>2. CASE run' # run
      <4>1. run' = [run EXCEPT !.status = "AWAITING_HUMAN"]
        BY <1>6, <3>2 DEF TurnStep, Intend, Call, Answers, AnswersBadly, StaleThread, ReconcileTurn, Moved
      <4>. QED BY <1>1, <1>3, <4>1, StatusFits DEF RunStatus, Stopped, Maybe
    <3>. QED BY <3>1, <3>2
  <2>3. DOMAIN attempts \subseteq DOMAIN attempts' /\ \A r \in 1..MaxRounds : plans[r] # None => plans'[r] # None
    BY <2>1
  <2>. QED BY <1>6, <2>2, <2>3, TurnsGrow DEF Grows
<1>7. ASSUME NEW m \in Managers, FileStep(m) PROVE Grows
  <2>1. /\ UNCHANGED <<turns, attempts, run>> /\ MindOK(m)
    BY <1>7 DEF FileStep, DecideImplement, DecideExplore, StoreRevisedBrief, work, LInv
  <2>2. \A r \in 1..MaxRounds : plans[r] # None => plans'[r] # None
    <3>1. CASE plans' = plans BY <3>1
    <3>2. CASE plans' # plans
      <4>1. DecideExplore(m) BY <1>7, <3>2 DEF FileStep, DecideImplement, StoreRevisedBrief
      <4>2. PICK r : plans' = [plans EXCEPT ![r] = my[m].said.questions] BY <3>2, <4>1 DEF DecideExplore
      <4>3. my[m].said \in Decisions BY <2>1, <4>1 DEF DecideExplore, Said, At, MindOK
      <4>4. my[m].said.questions # None BY <4>3, DecisionShape, NoneAssumption
      <4>. QED BY <1>1, <4>2, <4>4
    <3>. QED BY <3>1, <3>2
  <2>. QED BY <2>1, <2>2 DEF Grows
<1>8. ASSUME NEW m \in Managers, WorkStep(m) PROVE Grows
  <2>1. turns' = turns /\ plans' = plans /\ run' = run
    BY <1>8 DEF WorkStep, Implement, Release, LaunchRound, ClaimAttempt, WorkerPasses, WorkerFails, ReconcileReads,
       CreateChild, ChildEnds, work, files
  <2>2. DOMAIN attempts \subseteq DOMAIN attempts'
    <3>1. CASE attempts' = attempts BY <3>1
    <3>2. CASE ClaimAttempt(m)
      BY <1>1, <3>2 DEF ClaimAttempt
    <3>3. CASE WorkerPasses(m) \/ WorkerFails(m)
      BY <1>1, <3>3 DEF WorkerPasses, WorkerFails, Ended
    <3>. QED BY <1>8, <3>1, <3>2, <3>3 DEF WorkStep, Implement, Release, LaunchRound, ReconcileReads, CreateChild,
             ChildEnds, work
  <2>. QED BY <1>2, <2>1, <2>2
<1>9. ASSUME WorldStep PROVE Grows
  <2>1. turns' = turns /\ plans' = plans /\ run' = run
    BY <1>9 DEF WorldStep, CancelJob, BranchMoves, WorkerLost, work, files
  <2>2. DOMAIN attempts \subseteq DOMAIN attempts'
    BY <1>1, <1>9 DEF WorldStep, CancelJob, BranchMoves, WorkerLost, Ended, work
  <2>. QED BY <1>2, <2>1, <2>2
<1>10. ASSUME UNCHANGED vars PROVE Grows
  BY <1>2, <1>10 DEF vars, work, files
<1>. QED BY <1>4, <1>5, <1>6, <1>7, <1>8, <1>9, <1>10, EveryStep
-----------------------------------------------------------------------------
(***************************************************************************)
(* What a process holds.                                                   *)
(***************************************************************************)
\* A row names attempts that exist also when there are more of them.
LEMMA NamesGrow ==
  ASSUME Grows, NEW r, Names(r)
  PROVE  Names(r)'
BY DEF Grows, Names, Maybe

\* What a process holds is good for as long as it does nothing: nobody takes back what it relies on.
LEMMA Others ==
  ASSUME Typed, Typed', Grows, NEW k \in Managers, MindOK(k), my'[k] = my[k]
  PROVE  MindOK(k)'
<1>1. my[k] \in Memory /\ turns \in Seq(Turn) /\ turns' \in Seq(Turn) BY DEF Typed
<1>2. /\ my[k].pc \notin {"idle", "opening"} => run' # None
      /\ my[k].pc \in Inside => my[k].run # None /\ Names(my[k].run)'
      /\ my[k].pc \in Asking => my[k].phase \in Phases
      /\ my[k].pc \in Asking /\ my[k].phase = "REVIEW" => my[k].run.candidate # None
  BY NamesGrow DEF MindOK, Grows
<1>3. my[k].pc = "intend" => my[k].ordinal \in 1..Len(turns') + 1 /\ my[k].ordinal <= MaxTurns
  <2>1. Len(turns) <= Len(turns') BY <1>1 DEF Grows
  <2>. QED BY <1>1, <2>1 DEF MindOK
<1>4. my[k].pc \in {"called", "asked", "decided"} => Own(k)'
  BY <1>1 DEF MindOK, Own, Subject, Grows
<1>5. my[k].pc = "decided" => /\ my[k].said \in Decisions
                              /\ Terminal(turns'[my[k].ordinal])
                              /\ turns'[my[k].ordinal].said = my[k].said
  BY DEF MindOK, Own, Grows
<1>6. my[k].pc \in {"briefed", "revised"} => my[k].said \in Decisions /\ my[k].said.brief \in Briefs
  BY DEF MindOK
<1>7. my[k].pc = "planned" => my[k].run.xround + 1 <= MaxRounds /\ plans'[my[k].run.xround + 1] # None
  <2>1. SUFFICES ASSUME my[k].pc = "planned"
                 PROVE  my[k].run.xround + 1 <= MaxRounds /\ plans'[my[k].run.xround + 1] # None
    OBVIOUS
  <2>2. my[k].run \in RunRow /\ my[k].run.xround + 1 <= MaxRounds /\ plans[my[k].run.xround + 1] # None
    BY <1>1, <2>1 DEF MindOK, Inside, Memory, Maybe
  <2>3. my[k].run.xround + 1 \in 1..MaxRounds BY <2>2, BoundsAssumption DEF RunRow
  <2>. QED BY <2>2, <2>3 DEF Grows
<1>8. my[k].pc \in {"children", "exploring"} =>
         my[k].run.xround \in 1..MaxRounds /\ plans'[my[k].run.xround] # None
  BY DEF MindOK, Grows
<1>9. /\ my[k].pc \in {"instructed", "claim"} => my[k].told \in Order
      /\ my[k].pc = "working" => my[k].worker \in DOMAIN attempts'
      /\ my[k].pc = "settling" => my[k].stranded \subseteq DOMAIN turns'
  BY DEF MindOK, Grows
<1>. QED BY <1>2, <1>3, <1>4, <1>5, <1>6, <1>7, <1>8, <1>9 DEF MindOK

\* A process that holds nothing, or only the knowledge that there is a row.
LEMMA Resting ==
  ASSUME NEW m \in Managers, my'[m].pc \in {"idle", "opening"} \/ (my'[m].pc = "loop" /\ run' # None)
  PROVE  MindOK(m)'
BY DEF MindOK, Inside, Asking

\* A process that is about to stop for a person.
LEMMA Halting ==
  ASSUME NEW m \in Managers, my'[m].pc = "halting", run' # None, my'[m].run # None, Names(my[m].run)'
  PROVE  MindOK(m)'
BY DEF MindOK, Inside, Asking

\* Rest and the loop, by name.
LEMMA Leaves ==
  ASSUME Typed, NEW m \in Managers
  PROVE  /\ Return(m) => my'[m].pc = "idle"
         /\ Back(m) => my'[m].pc = "loop"
<1>1. my \in [Managers -> Memory] BY DEF Typed
<1>2. Return(m) => my'[m].pc = "idle" BY <1>1 DEF Return, Rest
<1>3. Back(m) => my'[m] = [Rest EXCEPT !.pc = "loop", !.life = my[m].life] BY <1>1 DEF Back
<1>4. [Rest EXCEPT !.pc = "loop", !.life = my[m].life].pc = "loop" BY DEF Rest
<1>. QED BY <1>2, <1>3, <1>4

\* A step that only changes what the process holds leaves something the process can go on with.
LEMMA MindMind ==
  ASSUME LInv, Typed', Grows, NEW m \in Managers, MindStep(m)
  PROVE  MindOK(m)'
<1>. USE DEF MindStep
<1>1. /\ MindOK(m) /\ RowOK /\ Typed /\ my \in [Managers -> Memory] /\ my[m] \in Memory /\ turns \in Seq(Turn)
      /\ run \in Maybe(RunRow)
  BY DEF LInv, Typed
<1>2. UNCHANGED <<run, turns, attempts, plans>>
  BY DEF LoopThinks, LoopReviews, Ask, AnswerRefused, Escalates, RefuseAccept, Explore, RoundUnfunded, Synthesize,
         ClaimThrows, Crash, work, files
<1>3. \A r : Names(r)' <=> Names(r) BY <1>2 DEF Names
<1>4. CASE LoopThinks(m)
  <2>1. PICK p \in {<<"PLANNING", "PLAN">>, <<"SYNTHESIZING", "SYNTHESIS">>} :
          /\ my[m].pc = "loop"
          /\ my' = [my EXCEPT ![m].pc = "turn", ![m].run = run, ![m].phase = p[2], ![m].rolled = FALSE]
    BY <1>4 DEF LoopThinks, Going, At
  <2>2. p[2] \in Phases /\ p[2] # "REVIEW" BY DEF Phases
  <2>3. my'[m].pc = "turn" /\ my'[m].run = run /\ my'[m].phase = p[2] BY <1>1, <2>1 DEF Memory
  <2>4. run # None /\ Names(run) BY <1>1, <2>1 DEF MindOK, RowOK
  <2>. QED BY <1>2, <1>3, <2>2, <2>3, <2>4 DEF MindOK, Inside, Asking
<1>5. CASE LoopReviews(m)
  <2>1. run # None /\ Names(run) BY <1>1, <1>5 DEF LoopReviews, Going, At, MindOK, RowOK
  <2>2. CASE run.candidate = None
    <3>1. my'[m].pc = "halting" /\ my'[m].run = run BY <1>1, <1>5, <2>2 DEF LoopReviews, Enter, Memory
    <3>. QED BY <1>2, <1>3, <2>1, <3>1, Halting
  <2>3. CASE run.candidate # None
    <3>1. PICK c \in BOOLEAN :
            my' = [my EXCEPT ![m].pc = "turn", ![m].run = run, ![m].phase = "REVIEW", ![m].rolled = FALSE,
                             ![m].complete = c]
      BY <1>5, <2>3 DEF LoopReviews, Readable
    <3>2. my'[m].pc = "turn" /\ my'[m].run = run /\ my'[m].phase = "REVIEW" BY <1>1, <3>1 DEF Memory
    <3>. QED BY <1>2, <1>3, <2>1, <2>3, <3>2 DEF MindOK, Inside, Asking, Phases
  <2>. QED BY <2>2, <2>3
<1>6. CASE Ask(m)
  <2>1. my[m].pc = "turn" BY <1>6 DEF Ask, At
  <2>2. /\ run # None /\ my[m].run # None /\ Names(my[m].run) /\ my[m].phase \in Phases
        /\ my[m].phase = "REVIEW" => my[m].run.candidate # None
    BY <1>1, <2>1 DEF MindOK, Inside, Asking
  <2>3. CASE Len(turns) >= MaxTurns
    <3>1. my' = [my EXCEPT ![m].pc = "halting"] BY <1>6, <2>3 DEF Ask, Counted, To
    <3>2. my'[m].pc = "halting" /\ my'[m].run = my[m].run BY <1>1, <3>1 DEF Memory
    <3>. QED BY <1>2, <1>3, <2>2, <3>2, Halting
  <2>4. CASE ~(Len(turns) >= MaxTurns)
    <3>1. my' = [my EXCEPT ![m].pc = "intend", ![m].ordinal = Len(turns) + 1] BY <1>6, <2>4 DEF Ask, Counted
    <3>2. /\ my'[m].pc = "intend" /\ my'[m].run = my[m].run /\ my'[m].phase = my[m].phase
          /\ my'[m].ordinal = Len(turns) + 1
      BY <1>1, <3>1 DEF Memory
    <3>3. Len(turns) + 1 \in 1..Len(turns') + 1 /\ Len(turns) + 1 <= MaxTurns
      BY <1>1, <1>2, <2>4, BoundsAssumption
    <3>. QED BY <1>2, <1>3, <2>2, <3>2, <3>3 DEF MindOK, Inside, Asking
  <2>. QED BY <2>3, <2>4
<1>7. CASE AnswerRefused(m) \/ Escalates(m) \/ RefuseAccept(m) \/ RoundUnfunded(m)
  <2>1. my' = [my EXCEPT ![m].pc = "halting"] /\ my[m].pc \in {"asked", "decided", "children"}
    BY <1>7 DEF AnswerRefused, Escalates, RefuseAccept, RoundUnfunded, To, Said, At
  <2>2. my'[m].pc = "halting" /\ my'[m].run = my[m].run BY <1>1, <2>1 DEF Memory
  <2>3. run # None /\ my[m].run # None /\ Names(my[m].run) BY <1>1, <2>1 DEF MindOK, Inside, Asking
  <2>. QED BY <1>2, <1>3, <2>2, <2>3, Halting
<1>8. CASE Explore(m)
  <2>1. /\ my[m].pc = "loop" /\ run.status = "EXPLORING"
        /\ my' = [my EXCEPT ![m].pc = IF plans[run.xround] = None THEN "halting" ELSE "children", ![m].run = run]
    BY <1>8 DEF Explore, Going, At, Enter
  <2>2. /\ run # None /\ Names(run) /\ run.xround \in 1..MaxRounds /\ plans[run.xround] # None
    BY <1>1, <2>1 DEF MindOK, RowOK
  <2>3. my'[m].pc = "children" /\ my'[m].run = run BY <1>1, <2>1, <2>2 DEF Memory
  <2>. QED BY <1>2, <1>3, <2>2, <2>3 DEF MindOK, Inside, Asking
<1>9. CASE Synthesize(m)
  <2>1. /\ my[m].pc = "exploring"
        /\ my' = [my EXCEPT ![m].pc = "turn", ![m].phase = "SYNTHESIS", ![m].rolled = FALSE, ![m].launched = {}]
    BY <1>9 DEF Synthesize, At
  <2>2. my'[m].pc = "turn" /\ my'[m].phase = "SYNTHESIS" /\ my'[m].run = my[m].run BY <1>1, <2>1 DEF Memory
  <2>3. run # None /\ my[m].run # None /\ Names(my[m].run) BY <1>1, <2>1 DEF MindOK, Inside, Asking
  <2>. QED BY <1>2, <1>3, <2>2, <2>3 DEF MindOK, Inside, Asking, Phases
<1>10. CASE ClaimThrows(m) \/ Crash(m)
  BY <1>1, <1>10, Leaves, Resting DEF ClaimThrows, Crash
<1>. QED BY <1>4, <1>5, <1>6, <1>7, <1>8, <1>9, <1>10
\* So does a step that writes the row.
LEMMA RowMind ==
  ASSUME LInv, Typed', Grows, NEW m \in Managers, RowStep(m)
  PROVE  MindOK(m)'
<1>. USE DEF RowStep
<1>1. /\ MindOK(m) /\ RowOK /\ Typed /\ my \in [Managers -> Memory] /\ my[m] \in Memory /\ run \in Maybe(RunRow)
  BY DEF LInv, Typed
<1>2. UNCHANGED <<turns, attempts, plans>>
  BY DEF Start, EnsureRun, LoopStops, EnterImplementing, Replan, EnterExploring, DecideRevise, Accept, Halt,
         EnterReviewing, work, files
<1>3. my[m].pc \notin {"idle", "opening"} => run # None /\ run' # None BY <1>1 DEF MindOK, Grows
<1>4. CASE Start(m)
  <2>1. PICK pc : /\ pc = IF run = None THEN "opening" ELSE "loop"
                  /\ my' = [my EXCEPT ![m] = [Rest EXCEPT !.pc = pc, !.life = starts + 1]]
    BY <1>4 DEF Start
  <2>2. my'[m].pc = pc BY <1>1, <2>1 DEF Rest
  <2>3. run' = run BY <1>4 DEF Start
  <2>. QED BY <2>1, <2>2, <2>3, Resting
<1>5. CASE EnsureRun(m)
  <2>1. run' # None BY <1>5, FreshFits DEF EnsureRun
  <2>. QED BY <1>1, <1>5, <2>1, Leaves, Resting DEF EnsureRun
<1>6. CASE LoopStops(m) \/ EnterImplementing(m) \/ Replan(m) \/ EnterExploring(m) \/ Accept(m) \/ Halt(m)
           \/ EnterReviewing(m)
  <2>1. my[m].pc \notin {"idle", "opening"} /\ (Back(m) \/ Return(m))
    BY <1>6 DEF LoopStops, EnterImplementing, Replan, EnterExploring, Accept, Halt, EnterReviewing, Said, At
  <2>. QED BY <1>1, <1>3, <2>1, Leaves, Resting
<1>7. CASE DecideRevise(m)
  <2>1. my[m].pc = "decided" /\ my[m].said.action = "REVISE" BY <1>7 DEF DecideRevise, Said, At
  <2>2. my[m].said \in Decisions /\ my[m].run # None /\ Names(my[m].run) /\ run' # None
    BY <1>1, <1>3, <2>1 DEF MindOK, Inside, Asking
  <2>3. my[m].said.brief \in Briefs BY <2>1, <2>2, DecisionShape
  <2>4. Names(my[m].run)' \/ my'[m].run # my[m].run BY <1>2, <2>2 DEF Names
  <2>5. CASE my' = [my EXCEPT ![m].pc = "revised"]
    <3>1. my'[m].pc = "revised" /\ my'[m].run = my[m].run /\ my'[m].said = my[m].said BY <1>1, <2>5 DEF Memory
    <3>. QED BY <2>2, <2>3, <2>4, <3>1 DEF MindOK, Inside, Asking
  <2>6. CASE my' = [my EXCEPT ![m].pc = "halting"]
    <3>1. my'[m].pc = "halting" /\ my'[m].run = my[m].run BY <1>1, <2>6 DEF Memory
    <3>. QED BY <2>2, <2>4, <3>1, Halting
  <2>. QED BY <1>7, <2>5, <2>6 DEF DecideRevise, To
<1>. QED BY <1>4, <1>5, <1>6, <1>7

\* So does a step that writes a turn: the turn is the process's own.
LEMMA TurnMind ==
  ASSUME LInv, Typed', Grows, NEW m \in Managers, TurnStep(m)
  PROVE  MindOK(m)'
<1>. USE DEF TurnStep
<1>1. /\ MindOK(m) /\ RowOK /\ Typed /\ my \in [Managers -> Memory] /\ my[m] \in Memory /\ turns \in Seq(Turn)
      /\ turns' \in Seq(Turn)
  BY DEF LInv, Typed
<1>2. UNCHANGED <<attempts, plans>>
  BY DEF Intend, Call, Answers, AnswersBadly, StaleThread, ReconcileTurn, work, files
<1>3. \A r : Names(r)' <=> Names(r) BY <1>2 DEF Names
<1>4. /\ my[m].pc \notin {"idle", "opening"} => run # None /\ run' # None
      /\ my[m].pc \in Inside => my[m].run # None /\ Names(my[m].run)
      /\ my[m].pc \in Asking => my[m].phase \in Phases
      /\ my[m].pc \in Asking /\ my[m].phase = "REVIEW" => my[m].run.candidate # None
  BY <1>1 DEF MindOK, Grows
<1>5. CASE Intend(m)
  <2>1. my[m].pc = "intend" BY <1>5 DEF Intend, At
  <2>2. PICK n : n = my[m].ordinal OBVIOUS
  <2>3. n \in 1..Len(turns) + 1 BY <1>1, <2>1, <2>2 DEF MindOK
  <2>4. CASE n \in DOMAIN turns
    BY <1>1, <1>5, <2>2, <2>4, Leaves, Resting DEF Intend
  <2>5. CASE n \notin DOMAIN turns
    <3>1. n = Len(turns) + 1 BY <1>1, <2>3, <2>5
    <3>2. turns' = Append(turns, NewTurn(m)) /\ my' = [my EXCEPT ![m].pc = "called"]
      BY <1>5, <2>2, <2>5 DEF Intend, To
    <3>3. /\ my'[m].pc = "called" /\ my'[m].run = my[m].run /\ my'[m].phase = my[m].phase
          /\ my'[m].ordinal = my[m].ordinal
      BY <1>1, <3>2 DEF Memory
    <3>4. NewTurn(m) \in Turn BY <1>1, <2>1, IntendedFits
    <3>5. n \in DOMAIN turns' /\ turns'[n] = NewTurn(m) BY <1>1, <3>1, <3>2, <3>4, Added
    <3>6. NewTurn(m).phase = my[m].phase /\ NewTurn(m).subject = Subject(m) BY DEF NewTurn
    <3>7. Own(m)' BY <2>2, <3>3, <3>5, <3>6 DEF Own, Subject
    <3>. QED BY <1>3, <1>4, <2>1, <3>3, <3>7 DEF MindOK, Inside, Asking
  <2>. QED BY <2>4, <2>5
<1>6. CASE Call(m)
  <2>1. my[m].pc = "called" /\ my' = [my EXCEPT ![m].pc = "asked"] BY <1>6 DEF Call, At, To
  <2>2. /\ my'[m].pc = "asked" /\ my'[m].run = my[m].run /\ my'[m].phase = my[m].phase
        /\ my'[m].ordinal = my[m].ordinal
    BY <1>1, <2>1 DEF Memory
  <2>3. Own(m) BY <1>1, <2>1 DEF MindOK
  <2>4. Own(m)' BY <2>2, <2>3 DEF Own, Subject, Grows
  <2>. QED BY <1>3, <1>4, <2>1, <2>2, <2>4 DEF MindOK, Inside, Asking
<1>7. CASE Answers(m)
  <2>1. PICK d \in Decisions : /\ FinishTurn(m, "COMPLETED", d, TRUE)
                               /\ my' = [my EXCEPT ![m].pc = "decided", ![m].said = d]
    BY <1>7 DEF Answers
  <2>2. my[m].pc = "asked" BY <1>7 DEF Answers, At
  <2>3. /\ my'[m].pc = "decided" /\ my'[m].run = my[m].run /\ my'[m].phase = my[m].phase
        /\ my'[m].ordinal = my[m].ordinal /\ my'[m].said = d
    BY <1>1, <2>1 DEF Memory
  <2>4. PICK n : n = my[m].ordinal OBVIOUS
  <2>5. Own(m) /\ n \in DOMAIN turns BY <1>1, <2>2, <2>4 DEF MindOK, Own
  <2>6. Own(m)' BY <2>3, <2>5 DEF Own, Subject, Grows
  <2>7. turns' = [turns EXCEPT ![n] = [turns[n] EXCEPT !.state = "COMPLETED", !.said = d, !.billed = TRUE]]
    BY <1>1, <2>1, <2>4 DEF FinishTurn
  <2>8. turns'[n].state = "COMPLETED" /\ turns'[n].said = d
    <3>1. turns[n] \in Turn BY <1>1, <2>5
    <3>2. turns'[n] = [turns[n] EXCEPT !.state = "COMPLETED", !.said = d, !.billed = TRUE] BY <1>1, <2>5, <2>7
    <3>. QED BY <3>1, <3>2 DEF Turn
  <2>. QED BY <1>3, <1>4, <2>2, <2>3, <2>4, <2>6, <2>8 DEF MindOK, Inside, Asking, Terminal
<1>8. CASE AnswersBadly(m)
  <2>1. my[m].pc = "asked" /\ my' = [my EXCEPT ![m].pc = "halting"] BY <1>8 DEF AnswersBadly, At, To
  <2>2. my'[m].pc = "halting" /\ my'[m].run = my[m].run BY <1>1, <2>1 DEF Memory
  <2>3. run' # None /\ my[m].run # None /\ Names(my[m].run) BY <1>4, <2>1 DEF Inside, Asking
  <2>. QED BY <1>3, <2>2, <2>3, Halting
<1>9. CASE StaleThread(m)
  <2>1. my[m].pc = "asked" /\ my' = [my EXCEPT ![m].pc = "turn", ![m].rolled = TRUE]
    BY <1>9 DEF StaleThread, At
  <2>2. my'[m].pc = "turn" /\ my'[m].run = my[m].run /\ my'[m].phase = my[m].phase BY <1>1, <2>1 DEF Memory
  <2>. QED BY <1>3, <1>4, <2>1, <2>2 DEF MindOK, Inside, Asking
<1>10. CASE ReconcileTurn(m)
  <2>1. my[m].pc = "settling" BY <1>10 DEF ReconcileTurn, At
  <2>2. PICK n \in my[m].stranded :
           IF my[m].stranded = {n} THEN Return(m) ELSE my' = [my EXCEPT ![m].stranded = my[m].stranded \ {n}]
    BY <1>10 DEF ReconcileTurn
  <2>3. CASE my[m].stranded = {n} BY <1>1, <2>2, <2>3, Leaves, Resting
  <2>4. CASE my[m].stranded # {n}
    <3>1. my' = [my EXCEPT ![m].stranded = my[m].stranded \ {n}] BY <2>2, <2>4
    <3>2. my'[m].pc = "settling" /\ my'[m].stranded = my[m].stranded \ {n} BY <1>1, <2>1, <3>1 DEF Memory
    <3>3. my[m].stranded \subseteq DOMAIN turns BY <1>1, <2>1 DEF MindOK
    <3>. QED BY <1>4, <2>1, <3>2, <3>3 DEF MindOK, Inside, Asking, Grows
  <2>. QED BY <2>3, <2>4
<1>. QED BY <1>5, <1>6, <1>7, <1>8, <1>9, <1>10
\* So does a step that writes a file.
LEMMA FileMind ==
  ASSUME LInv, Typed', Grows, NEW m \in Managers, FileStep(m)
  PROVE  MindOK(m)'
<1>. USE DEF FileStep
<1>1. /\ MindOK(m) /\ RowOK /\ Typed /\ my \in [Managers -> Memory] /\ my[m] \in Memory /\ run \in Maybe(RunRow)
      /\ plans \in [1..MaxRounds -> Maybe(SUBSET Questions)]
  BY DEF LInv, Typed
<1>2. UNCHANGED <<run, turns, attempts>>
  BY DEF DecideImplement, DecideExplore, StoreRevisedBrief, work
<1>3. \A r : Names(r)' <=> Names(r) BY <1>2 DEF Names
<1>4. run # None /\ my[m].run # None /\ Names(my[m].run) /\ Names(run)
  BY <1>1 DEF MindOK, RowOK, DecideImplement, DecideExplore, StoreRevisedBrief, Said, At, Inside, Asking
<1>5. CASE DecideImplement(m)
  <2>1. /\ my[m].pc = "decided" /\ my[m].said.action = "IMPLEMENT"
        /\ my' = [my EXCEPT ![m].pc = "briefed"]
    BY <1>5 DEF DecideImplement, Said, At, To
  <2>2. my[m].said \in Decisions BY <1>1, <2>1 DEF MindOK
  <2>3. my[m].said.brief \in Briefs BY <2>1, <2>2, DecisionShape
  <2>4. my'[m].pc = "briefed" /\ my'[m].run = my[m].run /\ my'[m].said = my[m].said BY <1>1, <2>1 DEF Memory
  <2>. QED BY <1>2, <1>3, <1>4, <2>2, <2>3, <2>4 DEF MindOK, Inside, Asking
<1>6. CASE DecideExplore(m)
  <2>1. my[m].pc = "decided" /\ my[m].said \in Decisions BY <1>1, <1>6 DEF DecideExplore, Said, At, MindOK
  <2>2. CASE my' = [my EXCEPT ![m].pc = "halting"]
    <3>1. my'[m].pc = "halting" /\ my'[m].run = my[m].run BY <1>1, <2>2 DEF Memory
    <3>. QED BY <1>2, <1>3, <1>4, <3>1, Halting
  <2>3. CASE ~(my' = [my EXCEPT ![m].pc = "halting"])
    <3>1. PICK r : r = RoundFrom(m) OBVIOUS
    <3>2. /\ ~(r.xround + 1 > MaxRounds)
          /\ plans' = [plans EXCEPT ![r.xround + 1] = my[m].said.questions]
          /\ my' = [my EXCEPT ![m].pc = "planned", ![m].run = r]
      BY <1>6, <2>3, <3>1 DEF DecideExplore, To, Enter
    <3>3. r \in RunRow BY <1>1, <1>4, <3>1 DEF RoundFrom, Maybe, Memory
    <3>4. r # None /\ Names(r) BY <1>4, <3>1 DEF RoundFrom
    <3>5. r.xround + 1 <= MaxRounds /\ r.xround + 1 \in 1..MaxRounds BY <3>2, <3>3, BoundsAssumption DEF RunRow
    <3>6. my[m].said.questions # None BY <2>1, DecisionShape, NoneAssumption
    <3>7. plans'[r.xround + 1] # None BY <1>1, <3>2, <3>5, <3>6
    <3>8. my'[m].pc = "planned" /\ my'[m].run = r BY <1>1, <3>2 DEF Memory
    <3>. QED BY <1>2, <1>3, <1>4, <3>4, <3>5, <3>7, <3>8 DEF MindOK, Inside, Asking
  <2>. QED BY <2>2, <2>3
<1>7. CASE StoreRevisedBrief(m)
  BY <1>1, <1>2, <1>4, <1>7, Leaves, Resting DEF StoreRevisedBrief
<1>. QED BY <1>5, <1>6, <1>7

\* So does a step of a worker or of an investigation.
LEMMA WorkMind ==
  ASSUME LInv, Typed', Grows, NEW m \in Managers, WorkStep(m)
  PROVE  MindOK(m)'
<1>. USE DEF WorkStep
<1>1. /\ MindOK(m) /\ RowOK /\ Typed /\ my \in [Managers -> Memory] /\ my[m] \in Memory /\ run \in Maybe(RunRow)
      /\ attempts \in Seq(Attempt) /\ briefs \in [Slots -> Maybe(Briefs)]
  BY DEF LInv, Typed
<1>2. UNCHANGED <<run, turns, plans>>
  BY DEF Implement, Release, LaunchRound, ClaimAttempt, WorkerPasses, WorkerFails, ReconcileReads, CreateChild, ChildEnds,
         files
<1>3. my[m].pc \notin {"idle", "opening"} => run' # None BY <1>1 DEF MindOK, Grows
<1>4. \A r : Names(r) => Names(r)' BY NamesGrow
<1>5. CASE Implement(m)
  <2>1. my[m].pc = "loop" BY <1>5 DEF Implement, Going, At
  <2>2. run # None /\ Names(run) /\ run \in RunRow BY <1>1, <2>1 DEF MindOK, RowOK, Maybe
  <2>3. Names(run)' BY <1>2, <1>4, <2>2 DEF Names
  <2>4. CASE my' = [my EXCEPT ![m].pc = "halting", ![m].run = run]
    <3>1. my'[m].pc = "halting" /\ my'[m].run = run BY <1>1, <2>4 DEF Memory
    <3>2. Names(my[m].run)' BY <1>2, <2>3, <3>1 DEF Names
    <3>. QED BY <1>2, <2>2, <3>1, <3>2, Halting
  <2>5. CASE ~(my' = [my EXCEPT ![m].pc = "halting", ![m].run = run])
    <3>1. PICK b : b = briefs[Slot(run)] OBVIOUS
    <3>2. b # None /\ my' = [my EXCEPT ![m].pc = "instructed", ![m].run = run, ![m].told = Instruction(b)]
      BY <1>5, <2>5, <3>1 DEF Implement, Enter
    <3>3. Slot(run) \in Slots BY <2>2, Caps DEF Slot, RunRow
    <3>4. b \in Briefs BY <1>1, <3>1, <3>2, <3>3 DEF Maybe
    <3>5. Instruction(b) \in Order BY <1>1, <3>4, Instructs
    <3>6. my'[m].pc = "instructed" /\ my'[m].run = run /\ my'[m].told = Instruction(b) BY <1>1, <3>2 DEF Memory
    <3>7. Names(my[m].run)' BY <1>2, <2>3, <3>6 DEF Names
    <3>. QED BY <1>2, <2>2, <3>5, <3>6, <3>7 DEF MindOK, Inside, Asking
  <2>. QED BY <2>4, <2>5
<1>6. CASE LaunchRound(m)
  <2>1. PICK S : my' = [my EXCEPT ![m].pc = "exploring", ![m].launched = S] BY <1>6 DEF LaunchRound
  <2>2. my[m].pc = "children" BY <1>6 DEF LaunchRound, At
  <2>3. my'[m].pc = "exploring" /\ my'[m].run = my[m].run BY <1>1, <2>1 DEF Memory
  <2>4. /\ my[m].run # None /\ Names(my[m].run)
        /\ my[m].run.xround \in 1..MaxRounds /\ plans[my[m].run.xround] # None
    BY <1>1, <2>2 DEF MindOK, Inside, Asking
  <2>5. Names(my[m].run)' BY <1>4, <2>3, <2>4 DEF Names
  <2>. QED BY <1>2, <1>3, <2>2, <2>3, <2>4, <2>5 DEF MindOK, Inside, Asking
<1>7. CASE ClaimAttempt(m)
  <2>1. my[m].pc = "claim" /\ my' = [my EXCEPT ![m].pc = "working", ![m].worker = Len(attempts) + 1]
    BY <1>7 DEF ClaimAttempt, At
  <2>2. my'[m].pc = "working" /\ my'[m].run = my[m].run /\ my'[m].worker = Len(attempts) + 1
    BY <1>1, <2>1 DEF Memory
  <2>3. my[m].run # None /\ Names(my[m].run) BY <1>1, <2>1 DEF MindOK, Inside, Asking
  <2>4. Names(my[m].run)' BY <1>4, <2>2, <2>3 DEF Names
  <2>5. Len(attempts) + 1 \in DOMAIN attempts' BY <1>1, <1>7 DEF ClaimAttempt
  <2>. QED BY <1>3, <2>1, <2>2, <2>3, <2>4, <2>5 DEF MindOK, Inside, Asking
<1>8. CASE WorkerPasses(m) \/ WorkerFails(m) \/ \E q \in Questions : CreateChild(m, q) \/ ChildEnds(m, q)
  <2>1. my' = my BY <1>8 DEF WorkerPasses, WorkerFails, CreateChild, ChildEnds
  <2>. QED BY <1>1, <2>1, Others
<1>9. CASE ReconcileReads(m)
  <2>1. PICK ns : ns = { n \in DOMAIN turns : ~Terminal(turns[n]) } OBVIOUS
  <2>2. my' = [my EXCEPT ![m].pc = "settling", ![m].stranded = ns] BY <1>9, <2>1 DEF ReconcileReads
  <2>3. my'[m].pc = "settling" /\ my'[m].stranded = ns BY <1>1, <2>2 DEF Memory
  <2>4. turns # <<>> BY <1>9 DEF ReconcileReads
  <2>5. run # None BY <1>1, <2>4 DEF RowOK
  <2>. QED BY <1>2, <2>1, <2>3, <2>5 DEF MindOK, Inside, Asking
<1>10. CASE Release(m)
  <2>1. my[m].pc = "instructed" /\ my' = [my EXCEPT ![m].pc = "claim"] BY <1>10 DEF Release, At, To
  <2>2. my'[m].pc = "claim" /\ my'[m].run = my[m].run /\ my'[m].told = my[m].told BY <1>1, <2>1 DEF Memory
  <2>3. my[m].run # None /\ Names(my[m].run) /\ my[m].told \in Order BY <1>1, <2>1 DEF MindOK, Inside, Asking
  <2>4. Names(my[m].run)' BY <1>4, <2>2, <2>3 DEF Names
  <2>. QED BY <1>3, <2>1, <2>2, <2>3, <2>4 DEF MindOK, Inside, Asking
<1>. QED BY <1>5, <1>6, <1>7, <1>8, <1>9, <1>10
-----------------------------------------------------------------------------
(***************************************************************************)
(* The row, its turns and its rounds.                                      *)
(***************************************************************************)
\* What is said of the turns stays true while there are no more of them.
LEMMA SameTurns ==
  ASSUME LInv, Typed', Grows, turns' = turns
  PROVE  /\ turns' # <<>> => run' # None
         /\ Len(turns') <= MaxTurns
         /\ \A n \in DOMAIN turns' : turns'[n].phase = "REVIEW" => turns'[n].subject \in DOMAIN attempts'
BY DEF LInv, RowOK, Grows

\* What is said of the row stays true while it is the same.
LEMMA SameRow ==
  ASSUME LInv, Typed', Grows, run' = run
  PROVE  /\ run' # None => Names(run)'
         /\ (run' # None /\ run'.status = "REVIEWING") => run'.candidate # None
         /\ (run' # None /\ run'.status = "EXPLORING") => run'.xround \in 1..MaxRounds /\ plans'[run'.xround] # None
<1>1. run # None => Names(run) BY DEF LInv, RowOK
<1>2. run # None => Names(run)' BY <1>1 DEF Names, Grows, Maybe
<1>. QED BY <1>2 DEF LInv, RowOK, Grows

\* The row names attempts that exist and a round with a plan, whichever step writes it.
LEMMA RowRow ==
  ASSUME LInv, Typed', Grows, NEW m \in Managers, RowStep(m)
  PROVE  RowOK'
<1>. USE DEF RowStep
<1>1. /\ MindOK(m) /\ RowOK /\ Typed /\ my[m] \in Memory /\ run \in Maybe(RunRow) /\ attempts \in Seq(Attempt)
  BY DEF LInv, Typed
<1>2. UNCHANGED <<turns, attempts, plans>>
  BY DEF Start, EnsureRun, LoopStops, EnterImplementing, Replan, EnterExploring, DecideRevise, Accept, Halt,
         EnterReviewing, work, files
<1>3. SUFFICES ASSUME run' # run
               PROVE  /\ Names(run)'
                      /\ run'.status = "REVIEWING" => run'.candidate # None
                      /\ run'.status = "EXPLORING" => run'.xround \in 1..MaxRounds /\ plans'[run'.xround] # None
  BY <1>2, SameTurns, SameRow DEF RowOK
<1>4. Names(run)' <=> {run'.candidate, run'.accepted} \subseteq Maybe(DOMAIN attempts) BY <1>2 DEF Names
<1>5. CASE EnsureRun(m)
  BY <1>3, <1>4, <1>5 DEF EnsureRun, FreshRun, Maybe
<1>6. CASE ~EnsureRun(m)
  <2>1. run # None /\ run \in RunRow
    BY <1>1, <1>3, <1>6 DEF MindOK, Start, LoopStops, EnterImplementing, Replan, EnterExploring, DecideRevise,
       Accept, Halt, EnterReviewing, Said, At, Maybe
  <2>2. {run.candidate, run.accepted} \subseteq Maybe(DOMAIN attempts) BY <1>1, <2>1 DEF RowOK, Names
  <2>3. my[m].pc \in Inside => my[m].run \in RunRow /\ Names(my[m].run)
    BY <1>1 DEF MindOK, Memory, Maybe
  <2>4. CASE EnterExploring(m)
    <3>1. run' = [run EXCEPT !.status = "EXPLORING", !.xround = my[m].run.xround + 1] /\ my[m].pc = "planned"
      BY <2>4 DEF EnterExploring, Moved, At
    <3>2. my[m].run \in RunRow /\ my[m].run.xround + 1 <= MaxRounds /\ plans[my[m].run.xround + 1] # None
      BY <1>1, <2>3, <3>1 DEF MindOK, Inside
    <3>3. my[m].run.xround + 1 \in 1..MaxRounds BY <3>2, BoundsAssumption DEF RunRow
    <3>4. /\ run'.candidate = run.candidate /\ run'.accepted = run.accepted
          /\ run'.xround = my[m].run.xround + 1 /\ run'.status = "EXPLORING"
      BY <2>1, <3>1 DEF RunRow
    <3>. QED BY <1>2, <1>4, <2>2, <3>2, <3>3, <3>4
  <2>5. CASE Accept(m)
    <3>1. run' = [run EXCEPT !.status = "ACCEPTED", !.accepted = my[m].run.candidate] /\ my[m].pc = "decided"
      BY <2>5 DEF Accept, Moved, Said, At
    <3>2. my[m].run.candidate \in Maybe(DOMAIN attempts) BY <2>3, <3>1 DEF Inside, Asking, Names
    <3>3. /\ run'.candidate = run.candidate /\ run'.accepted = my[m].run.candidate
          /\ run'.status = "ACCEPTED"
      BY <2>1, <3>1 DEF RunRow
    <3>. QED BY <1>4, <2>2, <3>2, <3>3
  <2>6. CASE EnterReviewing(m)
    <3>1. run' = [run EXCEPT !.status = "REVIEWING", !.candidate = Len(attempts)] /\ my[m].pc = "working"
      BY <2>6 DEF EnterReviewing, Moved, At
    <3>2. my[m].worker \in DOMAIN attempts BY <1>1, <3>1 DEF MindOK
    <3>3. Len(attempts) \in DOMAIN attempts BY <1>1, <3>2
    <3>4. /\ run'.candidate = Len(attempts) /\ run'.accepted = run.accepted
          /\ run'.status = "REVIEWING"
      BY <2>1, <3>1 DEF RunRow
    <3>5. Len(attempts) # None BY <1>1, NoneAssumption
    <3>. QED BY <1>4, <2>2, <3>3, <3>4, <3>5 DEF Maybe
  <2>7. CASE EnterImplementing(m)
    <3>1. PICK c \in {None, run.candidate} : run' = [run EXCEPT !.status = "IMPLEMENTING", !.candidate = c]
      BY <2>7 DEF EnterImplementing, Moved
    <3>2. /\ run'.candidate = c /\ run'.accepted = run.accepted
          /\ run'.status = "IMPLEMENTING"
      BY <2>1, <3>1 DEF RunRow
    <3>. QED BY <1>4, <2>2, <3>2 DEF Maybe
  <2>8. CASE LoopStops(m) \/ Replan(m) \/ Halt(m)
    <3>1. PICK s \in RunStatus \ {"EXPLORING", "REVIEWING"} : run' = [run EXCEPT !.status = s]
      BY <1>3, <2>8 DEF LoopStops, Replan, Halt, Moved, ReplanStatus, RunStatus, Stopped
    <3>2. /\ run'.candidate = run.candidate /\ run'.accepted = run.accepted
          /\ run'.status = s
      BY <2>1, <3>1 DEF RunRow
    <3>. QED BY <1>4, <2>2, <3>2
  <2>9. CASE DecideRevise(m)
    <3>1. run' = [run EXCEPT !.rround = my[m].run.rround + 1, !.status = "IMPLEMENTING"]
      BY <1>3, <2>9 DEF DecideRevise, Moved
    <3>2. /\ run'.candidate = run.candidate /\ run'.accepted = run.accepted
          /\ run'.status = "IMPLEMENTING"
      BY <2>1, <3>1 DEF RunRow
    <3>. QED BY <1>4, <2>2, <3>2
  <2>10. ~Start(m) BY <1>3 DEF Start
  <2>. QED BY <1>6, <2>4, <2>5, <2>6, <2>7, <2>8, <2>9, <2>10
<1>. QED BY <1>5, <1>6

\* A turn that is intended is within the ceiling and, if it is a review, of an attempt.
LEMMA TurnRow ==
  ASSUME LInv, Typed', Grows, NEW m \in Managers, TurnStep(m)
  PROVE  RowOK'
<1>. USE DEF TurnStep
<1>1. /\ MindOK(m) /\ RowOK /\ Typed /\ my[m] \in Memory /\ run \in Maybe(RunRow)
      /\ turns \in Seq(Turn) /\ turns' \in Seq(Turn)
  BY DEF LInv, Typed
<1>2. UNCHANGED <<attempts, plans>>
  BY DEF Intend, Call, Answers, AnswersBadly, StaleThread, ReconcileTurn, work, files
<1>3. run # None /\ run' # None
  BY <1>1 DEF MindOK, Intend, Call, Answers, AnswersBadly, StaleThread, ReconcileTurn, At, Grows
<1>4. /\ run' # None => Names(run)'
      /\ (run' # None /\ run'.status = "REVIEWING") => run'.candidate # None
      /\ (run' # None /\ run'.status = "EXPLORING") => run'.xround \in 1..MaxRounds /\ plans'[run'.xround] # None
  <2>1. CASE run' = run BY <2>1, SameRow
  <2>2. CASE run' # run
    <3>1. run' = [run EXCEPT !.status = "AWAITING_HUMAN"]
      BY <2>2 DEF Intend, Call, Answers, AnswersBadly, StaleThread, ReconcileTurn, Moved
    <3>2. run \in RunRow /\ Names(run) BY <1>1, <1>3 DEF RowOK, Maybe
    <3>3. /\ run'.candidate = run.candidate /\ run'.accepted = run.accepted
          /\ run'.status = "AWAITING_HUMAN"
      BY <3>1, <3>2 DEF RunRow
    <3>. QED BY <1>2, <3>2, <3>3 DEF Names
  <2>. QED BY <2>1, <2>2
<1>5. CASE turns' = turns BY <1>4, <1>5, SameTurns DEF RowOK
<1>6. CASE Intend(m) /\ turns' # turns
  <2>1. my[m].pc = "intend" /\ my[m].ordinal \notin DOMAIN turns /\ turns' = Append(turns, NewTurn(m))
    BY <1>6 DEF Intend, At
  <2>2. my[m].ordinal = Len(turns) + 1 /\ Len(turns) + 1 <= MaxTurns
    BY <1>1, <2>1 DEF MindOK
  <2>3. NewTurn(m) \in Turn BY <1>1, <2>1, IntendedFits
  <2>4. Len(turns') <= MaxTurns BY <1>1, <2>1, <2>2, <2>3, Added
  <2>5. NewTurn(m).phase = "REVIEW" => NewTurn(m).subject \in DOMAIN attempts
    <3>1. SUFFICES ASSUME my[m].phase = "REVIEW" PROVE my[m].run.candidate \in DOMAIN attempts
      BY DEF NewTurn, Subject
    <3>. QED BY <1>1, <2>1, <3>1 DEF MindOK, Inside, Asking, Names, Maybe
  <2>6. \A n \in DOMAIN turns' : turns'[n].phase = "REVIEW" => turns'[n].subject \in DOMAIN attempts'
    BY <1>1, <1>2, <2>1, <2>3, <2>5, Added DEF RowOK
  <2>. QED BY <1>3, <1>4, <2>4, <2>6 DEF RowOK
<1>7. CASE ~Intend(m)
  <2>1. DOMAIN turns' = DOMAIN turns
    BY <1>1, <1>7 DEF Call, Answers, AnswersBadly, StaleThread, ReconcileTurn, FinishTurn
  <2>2. Len(turns') = Len(turns) BY <1>1, <2>1
  <2>3. \A n \in DOMAIN turns' : turns'[n].phase = "REVIEW" => turns'[n].subject \in DOMAIN attempts'
    BY <1>1, <1>2, <2>1 DEF RowOK, Grows
  <2>. QED BY <1>1, <1>3, <1>4, <2>2, <2>3 DEF RowOK
<1>. QED BY <1>5, <1>6, <1>7
\* At the start there is no row, no turn and no process.
LEMMA LoopInit == Init => LInv
<1>. SUFFICES ASSUME Init PROVE LInv OBVIOUS
<1>1. Rest \in Memory BY RestFits DEF Points, Outside
<1>2. my \in [Managers -> Memory] /\ \A m \in Managers : my[m] = Rest BY <1>1 DEF Init
<1>3. Typed BY <1>2 DEF Init, Typed, JobStatus, ChildStatus, Maybe
<1>4. RowOK BY BoundsAssumption DEF Init, RowOK
<1>5. \A m \in Managers : MindOK(m)
  <2>1. Rest.pc = "idle" BY DEF Rest
  <2>. QED BY <1>2, <2>1 DEF MindOK, Inside, Asking
<1>. QED BY <1>3, <1>4, <1>5 DEF LInv

\* A step leaves every row, file and process in its type.
LEMMA TypedStep ==
  ASSUME LInv, [Next]_vars
  PROVE  Typed'
<1>1. CASE UNCHANGED vars BY <1>1 DEF LInv, Typed, vars, work, files
<1>. QED BY <1>1, EveryStep, MindSteps, RowSteps, TurnSteps, FileSteps, WorkSteps, WorldSteps

\* A step of one process is not a step of another.
LEMMA OneMind ==
  ASSUME LInv, NEW m \in Managers, NEW k \in Managers, k # m,
         MindStep(m) \/ RowStep(m) \/ TurnStep(m) \/ FileStep(m) \/ WorkStep(m)
  PROVE  my'[k] = my[k]
<1>1. my \in [Managers -> Memory] BY DEF LInv, Typed
<1>2. CASE MindStep(m)
  BY <1>1, <1>2 DEF MindStep, LoopThinks, LoopReviews, Ask, AnswerRefused, Escalates, RefuseAccept, Explore,
     RoundUnfunded, Synthesize, ClaimThrows, Crash, To, Enter, Return
<1>3. CASE RowStep(m)
  BY <1>1, <1>3 DEF RowStep, Start, EnsureRun, LoopStops, EnterImplementing, Replan, EnterExploring, DecideRevise,
     Accept, Halt, EnterReviewing, To, Return, Back
<1>4. CASE TurnStep(m)
  BY <1>1, <1>4 DEF TurnStep, Intend, Call, Answers, AnswersBadly, StaleThread, ReconcileTurn, To, Return
<1>5. CASE FileStep(m)
  BY <1>1, <1>5 DEF FileStep, DecideImplement, DecideExplore, StoreRevisedBrief, To, Enter, Back
<1>6. CASE WorkStep(m)
  BY <1>1, <1>6 DEF WorkStep, Implement, Release, LaunchRound, ClaimAttempt, WorkerPasses, WorkerFails, ReconcileReads,
     CreateChild, ChildEnds, To, Enter
<1>. QED BY <1>2, <1>3, <1>4, <1>5, <1>6

\* The invariant is kept, whichever process takes the step.
LEMMA LoopPreserved ==
  ASSUME LInv, [Next]_vars
  PROVE  LInv'
<1>1. Typed' BY TypedStep
<1>2. Grows BY <1>1, Growth
<1>3. Typed /\ \A m \in Managers : MindOK(m) BY DEF LInv
<1>4. ASSUME NEW m \in Managers, MindStep(m) \/ RowStep(m) \/ TurnStep(m) \/ FileStep(m) \/ WorkStep(m)
      PROVE  LInv'
  <2>1. MindOK(m)' BY <1>1, <1>2, <1>4, MindMind, RowMind, TurnMind, FileMind, WorkMind
  <2>2. \A k \in Managers : k # m => my'[k] = my[k] BY <1>4, OneMind
  <2>3. \A k \in Managers : k # m => MindOK(k)' BY <1>1, <1>2, <1>3, <2>2, Others
  <2>4. RowOK'
    <3>1. CASE RowStep(m) \/ TurnStep(m) BY <1>1, <1>2, <3>1, RowRow, TurnRow
    <3>2. CASE MindStep(m) \/ FileStep(m) \/ WorkStep(m)
      <4>1. run' = run /\ turns' = turns
        BY <3>2 DEF MindStep, LoopThinks, LoopReviews, Ask, AnswerRefused, Escalates, RefuseAccept, Explore,
           RoundUnfunded, Synthesize, ClaimThrows, Crash, FileStep, DecideImplement, DecideExplore,
           StoreRevisedBrief, WorkStep, Implement, Release, LaunchRound, ClaimAttempt, WorkerPasses, WorkerFails,
           ReconcileReads, CreateChild, ChildEnds
      <4>. QED BY <1>1, <1>2, <4>1, SameTurns, SameRow DEF RowOK
    <3>. QED BY <1>4, <3>1, <3>2
  <2>. QED BY <1>1, <2>1, <2>3, <2>4 DEF LInv
<1>5. ASSUME WorldStep \/ UNCHANGED vars PROVE LInv'
  <2>1. run' = run /\ turns' = turns /\ my' = my
    BY <1>5 DEF WorldStep, CancelJob, BranchMoves, WorkerLost, vars
  <2>2. RowOK' BY <1>1, <1>2, <2>1, SameTurns, SameRow DEF RowOK
  <2>3. \A k \in Managers : MindOK(k)' BY <1>1, <1>2, <1>3, <2>1, Others
  <2>. QED BY <1>1, <2>2, <2>3 DEF LInv
<1>. QED BY <1>4, <1>5, EveryStep

\* What the row says of its attempts and rounds, what each process holds and what it asked fit together, with any
\* number of processes that start, crash, answer late and settle each other's turns.
THEOREM LoopInvariant == Spec => []LInv
<1>1. Init => LInv BY LoopInit
<1>2. LInv /\ [Next]_vars => LInv' BY LoopPreserved
<1>. QED BY <1>1, <1>2, PTL DEF Spec

\* runTurn: the ceiling on scarce calls is never passed, although a process counts the turns in one statement
\* and inserts its own in another: the row's ordinal is the count, so of two that counted the same only one is in.
THEOREM TurnCeiling == Spec => []TurnsWithinCeiling
<1>1. LInv => TurnsWithinCeiling BY DEF LInv, RowOK, TurnsWithinCeiling
<1>. QED BY <1>1, LoopInvariant, PTL

\* finishTurn: the answer that comes after the turn was given up changes nothing and is applied by nobody.
LEMMA LateStep ==
  ASSUME LInv, LInv', [Next]_vars
  PROVE  \A n \in DOMAIN turns : turns[n].state = "UNCERTAIN" =>
            /\ turns'[n].said = turns[n].said
            /\ \A m \in Managers :
                 (At(m, "asked") /\ my[m].ordinal = n) => my'[m].pc \in {"asked", "halting", "idle"}
<1>1. SUFFICES ASSUME NEW n \in DOMAIN turns, turns[n].state = "UNCERTAIN"
               PROVE  /\ turns'[n].said = turns[n].said
                      /\ \A m \in Managers :
                           (At(m, "asked") /\ my[m].ordinal = n) => my'[m].pc \in {"asked", "halting", "idle"}
  OBVIOUS
<1>2. Terminal(turns[n]) BY <1>1 DEF Terminal
<1>3. turns'[n].said = turns[n].said
  <2>1. Grows BY Growth DEF LInv
  <2>. QED BY <1>2, <2>1 DEF Grows
<1>4. ASSUME NEW m \in Managers, At(m, "asked"), my[m].ordinal = n
      PROVE  my'[m].pc \in {"asked", "halting", "idle"}
  <2>1. my[m].pc = "asked" /\ my[m] \in Memory /\ my \in [Managers -> Memory] /\ Typed BY <1>4 DEF At, LInv, Typed
  <2>2. CASE my'[m] = my[m] BY <2>1, <2>2
  <2>3. CASE MindStep(m) \/ RowStep(m) \/ TurnStep(m) \/ FileStep(m) \/ WorkStep(m)
    <3>1. AnswerRefused(m) \/ Crash(m) \/ my' = my
      BY <1>2, <1>4, <2>1, <2>3 DEF MindStep, LoopThinks, LoopReviews, Ask, Escalates, RefuseAccept, Explore,
         RoundUnfunded, Synthesize, ClaimThrows, RowStep, Start, EnsureRun, LoopStops, EnterImplementing, Replan,
         EnterExploring, DecideRevise, Accept, Halt, EnterReviewing, TurnStep, Intend, Call, Answers, AnswersBadly,
         StaleThread, ReconcileTurn, FinishTurn, FileStep, DecideImplement, DecideExplore, StoreRevisedBrief,
         WorkStep, Implement, Release, LaunchRound, ClaimAttempt, WorkerPasses, WorkerFails, ReconcileReads, CreateChild,
         ChildEnds, Said, Going, At
    <3>2. CASE AnswerRefused(m) BY <2>1, <3>2 DEF AnswerRefused, To
    <3>3. CASE Crash(m) BY <2>1, <3>3, Leaves DEF Crash
    <3>. QED BY <2>2, <3>1, <3>2, <3>3
  <2>4. CASE ~(MindStep(m) \/ RowStep(m) \/ TurnStep(m) \/ FileStep(m) \/ WorkStep(m))
    <3>1. my'[m] = my[m] \/ my' = my
      <4>1. CASE WorldStep \/ UNCHANGED vars
        BY <4>1 DEF WorldStep, CancelJob, BranchMoves, WorkerLost, vars
      <4>2. CASE \E k \in Managers : MindStep(k) \/ RowStep(k) \/ TurnStep(k) \/ FileStep(k) \/ WorkStep(k)
        BY <2>4, <4>2, OneMind
      <4>. QED BY <4>1, <4>2, EveryStep
    <3>. QED BY <2>1, <3>1
  <2>. QED BY <2>3, <2>4
<1>. QED BY <1>3, <1>4

\* finishTurn, of every number of processes: an answer that comes after recovery has given the turn up as
\* uncertain is neither recorded nor applied.
THEOREM LateAnswers == Spec => LateAnswerRefused
<1>1. LInv /\ LInv' /\ [Next]_vars =>
        [\A n \in DOMAIN turns : turns[n].state = "UNCERTAIN" =>
            /\ turns'[n].said = turns[n].said
            /\ \A m \in Managers :
                 (At(m, "asked") /\ my[m].ordinal = n) => my'[m].pc \in {"asked", "halting", "idle"}]_vars
  BY LateStep
<1>. QED BY <1>1, LoopInvariant, PTL DEF Spec, LateAnswerRefused
-----------------------------------------------------------------------------
(***************************************************************************)
(* What is offered was reviewed.                                           *)
(***************************************************************************)
\* An attempt that has ended stays as it ended.
LEMMA EndedStays ==
  ASSUME LInv, [Next]_vars, NEW a \in DOMAIN attempts, ~Live(a)
  PROVE  attempts'[a] = attempts[a]
<1>1. attempts \in Seq(Attempt) /\ Typed BY DEF LInv, Typed
<1>2. ASSUME NEW m \in Managers, MindStep(m) \/ RowStep(m) \/ TurnStep(m) \/ FileStep(m) \/ WorkStep(m)
      PROVE  attempts'[a] = attempts[a]
  <2>1. CASE ClaimAttempt(m) BY <1>1, <2>1 DEF ClaimAttempt
  <2>2. CASE WorkerPasses(m) \/ WorkerFails(m)
    <3>1. my[m].worker # a BY <2>2 DEF WorkerPasses, WorkerFails
    <3>. QED BY <1>1, <2>2, <3>1 DEF WorkerPasses, WorkerFails, Ended
  <2>3. CASE ~(ClaimAttempt(m) \/ WorkerPasses(m) \/ WorkerFails(m))
    <3>1. attempts' = attempts
      BY <1>2, <2>3 DEF MindStep, LoopThinks, LoopReviews, Ask, AnswerRefused, Escalates, RefuseAccept, Explore,
         RoundUnfunded, Synthesize, ClaimThrows, Crash, RowStep, Start, EnsureRun, LoopStops, EnterImplementing,
         Replan, EnterExploring, DecideRevise, Accept, Halt, EnterReviewing, TurnStep, Intend, Call, Answers,
         AnswersBadly, StaleThread, ReconcileTurn, FileStep, DecideImplement, DecideExplore, StoreRevisedBrief,
         WorkStep, Implement, Release, LaunchRound, ReconcileReads, CreateChild, ChildEnds, work
    <3>. QED BY <3>1
  <2>. QED BY <2>1, <2>2, <2>3
<1>3. CASE CancelJob BY <1>1, <1>3, Cancels
<1>4. CASE WorkerLost BY <1>1, <1>4 DEF WorkerLost, Abandoned, Ended
<1>5. CASE BranchMoves \/ UNCHANGED vars BY <1>5 DEF BranchMoves, vars, work
<1>. QED BY <1>2, <1>3, <1>4, <1>5, EveryStep DEF WorldStep

\* Only accept writes what was accepted.
LEMMA OnlyAccept ==
  ASSUME LInv, [Next]_vars, run' # None, run'.accepted # None
  PROVE  \/ run # None /\ run'.accepted = run.accepted
         \/ \E m \in Managers : Accept(m)
<1>1. run \in Maybe(RunRow) BY DEF LInv, Typed
<1>2. SUFFICES ASSUME run' # run PROVE (run # None /\ run'.accepted = run.accepted) \/ \E m \in Managers : Accept(m)
  OBVIOUS
<1>3. PICK m \in Managers : RowStep(m) \/ ReconcileTurn(m)
  <2>1. ~WorldStep /\ ~UNCHANGED vars BY <1>2 DEF WorldStep, CancelJob, BranchMoves, WorkerLost, vars
  <2>2. PICK m \in Managers : MindStep(m) \/ RowStep(m) \/ TurnStep(m) \/ FileStep(m) \/ WorkStep(m)
    BY <2>1, EveryStep
  <2>3. ~(MindStep(m) \/ FileStep(m) \/ WorkStep(m))
    BY <1>2 DEF MindStep, LoopThinks, LoopReviews, Ask, AnswerRefused, Escalates, RefuseAccept, Explore,
       RoundUnfunded, Synthesize, ClaimThrows, Crash, FileStep, DecideImplement, DecideExplore, StoreRevisedBrief,
       WorkStep, Implement, Release, LaunchRound, ClaimAttempt, WorkerPasses, WorkerFails, ReconcileReads, CreateChild,
       ChildEnds
  <2>4. TurnStep(m) => ReconcileTurn(m)
    BY <1>2 DEF TurnStep, Intend, Call, Answers, AnswersBadly, StaleThread
  <2>. QED BY <2>2, <2>3, <2>4
<1>4. ~EnsureRun(m) BY <1>2 DEF EnsureRun, FreshRun
<1>5. ~Start(m) BY <1>2 DEF Start
<1>6. MindOK(m) BY DEF LInv
<1>7. run \in RunRow /\ run # None
  BY <1>1, <1>3, <1>4, <1>5, <1>6 DEF RowStep, LoopStops, EnterImplementing, Replan, EnterExploring, DecideRevise,
     Accept, Halt, EnterReviewing, ReconcileTurn, Said, At, MindOK, Maybe
<1>8. CASE ~Accept(m)
  <2>1. CASE LoopStops(m) \/ Replan(m) \/ Halt(m) \/ ReconcileTurn(m)
    <3>1. PICK s : run' = [run EXCEPT !.status = s]
      BY <1>2, <2>1 DEF LoopStops, Replan, Halt, ReconcileTurn, Moved
    <3>. QED BY <1>7, <3>1 DEF RunRow
  <2>2. CASE EnterImplementing(m) \/ EnterReviewing(m)
    <3>1. PICK s, c : run' = [run EXCEPT !.status = s, !.candidate = c]
      BY <2>2 DEF EnterImplementing, EnterReviewing, Moved
    <3>. QED BY <1>7, <3>1 DEF RunRow
  <2>3. CASE EnterExploring(m)
    <3>1. PICK s, c : run' = [run EXCEPT !.status = s, !.xround = c] BY <2>3 DEF EnterExploring, Moved
    <3>. QED BY <1>7, <3>1 DEF RunRow
  <2>4. CASE DecideRevise(m)
    <3>1. PICK s, c : run' = [run EXCEPT !.rround = c, !.status = s] BY <1>2, <2>4 DEF DecideRevise, Moved
    <3>. QED BY <1>7, <3>1 DEF RunRow
  <2>. QED BY <1>3, <1>4, <1>5, <1>8, <2>1, <2>2, <2>3, <2>4 DEF RowStep
<1>. QED BY <1>8

\* What accept writes was earned: its own checks are of the attempt that the turn in hand is a review of.
LEMMA AcceptEarns ==
  ASSUME LInv, NEW m \in Managers, Accept(m)
  PROVE  Earned'
<1>1. /\ MindOK(m) /\ my[m] \in Memory /\ run \in Maybe(RunRow) /\ turns \in Seq(Turn)
      /\ my[m].pc = "decided" /\ my[m].said.action = "ACCEPT" /\ "ACCEPT" \in Supported(my[m].phase)
      /\ Acceptable(m, attempts[my[m].run.candidate]) /\ attempts' = attempts /\ turns' = turns
      /\ run' = [run EXCEPT !.status = "ACCEPTED", !.accepted = my[m].run.candidate]
  BY DEF Accept, Said, At, Moved, work, LInv, Typed
<1>2. my[m].phase = "REVIEW" BY <1>1 DEF Supported
<1>3. Own(m) /\ my[m].said \in Decisions /\ run \in RunRow /\ Terminal(turns[my[m].ordinal])
      /\ turns[my[m].ordinal].said = my[m].said
  BY <1>1 DEF MindOK, Maybe
<1>4. my[m].said = Act("ACCEPT", {}, None) BY <1>1, <1>3, DecisionShape
<1>5. PICK n \in DOMAIN turns : /\ turns[n].phase = "REVIEW" /\ turns[n].subject = my[m].run.candidate
                               /\ turns[n].said = Act("ACCEPT", {}, None) /\ Terminal(turns[n])
  BY <1>2, <1>3, <1>4 DEF Own, Subject
<1>6. run'.accepted = my[m].run.candidate BY <1>1, <1>3 DEF RunRow
<1>. QED BY <1>1, <1>5, <1>6 DEF Earned, Acceptable

\* What was accepted stays earned: neither the attempt nor the review is written again.
LEMMA EarnedStays ==
  ASSUME LInv, Earned, [Next]_vars
  PROVE  Earned'
<1>1. SUFFICES ASSUME run' # None, run'.accepted # None, run # None, run'.accepted = run.accepted PROVE Earned'
  BY AcceptEarns, OnlyAccept DEF Earned
<1>2. PICK a : a = run.accepted OBVIOUS
<1>3. /\ a \in DOMAIN attempts
      /\ attempts[a].terminal = "SUCCEEDED" /\ attempts[a].validation = "PASSED" /\ attempts[a].commit
  BY <1>1, <1>2 DEF LInv, RowOK, Names, Maybe, Earned
<1>4. attempts'[a] = attempts[a] BY <1>3, EndedStays DEF Live
<1>5. PICK n \in DOMAIN turns : /\ turns[n].phase = "REVIEW" /\ turns[n].subject = a
                               /\ turns[n].said = Act("ACCEPT", {}, None) /\ Terminal(turns[n])
  BY <1>1, <1>2 DEF Earned
<1>6. Grows BY TypedStep, Growth
<1>7. /\ n \in DOMAIN turns' /\ turns'[n].phase = "REVIEW" /\ turns'[n].subject = a
      /\ turns'[n].said = Act("ACCEPT", {}, None) /\ Terminal(turns'[n])
  BY <1>5, <1>6 DEF Grows
<1>. QED BY <1>1, <1>2, <1>3, <1>4, <1>7 DEF Earned

\* accept, with any number of processes: whatever is accepted is a validated attempt with a candidate, which a
\* completed review of exactly that attempt accepted.
THEOREM AcceptedWasEarned == Spec => []Earned
<1>1. Init => Earned BY DEF Init, Earned
<1>. QED BY <1>1, EarnedStays, LoopInvariant, PTL DEF Spec
-----------------------------------------------------------------------------
(***************************************************************************)
(* What is paid is paid once.                                              *)
(***************************************************************************)
Asleep == {"idle", "settling"}
Asked  == {"asked", "decided", "briefed", "planned", "halting"}

SameBills == DOMAIN turns' = DOMAIN turns /\ \A n \in DOMAIN turns : turns'[n].billed = turns[n].billed

\* The process lives on.
On(m) == my'[m].life = my[m].life /\ my[m].pc \notin Asleep /\ my'[m].pc \notin Asleep

\* A process ends or settles turns; is started; goes on, and leaves the question it asked only by moving the row;
\* waits for others; intends, makes or ends a call.
Sleeps(m) == SameBills /\ my'[m].life = 0 /\ my'[m].pc \in Asleep /\ moves' \in {moves, moves + 1}
Wakes(m)  == /\ SameBills /\ moves' = moves
             /\ my'[m].life = starts + 1 /\ starts' = starts + 1 /\ my'[m].pc \in {"opening", "loop"}
Works(m)  == /\ SameBills /\ On(m) /\ my'[m].pc \notin {"called", "asked"}
             /\ \/ moves' = moves + 1
                \/ moves' = moves /\ (my[m].pc \notin Asked \/ my'[m].pc \in Asked)
Waits(m)  == SameBills /\ my'[m] = my[m] /\ moves' = moves
Intends(m) == /\ On(m) /\ moves' = moves /\ my[m].pc = "intend" /\ my'[m].pc = "called"
              /\ my'[m].ordinal = Len(turns) + 1 /\ turns' = Append(turns, NewTurn(m))
Pays(m)   == /\ On(m) /\ moves' = moves /\ my[m].pc \in {"called", "asked"} /\ my'[m].ordinal = my[m].ordinal
             /\ DOMAIN turns' = DOMAIN turns
             /\ \A n \in DOMAIN turns : n # my[m].ordinal => turns'[n].billed = turns[n].billed
             /\ \/ my[m].pc = "called" /\ my'[m].pc = "asked"
                \/ my'[m].pc \in {"decided", "halting"}
                \/ my'[m].pc = "turn" /\ ~turns'[my[m].ordinal].billed

Lived(m) == Sleeps(m) \/ Wakes(m) \/ Works(m) \/ Waits(m) \/ Intends(m) \/ Pays(m)

\* An answer is paid for by the process it is for.
LEMMA PaysForItself ==
  ASSUME LInv, NEW m \in Managers, Call(m) \/ Answers(m) \/ AnswersBadly(m) \/ StaleThread(m)
  PROVE  Pays(m)
<1>1. /\ my \in [Managers -> Memory] /\ my[m] \in Memory /\ turns \in Seq(Turn) /\ Typed /\ MindOK(m)
      /\ moves' = moves
  BY DEF LInv, Typed, Call, Answers, AnswersBadly, StaleThread
<1>2. my[m].pc \in {"called", "asked"} BY DEF Call, Answers, AnswersBadly, StaleThread, At
<1>3. PICK n : n = my[m].ordinal OBVIOUS
<1>4. n \in DOMAIN turns BY <1>1, <1>2, <1>3 DEF MindOK, Own
<1>5. CASE Call(m)
  <2>1. turns' = [turns EXCEPT ![n] = [turns[n] EXCEPT !.billed = TRUE]] /\ my' = [my EXCEPT ![m].pc = "asked"]
        /\ my[m].pc = "called"
    BY <1>3, <1>5 DEF Call, To, At
  <2>2. my'[m].pc = "asked" /\ my'[m].ordinal = my[m].ordinal /\ my'[m].life = my[m].life BY <1>1, <2>1 DEF Memory
  <2>3. DOMAIN turns' = DOMAIN turns /\ \A k \in DOMAIN turns : k # n => turns'[k] = turns[k] BY <1>1, <2>1
  <2>. QED BY <1>1, <1>3, <2>1, <2>2, <2>3 DEF Pays, On, Asleep
<1>6. CASE Answers(m) \/ AnswersBadly(m) \/ StaleThread(m)
  <2>1. PICK s \in {"COMPLETED", "FAILED", "UNCERTAIN"}, d \in Maybe(Decisions), b \in BOOLEAN :
           FinishTurn(m, s, d, b)
    BY <1>6 DEF Answers, AnswersBadly, StaleThread, Maybe
  <2>2. DOMAIN turns' = DOMAIN turns /\ \A k \in DOMAIN turns : k # n => turns'[k] = turns[k]
    BY <1>1, <1>3, <2>1 DEF FinishTurn
  <2>3. CASE Answers(m)
    <3>1. PICK d2 \in Decisions : my' = [my EXCEPT ![m].pc = "decided", ![m].said = d2] BY <2>3 DEF Answers
    <3>2. my'[m].pc = "decided" /\ my'[m].ordinal = my[m].ordinal /\ my'[m].life = my[m].life
      BY <1>1, <3>1 DEF Memory
    <3>. QED BY <1>1, <1>2, <1>3, <2>2, <3>2 DEF Pays, On, Asleep
  <2>4. CASE AnswersBadly(m)
    <3>1. my' = [my EXCEPT ![m].pc = "halting"] BY <2>4 DEF AnswersBadly, To
    <3>2. my'[m].pc = "halting" /\ my'[m].ordinal = my[m].ordinal /\ my'[m].life = my[m].life
      BY <1>1, <3>1 DEF Memory
    <3>. QED BY <1>1, <1>2, <1>3, <2>2, <3>2 DEF Pays, On, Asleep
  <2>5. CASE StaleThread(m)
    <3>1. my' = [my EXCEPT ![m].pc = "turn", ![m].rolled = TRUE] BY <2>5 DEF StaleThread
    <3>2. my'[m].pc = "turn" /\ my'[m].ordinal = my[m].ordinal /\ my'[m].life = my[m].life
      BY <1>1, <3>1 DEF Memory
    <3>3. turns' = [turns EXCEPT ![n] = [turns[n] EXCEPT !.state = "FAILED", !.said = None, !.billed = FALSE]]
      BY <1>3, <2>5 DEF StaleThread, FinishTurn
    <3>4. ~turns'[n].billed
      <4>1. turns[n] \in Turn BY <1>1, <1>4
      <4>2. turns'[n] = [turns[n] EXCEPT !.state = "FAILED", !.said = None, !.billed = FALSE] BY <1>1, <1>4, <3>3
      <4>. QED BY <4>1, <4>2 DEF Turn
    <3>. QED BY <1>1, <1>2, <1>3, <2>2, <3>2, <3>4 DEF Pays, On, Asleep
  <2>. QED BY <1>6, <2>3, <2>4, <2>5
<1>. QED BY <1>5, <1>6

\* How a process that writes nothing goes on.
LEMMA MindLives ==
  ASSUME LInv, Lives, NEW m \in Managers, MindStep(m)
  PROVE  Lived(m)
<1>. USE DEF MindStep
<1>1. my \in [Managers -> Memory] /\ my[m] \in Memory /\ Typed BY DEF LInv, Typed
<1>2. SameBills /\ moves' = moves
  BY DEF LoopThinks, LoopReviews, Ask, AnswerRefused, Escalates, RefuseAccept, Explore, RoundUnfunded, Synthesize,
         ClaimThrows, Crash, SameBills
<1>3. CASE LoopThinks(m)
  <2>1. PICK p \in {<<"PLANNING", "PLAN">>, <<"SYNTHESIZING", "SYNTHESIS">>} :
          /\ my[m].pc = "loop"
          /\ my' = [my EXCEPT ![m].pc = "turn", ![m].run = run, ![m].phase = p[2], ![m].rolled = FALSE]
    BY <1>3 DEF LoopThinks, Going, At
  <2>2. my'[m].pc = "turn" /\ my'[m].life = my[m].life BY <1>1, <2>1 DEF Memory
  <2>. QED BY <1>2, <2>1, <2>2 DEF Lived, Works, On, Asleep, Asked
<1>4. CASE LoopReviews(m)
  <2>1. my[m].pc = "loop" BY <1>4 DEF LoopReviews, Going, At
  <2>2. my'[m].pc \in {"turn", "halting"} /\ my'[m].life = my[m].life
    BY <1>1, <1>4 DEF LoopReviews, Enter, Memory
  <2>. QED BY <1>2, <2>1, <2>2 DEF Lived, Works, On, Asleep, Asked
<1>5. CASE Ask(m)
  <2>1. my[m].pc = "turn" BY <1>5 DEF Ask, At
  <2>2. my'[m].pc \in {"intend", "halting"} /\ my'[m].life = my[m].life
    BY <1>1, <1>5 DEF Ask, To, Memory
  <2>. QED BY <1>2, <2>1, <2>2 DEF Lived, Works, On, Asleep, Asked
<1>6. CASE AnswerRefused(m) \/ Escalates(m) \/ RefuseAccept(m) \/ RoundUnfunded(m)
  <2>1. my[m].pc \in {"asked", "decided", "children"} /\ my' = [my EXCEPT ![m].pc = "halting"]
    BY <1>6 DEF AnswerRefused, Escalates, RefuseAccept, RoundUnfunded, To, Said, At
  <2>2. my'[m].pc = "halting" /\ my'[m].life = my[m].life BY <1>1, <2>1 DEF Memory
  <2>. QED BY <1>2, <2>1, <2>2 DEF Lived, Works, On, Asleep, Asked
<1>7. CASE Explore(m)
  <2>1. my[m].pc = "loop" BY <1>7 DEF Explore, Going, At
  <2>2. my'[m].pc \in {"children", "halting"} /\ my'[m].life = my[m].life BY <1>1, <1>7 DEF Explore, Enter, Memory
  <2>. QED BY <1>2, <2>1, <2>2 DEF Lived, Works, On, Asleep, Asked
<1>8. CASE Synthesize(m)
  <2>1. my[m].pc = "exploring"
        /\ my' = [my EXCEPT ![m].pc = "turn", ![m].phase = "SYNTHESIS", ![m].rolled = FALSE, ![m].launched = {}]
    BY <1>8 DEF Synthesize, At
  <2>2. my'[m].pc = "turn" /\ my'[m].life = my[m].life BY <1>1, <2>1 DEF Memory
  <2>. QED BY <1>2, <2>1, <2>2 DEF Lived, Works, On, Asleep, Asked
<1>9. CASE ClaimThrows(m) \/ Crash(m)
  <2>1. my' = [my EXCEPT ![m] = Rest] BY <1>9 DEF ClaimThrows, Crash, Return
  <2>2. my'[m].pc = "idle" /\ my'[m].life = 0 BY <1>1, <2>1 DEF Rest
  <2>. QED BY <1>2, <2>2 DEF Lived, Sleeps, Asleep
<1>. QED BY <1>3, <1>4, <1>5, <1>6, <1>7, <1>8, <1>9

\* A process that writes the row leaves the question it was at.
LEMMA RowLives ==
  ASSUME LInv, Lives, NEW m \in Managers, RowStep(m)
  PROVE  Lived(m)
<1>. USE DEF RowStep
<1>1. my \in [Managers -> Memory] /\ my[m] \in Memory /\ Typed BY DEF LInv, Typed
<1>2. SameBills
  BY DEF Start, EnsureRun, LoopStops, EnterImplementing, Replan, EnterExploring, DecideRevise, Accept, Halt,
         EnterReviewing, SameBills
<1>3. Return(m) => my'[m].pc = "idle" /\ my'[m].life = 0 BY <1>1 DEF Return, Rest
<1>4. Back(m) => my'[m].pc = "loop" /\ my'[m].life = my[m].life
  <2>1. Back(m) => my'[m] = [Rest EXCEPT !.pc = "loop", !.life = my[m].life] BY <1>1 DEF Back
  <2>2. /\ [Rest EXCEPT !.pc = "loop", !.life = my[m].life].pc = "loop"
        /\ [Rest EXCEPT !.pc = "loop", !.life = my[m].life].life = my[m].life
    BY DEF Rest
  <2>. QED BY <2>1, <2>2
<1>5. CASE Start(m)
  <2>1. PICK pc \in {"opening", "loop"} : my' = [my EXCEPT ![m] = [Rest EXCEPT !.pc = pc, !.life = starts + 1]]
    BY <1>5 DEF Start
  <2>2. my'[m].pc = pc /\ my'[m].life = starts + 1 BY <1>1, <2>1 DEF Rest
  <2>3. moves' = moves /\ starts' = starts + 1 BY <1>5 DEF Start
  <2>. QED BY <1>2, <2>2, <2>3 DEF Lived, Wakes
<1>6. CASE EnsureRun(m)
  BY <1>2, <1>4, <1>6 DEF EnsureRun, At, Lived, Works, On, Asleep, Asked
<1>7. CASE LoopStops(m) \/ Halt(m)
  <2>1. Return(m) /\ moves' \in {moves, moves + 1} BY <1>7 DEF LoopStops, Halt, Moved
  <2>. QED BY <1>2, <1>3, <2>1 DEF Lived, Sleeps, Asleep
<1>8. CASE EnterImplementing(m) \/ Replan(m) \/ EnterExploring(m) \/ Accept(m) \/ EnterReviewing(m)
  <2>1. Back(m) /\ moves' = moves + 1 /\ my[m].pc \in {"briefed", "decided", "planned", "working"}
    BY <1>8 DEF EnterImplementing, Replan, EnterExploring, Accept, EnterReviewing, Moved, Said, At
  <2>. QED BY <1>2, <1>4, <2>1 DEF Lived, Works, On, Asleep
<1>9. CASE DecideRevise(m)
  <2>1. my[m].pc = "decided" BY <1>9 DEF DecideRevise, Said, At
  <2>2. CASE moves' = moves + 1 /\ my' = [my EXCEPT ![m].pc = "revised"]
    <3>1. my'[m].pc = "revised" /\ my'[m].life = my[m].life BY <1>1, <2>2 DEF Memory
    <3>. QED BY <1>2, <2>1, <2>2, <3>1 DEF Lived, Works, On, Asleep
  <2>3. CASE moves' = moves /\ my' = [my EXCEPT ![m].pc = "halting"]
    <3>1. my'[m].pc = "halting" /\ my'[m].life = my[m].life BY <1>1, <2>3 DEF Memory
    <3>. QED BY <1>2, <2>1, <2>3, <3>1 DEF Lived, Works, On, Asleep, Asked
  <2>. QED BY <1>9, <2>2, <2>3 DEF DecideRevise, Moved, To
<1>. QED BY <1>5, <1>6, <1>7, <1>8, <1>9

\* A process that writes a turn intends it, pays for its own, or gives up what is stranded.
LEMMA TurnLives ==
  ASSUME LInv, Lives, NEW m \in Managers, TurnStep(m)
  PROVE  Lived(m)
<1>. USE DEF TurnStep
<1>1. my \in [Managers -> Memory] /\ my[m] \in Memory /\ Typed /\ turns \in Seq(Turn) /\ MindOK(m) BY DEF LInv, Typed
<1>2. Return(m) => my'[m].pc = "idle" /\ my'[m].life = 0 BY <1>1 DEF Return, Rest
<1>3. CASE Intend(m)
  <2>1. my[m].pc = "intend" /\ moves' = moves BY <1>3 DEF Intend, At
  <2>2. CASE Return(m) /\ turns' = turns BY <1>2, <2>1, <2>2 DEF Lived, Sleeps, Asleep, SameBills
  <2>3. CASE ~(Return(m) /\ turns' = turns)
    <3>1. my[m].ordinal \notin DOMAIN turns /\ turns' = Append(turns, NewTurn(m))
          /\ my' = [my EXCEPT ![m].pc = "called"]
      BY <1>3, <2>3 DEF Intend, To
    <3>2. my'[m].pc = "called" /\ my'[m].life = my[m].life /\ my'[m].ordinal = my[m].ordinal
      BY <1>1, <3>1 DEF Memory
    <3>3. my[m].ordinal = Len(turns) + 1 BY <1>1, <2>1, <3>1 DEF MindOK
    <3>. QED BY <2>1, <3>1, <3>2, <3>3 DEF Lived, Intends, On, Asleep
  <2>. QED BY <2>2, <2>3
<1>4. CASE Call(m) \/ Answers(m) \/ AnswersBadly(m) \/ StaleThread(m)
  BY <1>4, PaysForItself DEF Lived
<1>5. CASE ReconcileTurn(m)
  <2>1. my[m].pc = "settling" /\ moves' = moves + 1 BY <1>5 DEF ReconcileTurn, At, Moved
  <2>2. PICK n \in my[m].stranded :
           /\ turns' = [turns EXCEPT ![n].state = "UNCERTAIN"]
           /\ IF my[m].stranded = {n} THEN Return(m) ELSE my' = [my EXCEPT ![m].stranded = my[m].stranded \ {n}]
    BY <1>5 DEF ReconcileTurn
  <2>3. SameBills BY <1>1, <2>2 DEF SameBills, Turn
  <2>4. my'[m].pc \in Asleep /\ my'[m].life = 0
    <3>1. CASE Return(m) BY <1>2, <3>1 DEF Asleep
    <3>2. CASE my' = [my EXCEPT ![m].stranded = my[m].stranded \ {n}]
      <4>1. my'[m].pc = my[m].pc /\ my'[m].life = my[m].life BY <1>1, <3>2 DEF Memory
      <4>. QED BY <2>1, <4>1 DEF Lives, Asleep
    <3>. QED BY <2>2, <3>1, <3>2
  <2>. QED BY <2>1, <2>3, <2>4 DEF Lived, Sleeps
<1>. QED BY <1>3, <1>4, <1>5

\* A process that writes a file pays for nothing.
LEMMA FileLives ==
  ASSUME LInv, Lives, NEW m \in Managers, FileStep(m)
  PROVE  Lived(m)
<1>. USE DEF FileStep
<1>1. my \in [Managers -> Memory] /\ my[m] \in Memory /\ Typed BY DEF LInv, Typed
<1>2. SameBills /\ moves' = moves BY DEF DecideImplement, DecideExplore, StoreRevisedBrief, SameBills
<1>3. CASE DecideImplement(m) \/ DecideExplore(m)
  <2>1. my[m].pc = "decided" BY <1>3 DEF DecideImplement, DecideExplore, Said, At
  <2>2. my'[m].pc \in {"briefed", "planned", "halting"} /\ my'[m].life = my[m].life
    BY <1>1, <1>3 DEF DecideImplement, DecideExplore, To, Enter, Memory
  <2>. QED BY <1>2, <2>1, <2>2 DEF Lived, Works, On, Asleep, Asked
<1>4. CASE StoreRevisedBrief(m)
  <2>1. my[m].pc = "revised" /\ my' = [my EXCEPT ![m] = [Rest EXCEPT !.pc = "loop", !.life = my[m].life]]
    BY <1>4 DEF StoreRevisedBrief, At, Back
  <2>2. my'[m].pc = "loop" /\ my'[m].life = my[m].life BY <1>1, <2>1 DEF Rest
  <2>. QED BY <1>2, <2>1, <2>2 DEF Lived, Works, On, Asleep, Asked
<1>. QED BY <1>3, <1>4

\* A process that works with the dispatcher pays for nothing.
LEMMA WorkLives ==
  ASSUME LInv, Lives, NEW m \in Managers, WorkStep(m)
  PROVE  Lived(m)
<1>. USE DEF WorkStep
<1>1. my \in [Managers -> Memory] /\ my[m] \in Memory /\ Typed BY DEF LInv, Typed
<1>2. SameBills /\ moves' = moves
  BY DEF Implement, Release, LaunchRound, ClaimAttempt, WorkerPasses, WorkerFails, ReconcileReads, CreateChild, ChildEnds,
         SameBills
<1>3. CASE Implement(m) \/ Release(m) \/ LaunchRound(m) \/ ClaimAttempt(m)
  <2>1. my[m].pc \in {"loop", "children", "instructed", "claim"} BY <1>3 DEF Implement, Release, LaunchRound, ClaimAttempt, Going, At
  <2>2. my'[m].pc \in {"halting", "instructed", "claim", "exploring", "working"} /\ my'[m].life = my[m].life
    <3>1. CASE Implement(m) BY <1>1, <3>1 DEF Implement, Enter, Memory
    <3>2. CASE Release(m) BY <1>1, <3>2 DEF Release, To, Memory
    <3>3. CASE LaunchRound(m) \/ ClaimAttempt(m) BY <1>1, <3>3 DEF LaunchRound, ClaimAttempt, Memory
    <3>. QED BY <1>3, <3>1, <3>2, <3>3
  <2>. QED BY <1>2, <2>1, <2>2 DEF Lived, Works, On, Asleep, Asked
<1>4. CASE WorkerPasses(m) \/ WorkerFails(m) \/ \E q \in Questions : CreateChild(m, q) \/ ChildEnds(m, q)
  <2>1. my' = my BY <1>4 DEF WorkerPasses, WorkerFails, CreateChild, ChildEnds
  <2>. QED BY <1>2, <2>1 DEF Lived, Waits
<1>5. CASE ReconcileReads(m)
  <2>1. PICK ns : my' = [my EXCEPT ![m].pc = "settling", ![m].stranded = ns] BY <1>5 DEF ReconcileReads
  <2>2. my'[m].pc = "settling" /\ my'[m].life = my[m].life BY <1>1, <2>1 DEF Memory
  <2>3. my[m].life = 0 BY <1>5 DEF ReconcileReads, At, Lives
  <2>. QED BY <1>2, <2>2, <2>3 DEF Lived, Sleeps, Asleep
<1>. QED BY <1>3, <1>4, <1>5
\* What a step of one process does to the turns: the old ones are about what they were about, one at most is billed
\* now and it is its own, and one at most is new, not billed, and its own.
LEMMA TurnsLived ==
  ASSUME LInv, LInv', PInv, Grows, NEW m \in Managers, Lived(m)
  PROVE  /\ \A n \in DOMAIN turns : turns'[n].billed =>
              turns[n].billed \/ (Pays(m) /\ n = my[m].ordinal)
         /\ \A n \in DOMAIN turns' : n \notin DOMAIN turns =>
              /\ Intends(m) /\ n = Len(turns) + 1 /\ ~turns'[n].billed
              /\ turns'[n].life = my[m].life /\ turns'[n].question = moves
<1>1. turns \in Seq(Turn) /\ turns' \in Seq(Turn) /\ Typed /\ MindOK(m) BY DEF LInv, Typed
<1>2. CASE Intends(m)
  <2>1. my[m].pc = "intend" /\ turns' = Append(turns, NewTurn(m)) BY <1>2 DEF Intends
  <2>2. NewTurn(m) \in Turn BY <1>1, <2>1, IntendedFits
  <2>3. /\ DOMAIN turns' = DOMAIN turns \cup {Len(turns) + 1} /\ turns'[Len(turns) + 1] = NewTurn(m)
        /\ \A n \in DOMAIN turns : turns'[n] = turns[n]
    BY <1>1, <2>1, <2>2, Added
  <2>4. /\ ~NewTurn(m).billed
        /\ NewTurn(m).life = my[m].life /\ NewTurn(m).question = moves
    BY DEF NewTurn
  <2>. QED BY <1>2, <2>3, <2>4
<1>3. CASE Pays(m) BY <1>3 DEF Pays
<1>4. CASE SameBills BY <1>4 DEF SameBills
<1>. QED BY <1>2, <1>3, <1>4 DEF Lived, Sleeps, Wakes, Works, Waits

\* A turn is of one question and one life.
LEMMA TurnOf ==
  ASSUME turns \in Seq(Turn), NEW n \in DOMAIN turns
  PROVE  turns[n].question \in Nat /\ turns[n].life \in Nat
<1>1. turns[n] \in Turn OBVIOUS
<1>. QED BY <1>1 DEF Turn

\* The lives stay apart, and the turns belong to lives that were lived.
LEMMA LivesStay ==
  ASSUME LInv, LInv', PInv, Grows, NEW m \in Managers, Lived(m), starts' \in {starts, starts + 1},
         \A k \in Managers : k # m => my'[k] = my[k]
  PROVE  Lives'
<1>1. /\ turns \in Seq(Turn) /\ turns' \in Seq(Turn) /\ starts \in Nat /\ moves \in Nat
      /\ \A k \in Managers : my[k].life \in Nat /\ my'[k].life \in Nat
  BY DEF LInv, Typed, Memory
<1>2. Lives BY DEF PInv
<1>3. \/ my'[m].life = 0 /\ my'[m].pc \in Asleep
      \/ my'[m].life = starts + 1 /\ starts' = starts + 1 /\ my'[m].pc \notin Asleep
      \/ my'[m].life = my[m].life /\ my[m].pc \notin Asleep /\ my'[m].pc \notin Asleep
      \/ my'[m] = my[m]
  BY DEF Lived, Sleeps, Wakes, Works, Waits, Intends, Pays, On, Asleep
<1>4. moves' \in {moves, moves + 1} BY DEF Lived, Sleeps, Wakes, Works, Waits, Intends, Pays
<1>5. ASSUME NEW k \in Managers
      PROVE  my'[k].life <= starts' /\ (my'[k].life = 0 <=> my'[k].pc \in {"idle", "settling"})
  <2>1. CASE k = m BY <1>1, <1>2, <1>3, <2>1 DEF Lives, Asleep
  <2>2. CASE k # m BY <1>1, <1>2, <2>2 DEF Lives
  <2>. QED BY <2>1, <2>2
<1>6. ASSUME NEW j \in Managers, NEW k \in Managers, my'[j].life = my'[k].life, my'[j].life > 0 PROVE j = k
  <2>1. ASSUME NEW i \in Managers, i # m, my'[i].life = my'[m].life, my'[i].life > 0 PROVE FALSE
    <3>1. my'[i].life = my[i].life /\ my[i].life <= starts BY <1>2, <2>1 DEF Lives
    <3>2. my'[m].life \in {0, starts + 1, my[m].life} BY <1>3
    <3>3. my'[m].life = my[m].life BY <1>1, <2>1, <3>1, <3>2
    <3>. QED BY <1>2, <2>1, <3>1, <3>3 DEF Lives
  <2>2. CASE j # m /\ k # m BY <1>2, <1>6, <2>2 DEF Lives
  <2>3. CASE j = m \/ k = m BY <1>6, <2>1, <2>3
  <2>. QED BY <2>2, <2>3
<1>7. ASSUME NEW n \in DOMAIN turns' PROVE turns'[n].life \in 1..starts' /\ turns'[n].question <= moves'
  <2>1. CASE n \in DOMAIN turns
    <3>1. turns[n].life \in 1..starts /\ turns[n].question <= moves BY <1>2, <2>1 DEF Lives
    <3>2. turns'[n].life = turns[n].life /\ turns'[n].question = turns[n].question BY <2>1 DEF Grows
    <3>3. turns[n].question \in Nat BY <1>1, <2>1, TurnOf
    <3>. QED BY <1>1, <1>4, <3>1, <3>2, <3>3
  <2>2. CASE n \notin DOMAIN turns
    <3>1. Intends(m) /\ turns'[n].life = my[m].life /\ turns'[n].question = moves BY <2>2, TurnsLived
    <3>2. my[m].life # 0 /\ my[m].life <= starts BY <1>2, <3>1 DEF Lives, Intends
    <3>. QED BY <1>1, <1>4, <3>1, <3>2
  <2>. QED BY <2>1, <2>2
<1>. QED BY <1>5, <1>6, <1>7 DEF Lives

\* Nobody pays for another's question.
LEMMA OthersPay ==
  ASSUME LInv, LInv', PInv, Grows, NEW m \in Managers, Lived(m), NEW k \in Managers, k # m, my'[k] = my[k]
  PROVE  PaidFor(k)'
<1>1. /\ turns \in Seq(Turn) /\ turns' \in Seq(Turn) /\ moves \in Nat /\ my[k].life \in Nat /\ my[m].life \in Nat
  BY DEF LInv, Typed, Memory
<1>2. Lives /\ PaidFor(k) BY DEF PInv
<1>3. moves' \in {moves, moves + 1} BY DEF Lived, Sleeps, Wakes, Works, Waits, Intends, Pays
<1>4. ASSUME my[m].life = my[k].life, my[m].life > 0 PROVE FALSE BY <1>2, <1>4 DEF Lives
<1>5. ASSUME NEW n \in DOMAIN turns', n \notin DOMAIN turns
      PROVE  turns'[n].life # my[k].life /\ ~turns'[n].billed /\ n = Len(turns) + 1
  <2>1. Intends(m) /\ turns'[n].life = my[m].life /\ ~turns'[n].billed /\ n = Len(turns) + 1
    BY <1>5, TurnsLived
  <2>2. my[m].life > 0 BY <1>1, <1>2, <2>1 DEF Lives, Intends
  <2>. QED BY <1>4, <2>1, <2>2
<1>6. my'[k].pc \in {"called", "asked"} =>
         /\ turns'[my'[k].ordinal].life = my'[k].life
         /\ \A n \in DOMAIN turns' : n > my'[k].ordinal => turns'[n].life # my'[k].life
  <2>1. SUFFICES ASSUME my[k].pc \in {"called", "asked"}
                 PROVE  /\ turns'[my[k].ordinal].life = my[k].life
                        /\ \A n \in DOMAIN turns' : n > my[k].ordinal => turns'[n].life # my[k].life
    OBVIOUS
  <2>2. my[k].ordinal \in DOMAIN turns BY <2>1 DEF LInv, MindOK, Own
  <2>. QED BY <1>2, <1>5, <2>1, <2>2 DEF PaidFor, Grows
<1>7. ASSUME NEW n \in DOMAIN turns', Paid(k, n)'
      PROVE  my'[k].pc \in {"decided", "briefed", "planned", "halting"} \/ (my'[k].pc = "asked" /\ n = my'[k].ordinal)
  <2>1. n \in DOMAIN turns BY <1>5, <1>7 DEF Paid
  <2>2. turns[n].life = my[k].life /\ turns[n].question = moves' /\ turns'[n].billed
    BY <1>7, <2>1 DEF Paid, Grows
  <2>3. moves' = moves
    <3>1. turns[n].question <= moves /\ turns[n].question \in Nat BY <1>1, <1>2, <2>1, TurnOf DEF Lives
    <3>. QED BY <1>1, <1>3, <2>2, <3>1
  <2>4. ~(Pays(m) /\ n = my[m].ordinal)
    <3>1. SUFFICES ASSUME Pays(m), n = my[m].ordinal PROVE FALSE OBVIOUS
    <3>2. turns[n].life = my[m].life BY <3>1 DEF Pays, PInv, PaidFor
    <3>3. my[m].life > 0 BY <1>1, <1>2, <3>1 DEF Lives, Pays, On, Asleep
    <3>. QED BY <1>4, <2>2, <3>2, <3>3
  <2>5. Paid(k, n) BY <2>1, <2>2, <2>3, <2>4, TurnsLived DEF Paid
  <2>. QED BY <1>2, <2>1, <2>5 DEF PaidFor
<1>. QED BY <1>6, <1>7 DEF PaidFor

\* A process that goes on has paid for the question it is at only between the call and the row it moves.
LEMMA SelfPays ==
  ASSUME LInv, LInv', PInv, Lives', Grows, NEW m \in Managers, Lived(m)
  PROVE  PaidFor(m)'
<1>1. /\ turns \in Seq(Turn) /\ turns' \in Seq(Turn) /\ moves \in Nat /\ my[m].life \in Nat /\ my'[m].life \in Nat
      /\ starts \in Nat /\ MindOK(m)
  BY DEF LInv, Typed, Memory
<1>2. Lives /\ PaidFor(m) BY DEF PInv
<1>3. \A n \in DOMAIN turns : turns[n].question <= moves /\ turns[n].question \in Nat /\ turns[n].life \in 1..starts
  BY <1>1, <1>2, TurnOf DEF Lives
<1>4. \A n \in DOMAIN turns' : turns'[n].life > 0 BY <1>1 DEF Lives, LInv, Typed
<1>5. \A n \in DOMAIN turns : turns'[n].life = turns[n].life /\ turns'[n].question = turns[n].question
  BY DEF Grows
<1>6. CASE Sleeps(m)
  BY <1>4, <1>6 DEF Sleeps, Asleep, PaidFor, Paid
<1>7. CASE Wakes(m)
  BY <1>1, <1>3, <1>5, <1>7 DEF Wakes, SameBills, PaidFor, Paid
<1>8. CASE Works(m)
  <2>1. ASSUME NEW n \in DOMAIN turns', Paid(m, n)', my'[m].pc \notin Asked PROVE FALSE
    <3>1. n \in DOMAIN turns /\ turns[n].billed /\ turns[n].life = my[m].life /\ turns[n].question = moves'
      BY <1>5, <1>8, <2>1 DEF Works, SameBills, Paid, On
    <3>2. moves' = moves BY <1>1, <1>3, <1>8, <3>1 DEF Works
    <3>3. Paid(m, n) BY <3>1, <3>2 DEF Paid
    <3>4. my[m].pc \notin Asked BY <1>1, <1>8, <2>1, <3>2 DEF Works
    <3>. QED BY <1>2, <3>1, <3>3, <3>4 DEF PaidFor, Asked
  <2>2. my'[m].pc \notin {"called", "asked"} BY <1>8 DEF Works
  <2>. QED BY <2>1, <2>2 DEF PaidFor, Asked
<1>9. CASE Waits(m)
  <2>1. /\ my'[m] = my[m] /\ moves' = moves /\ DOMAIN turns' = DOMAIN turns
        /\ \A n \in DOMAIN turns : turns'[n].billed = turns[n].billed
    BY <1>9 DEF Waits, SameBills
  <2>2. \A n \in DOMAIN turns : Paid(m, n)' => Paid(m, n) BY <1>5, <2>1 DEF Paid
  <2>3. my[m].pc \in {"called", "asked"} => my[m].ordinal \in DOMAIN turns BY <1>1 DEF MindOK, Own
  <2>. QED BY <1>2, <1>5, <2>1, <2>2, <2>3 DEF PaidFor
<1>10. CASE Intends(m)
  <2>1. /\ my[m].pc = "intend" /\ my'[m].pc = "called" /\ my'[m].ordinal = Len(turns) + 1
        /\ my'[m].life = my[m].life /\ moves' = moves /\ ~Pays(m)
    BY <1>10 DEF Intends, On, Pays
  <2>2. \A n \in DOMAIN turns' : n \notin DOMAIN turns =>
           n = Len(turns) + 1 /\ ~turns'[n].billed /\ turns'[n].life = my[m].life
    BY TurnsLived
  <2>3. Len(turns) + 1 \in DOMAIN turns'
    <3>1. NewTurn(m) \in Turn BY <1>1, <2>1, IntendedFits DEF LInv
    <3>. QED BY <1>1, <1>10, <3>1, Added DEF Intends
  <2>4. turns'[Len(turns) + 1].life = my[m].life BY <1>1, <2>2, <2>3
  <2>5. \A n \in DOMAIN turns' : ~(n > Len(turns) + 1) BY <1>1, <2>2
  <2>6. ASSUME NEW n \in DOMAIN turns', Paid(m, n)' PROVE FALSE
    <3>1. n \in DOMAIN turns BY <2>2, <2>6 DEF Paid
    <3>2. turns[n].billed BY <2>1, <2>6, <3>1, TurnsLived DEF Paid
    <3>3. Paid(m, n) BY <1>5, <2>1, <2>6, <3>1, <3>2 DEF Paid
    <3>. QED BY <1>2, <2>1, <3>1, <3>3 DEF PaidFor
  <2>. QED BY <2>1, <2>4, <2>5, <2>6 DEF PaidFor
<1>11. CASE Pays(m)
  <2>1. /\ my[m].pc \in {"called", "asked"} /\ my'[m].ordinal = my[m].ordinal /\ my'[m].life = my[m].life
        /\ moves' = moves /\ DOMAIN turns' = DOMAIN turns
        /\ \A n \in DOMAIN turns : n # my[m].ordinal => turns'[n].billed = turns[n].billed
    BY <1>11 DEF Pays, On
  <2>2. PICK o : o = my[m].ordinal OBVIOUS
  <2>3. /\ o \in DOMAIN turns /\ turns[o].life = my[m].life
        /\ \A n \in DOMAIN turns : n > o => turns[n].life # my[m].life
    BY <1>1, <1>2, <2>1, <2>2 DEF MindOK, Own, PaidFor
  <2>4. \A n \in DOMAIN turns : Paid(m, n)' => n = o
    BY <1>2, <1>5, <2>1, <2>2 DEF PaidFor, Paid
  <2>5. my'[m].pc = "turn" => \A n \in DOMAIN turns' : ~Paid(m, n)'
    BY <1>11, <2>1, <2>2, <2>4 DEF Pays, Paid
  <2>6. my'[m].pc \in {"asked", "decided", "halting", "turn"} BY <1>11 DEF Pays
  <2>. QED BY <1>5, <2>1, <2>2, <2>3, <2>4, <2>5, <2>6 DEF PaidFor
<1>. QED BY <1>6, <1>7, <1>8, <1>9, <1>10, <1>11 DEF Lived
\* A process that pays has not paid for the question before, and what it intends it has not paid for yet.
LEMMA PaidOnceStays ==
  ASSUME LInv, LInv', PInv, Grows, NEW m \in Managers, Lived(m)
  PROVE  PaidOncePerProcess'
<1>1. /\ turns \in Seq(Turn) /\ turns' \in Seq(Turn) /\ MindOK(m) BY DEF LInv, Typed
<1>2. Lives /\ PaidFor(m) /\ PaidOncePerProcess BY DEF PInv
<1>3. \A n \in DOMAIN turns : turns'[n].life = turns[n].life /\ turns'[n].question = turns[n].question
  BY DEF Grows
<1>4. SUFFICES ASSUME NEW i \in DOMAIN turns', NEW j \in DOMAIN turns', i < j,
                      turns'[i].question = turns'[j].question, turns'[i].life = turns'[j].life, turns'[i].billed
               PROVE  FALSE
  BY DEF PaidOncePerProcess, SameQuestion
<1>5. i \in DOMAIN turns
  <2>1. SUFFICES ASSUME i \notin DOMAIN turns PROVE FALSE OBVIOUS
  <2>. QED BY <1>4, <2>1, TurnsLived
<1>6. CASE j \in DOMAIN turns
  <2>1. turns[i].question = turns[j].question /\ turns[i].life = turns[j].life BY <1>3, <1>4, <1>5, <1>6
  <2>2. ~turns[i].billed BY <1>2, <1>4, <1>5, <1>6, <2>1 DEF PaidOncePerProcess, SameQuestion
  <2>3. Pays(m) /\ i = my[m].ordinal BY <1>4, <1>5, <2>2, TurnsLived
  <2>4. /\ turns[i].life = my[m].life
        /\ \A n \in DOMAIN turns : n > i => turns[n].life # my[m].life
    BY <1>2, <2>3 DEF PaidFor, Pays
  <2>. QED BY <1>1, <1>4, <1>5, <1>6, <2>1, <2>4
<1>7. CASE j \notin DOMAIN turns
  <2>1. Intends(m) /\ turns'[j].life = my[m].life /\ turns'[j].question = moves BY <1>7, TurnsLived
  <2>2. my[m].pc = "intend" BY <2>1 DEF Intends
  <2>3. turns[i].billed BY <1>4, <1>5, <2>2, TurnsLived DEF Pays
  <2>4. Paid(m, i) BY <1>3, <1>4, <1>5, <2>1, <2>3 DEF Paid
  <2>. QED BY <1>2, <1>5, <2>2, <2>4 DEF PaidFor
<1>. QED BY <1>6, <1>7

\* The starts are counted.
LEMMA StartsCount ==
  ASSUME [Next]_vars
  PROVE  starts' \in {starts, starts + 1}
<1>1. CASE WorldStep \/ UNCHANGED vars BY <1>1 DEF WorldStep, CancelJob, BranchMoves, WorkerLost, vars
<1>2. ASSUME NEW m \in Managers, MindStep(m) PROVE starts' = starts
  BY <1>2 DEF MindStep, LoopThinks, LoopReviews, Ask, AnswerRefused, Escalates, RefuseAccept, Explore, RoundUnfunded,
     Synthesize, ClaimThrows, Crash
<1>3. ASSUME NEW m \in Managers, RowStep(m) PROVE starts' \in {starts, starts + 1}
  BY <1>3 DEF RowStep, Start, EnsureRun, LoopStops, EnterImplementing, Replan, EnterExploring, DecideRevise, Accept,
     Halt, EnterReviewing
<1>4. ASSUME NEW m \in Managers, TurnStep(m) PROVE starts' = starts
  BY <1>4 DEF TurnStep, Intend, Call, Answers, AnswersBadly, StaleThread, ReconcileTurn
<1>5. ASSUME NEW m \in Managers, FileStep(m) PROVE starts' = starts
  BY <1>5 DEF FileStep, DecideImplement, DecideExplore, StoreRevisedBrief
<1>6. ASSUME NEW m \in Managers, WorkStep(m) PROVE starts' \in {starts, starts + 1}
  BY <1>6 DEF WorkStep, Implement, Release, LaunchRound, ClaimAttempt, WorkerPasses, WorkerFails, ReconcileReads, CreateChild,
     ChildEnds
<1>. QED BY <1>1, <1>2, <1>3, <1>4, <1>5, <1>6, EveryStep

\* What is paid stays paid once, whichever process takes the step.
LEMMA PaidPreserved ==
  ASSUME LInv, LInv', PInv, [Next]_vars
  PROVE  PInv'
<1>1. Grows BY Growth DEF LInv
<1>2. Lives BY DEF PInv
<1>3. ASSUME NEW m \in Managers, MindStep(m) \/ RowStep(m) \/ TurnStep(m) \/ FileStep(m) \/ WorkStep(m)
      PROVE  PInv'
  <2>1. Lived(m) BY <1>2, <1>3, MindLives, RowLives, TurnLives, FileLives, WorkLives
  <2>2. \A k \in Managers : k # m => my'[k] = my[k] BY <1>3, OneMind
  <2>3. Lives' BY <1>1, <2>1, <2>2, StartsCount, LivesStay
  <2>4. PaidFor(m)' BY <1>1, <2>1, <2>3, SelfPays
  <2>5. \A k \in Managers : k # m => PaidFor(k)' BY <1>1, <2>1, <2>2, OthersPay
  <2>6. PaidOncePerProcess' BY <1>1, <2>1, PaidOnceStays
  <2>. QED BY <2>3, <2>4, <2>5, <2>6 DEF PInv
<1>4. ASSUME WorldStep \/ UNCHANGED vars PROVE PInv'
  <2>1. UNCHANGED <<turns, my, moves, starts>>
    BY <1>4 DEF WorldStep, CancelJob, BranchMoves, WorkerLost, vars
  <2>. QED BY <2>1 DEF PInv, Lives, PaidFor, Paid, PaidOncePerProcess, SameQuestion
<1>. QED BY <1>3, <1>4, EveryStep

\* Nothing has been paid at the start.
LEMMA PaidInit == Init => PInv
<1>. SUFFICES ASSUME Init PROVE PInv OBVIOUS
<1>1. /\ turns = <<>> /\ starts = 0 /\ \A m \in Managers : my[m] = Rest BY DEF Init
<1>2. Rest.life = 0 /\ Rest.pc = "idle" BY DEF Rest
<1>3. Lives BY <1>1, <1>2 DEF Lives
<1>4. \A m \in Managers : PaidFor(m) BY <1>1, <1>2 DEF PaidFor
<1>5. PaidOncePerProcess BY <1>1 DEF PaidOncePerProcess
<1>. QED BY <1>3, <1>4, <1>5 DEF PInv

\* runTurn, with any number of processes at once: one process never pays twice for the answer to one question.
THEOREM PaidOnce == Spec => []PaidOncePerProcess
<1>1. PInv => PaidOncePerProcess BY DEF PInv
<1>. QED BY <1>1, PaidInit, PaidPreserved, LoopInvariant, PTL DEF Spec
-----------------------------------------------------------------------------
(***************************************************************************)
(* One process at a time.                                                  *)
(***************************************************************************)
\* A decision that was the last to tell anything still is when no turn changes.
LEMMA SameTold ==
  ASSUME turns' = turns, NEW b, ToldLast(b)
  PROVE  ToldLast(b)'
BY DEF ToldLast, LastTold, Told

\* So is one that was the last and a revision.
LEMMA SameRevision ==
  ASSUME turns' = turns, Revises
  PROVE  Revises'
BY DEF Revises, LastTold, Told

\* What the briefs of a row are called.
LEMMA SlotOf ==
  ASSUME NEW r \in RunRow
  PROVE  Slot(r) \in Slots /\ Slot(r) \in Nat
BY Caps, BoundsAssumption DEF Slot, RunRow

\* A process that goes back, with the tables as they are: what was true of it alone still is.
LEMMA BackAlone ==
  ASSUME LInv, NEW m \in Managers, Alone(m), UNCHANGED <<turns, run, briefs>>,
         job' = job \/ job' # "READY_FOR_INTEGRATION",
         my'[m].pc \in {"idle", "loop", "settling"}
  PROVE  Alone(m)'
<1>1. Offers(m)' BY DEF Alone, Offers
<1>2. Current(m)' /\ Passes(m)' BY DEF Current, Passes, Inside, Asking
<1>3. ASSUME run # None, run.status = "IMPLEMENTING"
      PROVE  (briefs[Slot(run)] = None /\ Revises) \/ ToldLast(briefs[Slot(run)])
  BY <1>3 DEF Alone, Passes, Files
<1>4. ASSUME run' # None, run'.status = "IMPLEMENTING"
      PROVE  (briefs'[Slot(run')] = None /\ Revises') \/ ToldLast(briefs[Slot(run)])'
  BY <1>3, <1>4, SameTold, SameRevision
<1>5. Files(m)' BY <1>4 DEF Alone, Files
<1>. QED BY <1>1, <1>2, <1>5 DEF Alone

\* Nobody but the dispatcher moves.
LEMMA KeptAlone ==
  ASSUME LInv, NEW m \in Managers, Alone(m), UNCHANGED <<turns, run, briefs>>, my'[m] = my[m],
         job' = job \/ job' # "READY_FOR_INTEGRATION"
  PROVE  Alone(m)'
<1>1. (\A b : ToldLast(b) <=> ToldLast(b)') /\ (Revises <=> Revises')
  BY DEF ToldLast, Revises, LastTold, Told
<1>2. Offers(m)' BY DEF Alone, Offers
<1>3. Current(m)' BY DEF Alone, Current
<1>4. Passes(m)' BY <1>1 DEF Alone, Passes
<1>5. Files(m)' BY <1>1 DEF Alone, Files
<1>. QED BY <1>2, <1>3, <1>4, <1>5 DEF Alone

\* A process goes on, with the row it read, or gives up.
LEMMA OnAlone ==
  ASSUME LInv, NEW m \in Managers, Alone(m), UNCHANGED <<turns, run, briefs, job>>,
         job # "READY_FOR_INTEGRATION", my[m].pc # "revised",
         \/ my'[m].pc = "halting"
         \/ /\ my'[m].pc \in {"turn", "intend", "planned", "children", "exploring"} /\ my'[m].run = run
            /\ run # None => run.status # "IMPLEMENTING"
  PROVE  Alone(m)'
<1>1. (\A b : ToldLast(b) <=> ToldLast(b)') /\ (Revises <=> Revises')
  BY DEF ToldLast, Revises, LastTold, Told
<1>2. Offers(m)' BY DEF Offers
<1>3. Current(m)' BY DEF Current, Inside, Asking
<1>4. Passes(m)' BY DEF Passes
<1>5. Files(m)' BY <1>1 DEF Alone, Files
<1>. QED BY <1>2, <1>3, <1>4, <1>5 DEF Alone

\* The row moves to a status that asks for no implementation, and the process goes back.
LEMMA MovedAlone ==
  ASSUME LInv, NEW m \in Managers, Alone(m), briefs' = briefs,
         run' # None, run'.status # "IMPLEMENTING", run # None => Slot(run') = Slot(run),
         job' = "READY_FOR_INTEGRATION" => run'.status = "ACCEPTED",
         my'[m].pc \in {"idle", "loop", "settling"}
  PROVE  Alone(m)'
<1>1. Offers(m)' BY DEF Offers
<1>2. Current(m)' /\ Passes(m)' BY DEF Current, Passes, Inside, Asking
<1>3. Files(m)' BY DEF Alone, Files
<1>. QED BY <1>1, <1>2, <1>3 DEF Alone

\* A process that writes nothing.
LEMMA MindAlone ==
  ASSUME LInv, NEW m \in Managers, Alone(m), MindStep(m)
  PROVE  Alone(m)'
<1>. USE DEF MindStep
<1>1. /\ my \in [Managers -> Memory] /\ my[m] \in Memory BY DEF LInv, Typed
<1>2. UNCHANGED <<turns, run, briefs, job>>
  BY DEF LoopThinks, LoopReviews, Ask, AnswerRefused, Escalates, RefuseAccept, Explore, RoundUnfunded, Synthesize,
         ClaimThrows, Crash, work, files
<1>3. CASE ClaimThrows(m) \/ Crash(m)
  <2>1. my'[m].pc = "idle" BY <1>3, Leaves DEF LInv, ClaimThrows, Crash
  <2>. QED BY <1>2, <2>1, BackAlone
<1>4. CASE LoopThinks(m) \/ LoopReviews(m) \/ Explore(m)
  <2>1. my[m].pc = "loop" /\ run.status \notin {"ACCEPTED", "IMPLEMENTING"}
    <3>1. CASE LoopThinks(m) BY <3>1 DEF LoopThinks, Going, At
    <3>2. CASE LoopReviews(m) BY <3>2 DEF LoopReviews, Going, At
    <3>3. CASE Explore(m) BY <3>3 DEF Explore, Going, At
    <3>. QED BY <1>4, <3>1, <3>2, <3>3
  <2>2. job # "READY_FOR_INTEGRATION" BY <2>1 DEF Alone, Offers
  <2>3. my'[m].pc \in {"turn", "halting", "children"} /\ my'[m].run = run
    <3>1. CASE LoopThinks(m) BY <1>1, <3>1 DEF LoopThinks, Memory
    <3>2. CASE LoopReviews(m) BY <1>1, <3>2 DEF LoopReviews, Enter, Memory
    <3>3. CASE Explore(m) BY <1>1, <3>3 DEF Explore, Enter, Memory
    <3>. QED BY <1>4, <3>1, <3>2, <3>3
  <2>. QED BY <1>2, <2>1, <2>2, <2>3, OnAlone
<1>5. CASE Ask(m) \/ AnswerRefused(m) \/ Escalates(m) \/ RefuseAccept(m) \/ RoundUnfunded(m) \/ Synthesize(m)
  <2>1. my[m].pc \in {"turn", "asked", "decided", "children", "exploring"}
    BY <1>5 DEF Ask, AnswerRefused, Escalates, RefuseAccept, RoundUnfunded, Synthesize, Said, At
  <2>2. /\ job # "READY_FOR_INTEGRATION" /\ my[m].run = run
        /\ run # None => run.status # "IMPLEMENTING"
    BY <2>1 DEF Alone, Offers, Current, Files, Inside, Asking
  <2>3. my'[m].pc = "halting" \/ (my'[m].pc \in {"intend", "turn"} /\ my'[m].run = my[m].run)
    <3>1. CASE Ask(m) BY <1>1, <3>1 DEF Ask, To, Memory
    <3>2. CASE AnswerRefused(m) \/ Escalates(m) \/ RefuseAccept(m) \/ RoundUnfunded(m)
      BY <1>1, <3>2 DEF AnswerRefused, Escalates, RefuseAccept, RoundUnfunded, To, Memory
    <3>3. CASE Synthesize(m) BY <1>1, <3>3 DEF Synthesize, Memory
    <3>. QED BY <1>5, <3>1, <3>2, <3>3
  <2>. QED BY <1>2, <2>1, <2>2, <2>3, OnAlone
<1>. QED BY <1>3, <1>4, <1>5
\* A process that writes the row, or the job.
LEMMA RowAlone ==
  ASSUME LInv, NEW m \in Managers, Alone(m), RowStep(m), LInv'
  PROVE  Alone(m)'
<1>. USE DEF RowStep
<1>1. /\ my \in [Managers -> Memory] /\ my[m] \in Memory /\ MindOK(m) /\ run \in Maybe(RunRow)
  BY DEF LInv, Typed
<1>2. UNCHANGED <<turns, attempts>>
  BY DEF Start, EnsureRun, LoopStops, EnterImplementing, Replan, EnterExploring, DecideRevise, Accept, Halt,
         EnterReviewing, work, files
<1>3. CASE Start(m)
  <2>1. UNCHANGED <<run, briefs, job>> /\ my[m].pc = "idle" BY <1>3 DEF Start, At, files
  <2>2. my'[m].pc = IF run = None THEN "opening" ELSE "loop" BY <1>1, <1>3 DEF Start, Rest, Memory
  <2>3. CASE run = None
    <3>1. Offers(m)' BY <2>1, <2>3 DEF Alone, Offers
    <3>2. Current(m)' /\ Passes(m)' BY <2>2, <2>3 DEF Current, Passes, Inside, Asking
    <3>3. Files(m)' BY <2>1, <2>3 DEF Alone, Files
    <3>. QED BY <3>1, <3>2, <3>3 DEF Alone
  <2>. QED BY <1>2, <2>1, <2>2, <2>3, BackAlone
<1>4. CASE EnsureRun(m)
  <2>1. my[m].pc = "opening" /\ my'[m].pc = "loop" /\ UNCHANGED <<briefs, job>>
    BY <1>4, Leaves DEF LInv, EnsureRun, At, files
  <2>2. job # "READY_FOR_INTEGRATION" BY <2>1 DEF Alone, Offers
  <2>3. CASE run = None
    <3>1. run' = FreshRun BY <1>4, <2>3 DEF EnsureRun
    <3>2. run' # None /\ run'.status # "IMPLEMENTING" BY <3>1, FreshFits DEF FreshRun
    <3>. QED BY <2>1, <2>2, <2>3, <3>2, MovedAlone
  <2>4. CASE run # None
    <3>1. run' = run BY <1>4, <2>4 DEF EnsureRun
    <3>. QED BY <1>2, <2>1, <3>1, BackAlone
  <2>. QED BY <2>3, <2>4
<1>5. CASE LoopStops(m)
  <2>1. my'[m].pc = "idle" /\ UNCHANGED <<briefs, job>> /\ my[m].pc = "loop"
    BY <1>5, Leaves DEF LInv, LoopStops, At, files
  <2>2. CASE run' = run BY <1>2, <2>1, <2>2, BackAlone
  <2>3. CASE job = "CANCELLED" /\ run' = [run EXCEPT !.status = "CANCELLED"]
    <3>1. run \in RunRow BY <1>1, <2>1 DEF MindOK, Maybe
    <3>2. run' \in RunRow /\ run'.status = "CANCELLED" /\ run'.rround = run.rround
      BY <2>3, <3>1, StatusFits DEF RunStatus, Stopped, RunRow
    <3>3. Slot(run') = Slot(run) /\ run' # None BY <3>2, FreshFits DEF Slot
    <3>. QED BY <2>1, <2>3, <3>2, <3>3, MovedAlone
  <2>. QED BY <1>5, <2>2, <2>3 DEF LoopStops, Moved
<1>6. CASE EnterImplementing(m)
  <2>1. /\ my[m].pc = "briefed" /\ my'[m].pc = "loop" /\ UNCHANGED <<briefs, job>>
    BY <1>6, Leaves DEF LInv, EnterImplementing, At, files
  <2>2. run \in RunRow /\ job # "READY_FOR_INTEGRATION"
    BY <1>1, <2>1 DEF MindOK, Maybe, Alone, Offers
  <2>3. run'.rround = run.rround BY <1>6, <2>2 DEF EnterImplementing, Moved, RunRow
  <2>4. Slot(run') = Slot(run) BY <2>3 DEF Slot
  <2>5. ToldLast(briefs[Slot(run)]) BY <2>1 DEF Alone, Passes
  <2>6. ToldLast(briefs[Slot(run)])' BY <1>2, <2>1, <2>4, <2>5, SameTold
  <2>7. run # None /\ run' # None BY <2>2, FreshFits, RowSteps
  <2>8. Files(m)' BY <2>1, <2>4, <2>6, <2>7 DEF Alone, Files
  <2>9. Offers(m)' BY <2>1, <2>2 DEF Offers
  <2>10. Current(m)' /\ Passes(m)' BY <2>1 DEF Current, Passes, Inside, Asking
  <2>. QED BY <2>8, <2>9, <2>10 DEF Alone
<1>7. CASE Replan(m) \/ EnterExploring(m) \/ EnterReviewing(m) \/ Halt(m) \/ Accept(m)
  <2>1. my[m].pc \in {"decided", "planned", "working", "halting"}
    BY <1>7 DEF Replan, EnterExploring, EnterReviewing, Halt, Accept, Said, At
  <2>2. run \in RunRow /\ job # "READY_FOR_INTEGRATION"
    BY <1>1, <2>1 DEF MindOK, Maybe, Alone, Offers
  <2>3. my'[m].pc \in {"loop", "idle"}
    BY <1>7, Leaves DEF LInv, Replan, EnterExploring, EnterReviewing, Halt, Accept
  <2>4. briefs' = briefs BY <1>7 DEF Replan, EnterExploring, EnterReviewing, Halt, Accept, files
  <2>5. run'.rround = run.rround
    BY <1>7, <2>2 DEF Replan, EnterExploring, EnterReviewing, Halt, Accept, Moved, RunRow
  <2>6. run'.status # "IMPLEMENTING"
    BY <1>7, <2>2 DEF Replan, ReplanStatus, EnterExploring, EnterReviewing, Halt, Accept, Moved, RunRow
  <2>7. job' = "READY_FOR_INTEGRATION" => run'.status = "ACCEPTED"
    BY <1>7, <2>2 DEF Replan, EnterExploring, EnterReviewing, Halt, Accept, Moved, RunRow
  <2>8. Slot(run') = Slot(run) /\ run' # None BY <2>2, <2>5, FreshFits, RowSteps DEF Slot
  <2>. QED BY <2>3, <2>4, <2>6, <2>7, <2>8, MovedAlone
<1>8. CASE DecideRevise(m)
  <2>1. /\ my[m].pc = "decided" /\ my[m].said.action = "REVISE" /\ UNCHANGED <<briefs, job>>
    BY <1>8 DEF DecideRevise, Said, At, files
  <2>2. /\ run \in RunRow /\ job # "READY_FOR_INTEGRATION" /\ my[m].run = run /\ ToldLast(my[m].said.brief)
        /\ Revises
    BY <1>1, <2>1 DEF MindOK, Maybe, Alone, Offers, Current, Passes, Inside, Asking
  <2>3. CASE ~Revisable(m)
    <3>1. run' = run /\ my'[m].pc = "halting" BY <1>1, <1>8, <2>3 DEF DecideRevise, To, Memory
    <3>. QED BY <1>2, <2>1, <2>2, <3>1, OnAlone
  <2>4. CASE Revisable(m)
    <3>1. /\ run' = [run EXCEPT !.rround = run.rround + 1, !.status = "IMPLEMENTING"]
          /\ my' = [my EXCEPT ![m].pc = "revised"]
      BY <1>8, <2>2, <2>4 DEF DecideRevise, Moved, To
    <3>2. my'[m].pc = "revised" /\ my'[m].said = my[m].said BY <1>1, <3>1 DEF Memory
    <3>3. run'.status = "IMPLEMENTING" /\ run'.rround = run.rround + 1 BY <2>2, <3>1 DEF RunRow
    <3>4. run.rround \in Nat /\ run.rround + 1 <= RevisionCap BY <2>2, <2>4, Caps DEF Revisable, RunRow
    <3>5. Slot(run') = Slot(run) + 1 /\ Slot(run') \in Slots /\ Slot(run) \in Nat
      BY <3>3, <3>4, Caps DEF Slot
    <3>6. briefs[Slot(run')] = None BY <3>5 DEF Alone, Files
    <3>7. ToldLast(my[m].said.brief)' BY <1>2, <2>2, <3>2, SameTold
    <3>8. Passes(m)' BY <1>2, <2>1, <2>2, <3>2, <3>3, <3>6, <3>7, SameRevision DEF Passes
    <3>9. Offers(m)' /\ Current(m)' BY <2>1, <2>2, <3>2 DEF Offers, Current, Inside, Asking
    <3>10. run' # None BY <2>2, FreshFits, RowSteps
    <3>11. \A s \in Slots : briefs'[s] # None => s <= Slot(run')
      <4>1. \A s \in Slots : briefs[s] # None => s <= Slot(run) BY DEF Alone, Files
      <4>. QED BY <2>1, <3>5, <4>1, Caps
    <3>12. Files(m)' BY <3>2, <3>10, <3>11 DEF Files
    <3>. QED BY <3>8, <3>9, <3>12 DEF Alone
  <2>. QED BY <2>3, <2>4
<1>. QED BY <1>3, <1>4, <1>5, <1>6, <1>7, <1>8

\* A process that writes a turn.
LEMMA TurnAlone ==
  ASSUME LInv, NEW m \in Managers, Alone(m), TurnStep(m), LInv'
  PROVE  Alone(m)'
<1>. USE DEF TurnStep
<1>1. /\ my \in [Managers -> Memory] /\ my[m] \in Memory /\ MindOK(m) /\ run \in Maybe(RunRow)
      /\ turns \in Seq(Turn) /\ turns' \in Seq(Turn) /\ Typed
  BY DEF LInv, Typed
<1>2. briefs' = briefs BY DEF Intend, Call, Answers, AnswersBadly, StaleThread, ReconcileTurn, files
<1>3. CASE ReconcileTurn(m)
  <2>1. my[m].pc = "settling" /\ run' = [run EXCEPT !.status = "AWAITING_HUMAN"] /\ job' = "NEEDS_ATTENTION"
    BY <1>3 DEF ReconcileTurn, Moved, At
  <2>2. run \in RunRow BY <1>1, <2>1 DEF MindOK, Maybe
  <2>3. run' \in RunRow /\ run'.status = "AWAITING_HUMAN" /\ run'.rround = run.rround
    BY <2>1, <2>2, StatusFits DEF RunStatus, Stopped, RunRow
  <2>4. Slot(run') = Slot(run) /\ run' # None BY <2>3, FreshFits DEF Slot
  <2>5. my'[m].pc \in {"idle", "settling"}
    <3>1. CASE Return(m) BY <1>1, <3>1, Leaves
    <3>2. CASE \E n \in my[m].stranded : my' = [my EXCEPT ![m].stranded = @ \ {n}]
      BY <1>1, <2>1, <3>2 DEF Memory
    <3>. QED BY <1>3, <3>1, <3>2 DEF ReconcileTurn
  <2>. QED BY <1>2, <2>1, <2>3, <2>4, <2>5, MovedAlone
<1>4. CASE ~ReconcileTurn(m)
  <2>1. my[m].pc \in {"intend", "called", "asked"} /\ UNCHANGED <<run, job>>
    BY <1>4 DEF Intend, Call, Answers, AnswersBadly, StaleThread, At
  <2>2. /\ job # "READY_FOR_INTEGRATION" /\ my[m].run = run
        /\ run # None => run.status # "IMPLEMENTING"
    BY <2>1 DEF Alone, Offers, Current, Files, Inside, Asking
  <2>3. Offers(m)' BY <2>1, <2>2 DEF Offers
  <2>4. Files(m)' BY <1>2, <2>1, <2>2 DEF Alone, Files
  <2>5. CASE Intend(m)
    <3>1. CASE Return(m)
      <4>1. my'[m].pc = "idle" BY <1>1, <3>1, Leaves
      <4>2. Current(m)' /\ Passes(m)' BY <4>1 DEF Current, Passes, Inside, Asking
      <4>. QED BY <2>3, <2>4, <4>2 DEF Alone
    <3>2. CASE my[m].ordinal \notin DOMAIN turns
      <4>1. turns' = Append(turns, NewTurn(m)) /\ my' = [my EXCEPT ![m].pc = "called"] /\ my[m].pc = "intend"
        BY <2>5, <3>2 DEF Intend, To, At
      <4>2. my'[m].pc = "called" /\ my'[m].ordinal = my[m].ordinal /\ my'[m].run = my[m].run
        BY <1>1, <4>1 DEF Memory
      <4>3. my[m].ordinal = Len(turns) + 1 BY <1>1, <3>2, <4>1 DEF MindOK
      <4>4. Len(turns') = Len(turns) + 1 BY <1>1, <4>1
      <4>5. Current(m)' BY <2>1, <2>2, <4>2, <4>3, <4>4 DEF Current
      <4>6. Passes(m)' BY <4>2 DEF Passes
      <4>. QED BY <2>3, <2>4, <4>5, <4>6 DEF Alone
    <3>. QED BY <2>5, <3>1, <3>2 DEF Intend
  <2>6. CASE Call(m)
    <3>1. my' = [my EXCEPT ![m].pc = "asked"] /\ turns' = [turns EXCEPT ![my[m].ordinal].billed = TRUE]
          /\ my[m].pc = "called"
      BY <2>6 DEF Call, To, At
    <3>2. my'[m].pc = "asked" /\ my'[m].ordinal = my[m].ordinal /\ my'[m].run = my[m].run
      BY <1>1, <3>1 DEF Memory
    <3>3. Len(turns') = Len(turns) BY <1>1, <3>1
    <3>4. my[m].ordinal = Len(turns) BY <3>1 DEF Alone, Current
    <3>5. Current(m)' BY <2>1, <2>2, <3>2, <3>3, <3>4 DEF Current
    <3>6. Passes(m)' BY <3>2 DEF Passes
    <3>. QED BY <2>3, <2>4, <3>5, <3>6 DEF Alone
  <2>7. CASE Answers(m)
    <3>1. PICK d \in Decisions :
            FinishTurn(m, "COMPLETED", d, TRUE) /\ my' = [my EXCEPT ![m].pc = "decided", ![m].said = d]
      BY <2>7 DEF Answers
    <3>2. my'[m].pc = "decided" /\ my'[m].ordinal = my[m].ordinal /\ my'[m].run = my[m].run /\ my'[m].said = d
      BY <1>1, <3>1 DEF Memory
    <3>3. PICK o : o = my[m].ordinal OBVIOUS
    <3>4. /\ my[m].pc = "asked" /\ o = Len(turns) /\ o \in DOMAIN turns
      BY <1>1, <2>7, <3>3 DEF Alone, Current, Answers, At, MindOK, Own
    <3>5. turns' = [turns EXCEPT ![o].state = "COMPLETED", ![o].said = d, ![o].billed = TRUE]
      BY <3>1, <3>3 DEF FinishTurn
    <3>6. turns[o] \in Turn BY <1>1, <3>4
    <3>7. Len(turns') = Len(turns) /\ DOMAIN turns' = DOMAIN turns BY <1>1, <3>5
    <3>8. turns'[o].state = "COMPLETED" /\ turns'[o].said = d BY <1>1, <3>4, <3>5, <3>6 DEF Turn
    <3>9. Current(m)' BY <2>1, <2>2, <3>2, <3>3, <3>4, <3>7 DEF Current
    <3>10. ASSUME d.action \in {"IMPLEMENT", "REVISE"}
           PROVE  ToldLast(d.brief)' /\ (d.action = "REVISE" => Revises')
      <4>1. Told(o)' BY <3>8, <3>10, DecisionShape DEF Told
      <4>2. o \in DOMAIN turns' /\ \A k \in DOMAIN turns' : ~(k > o) BY <1>1, <3>4, <3>7
      <4>3. LastTold(o)' BY <4>1, <4>2 DEF LastTold
      <4>. QED BY <3>8, <4>2, <4>3 DEF ToldLast, Revises
    <3>11. Passes(m)' BY <3>2, <3>10 DEF Passes
    <3>. QED BY <2>3, <2>4, <3>9, <3>11 DEF Alone
  <2>8. CASE AnswersBadly(m) \/ StaleThread(m)
    <3>1. my'[m].pc = "halting" \/ (my'[m].pc = "turn" /\ my'[m].run = my[m].run)
      <4>1. CASE AnswersBadly(m) BY <1>1, <4>1 DEF AnswersBadly, To, Memory
      <4>2. CASE StaleThread(m) BY <1>1, <4>2 DEF StaleThread, Memory
      <4>. QED BY <2>8, <4>1, <4>2
    <3>2. Current(m)' /\ Passes(m)' BY <2>1, <2>2, <3>1 DEF Current, Passes, Inside, Asking
    <3>. QED BY <2>3, <2>4, <3>2 DEF Alone
  <2>. QED BY <1>4, <2>5, <2>6, <2>7, <2>8
<1>. QED BY <1>3, <1>4
\* A process that writes a file.
LEMMA FileAlone ==
  ASSUME LInv, NEW m \in Managers, Alone(m), FileStep(m)
  PROVE  Alone(m)'
<1>. USE DEF FileStep
<1>1. /\ my \in [Managers -> Memory] /\ my[m] \in Memory /\ MindOK(m) /\ run \in Maybe(RunRow)
      /\ briefs \in [Slots -> Maybe(Briefs)]
  BY DEF LInv, Typed
<1>2. UNCHANGED <<turns, run, job>> BY DEF DecideImplement, DecideExplore, StoreRevisedBrief
<1>3. my[m].pc \in {"decided", "revised"} BY DEF DecideImplement, DecideExplore, StoreRevisedBrief, Said, At
<1>4. run \in RunRow /\ job # "READY_FOR_INTEGRATION"
  BY <1>1, <1>3 DEF MindOK, Maybe, Alone, Offers
<1>5. Slot(run) \in Slots /\ Slot(run) \in Nat /\ run # None BY <1>4, SlotOf, FreshFits
<1>6. CASE DecideImplement(m)
  <2>1. my[m].pc = "decided" /\ my[m].said.action = "IMPLEMENT" BY <1>6 DEF DecideImplement, Said, At
  <2>2. my[m].run = run /\ ToldLast(my[m].said.brief) /\ run.status # "IMPLEMENTING"
    BY <1>5, <2>1 DEF Alone, Current, Passes, Files, Inside, Asking
  <2>3. /\ briefs' = [briefs EXCEPT ![Slot(run)] = my[m].said.brief]
        /\ my'[m].pc = "briefed" /\ my'[m].said = my[m].said /\ my'[m].run = my[m].run
    BY <1>1, <1>6, <2>2 DEF DecideImplement, To, Memory
  <2>4. Passes(m)' BY <1>1, <1>2, <1>5, <2>2, <2>3, SameTold DEF Passes
  <2>5. Current(m)' BY <1>2, <2>2, <2>3 DEF Current
  <2>6. \A s \in Slots : briefs'[s] # None => s <= Slot(run) BY <1>1, <1>5, <2>3 DEF Alone, Files
  <2>7. Files(m)' BY <1>2, <1>5, <2>2, <2>6 DEF Files
  <2>8. Offers(m)' BY <1>2, <1>4 DEF Offers
  <2>. QED BY <2>4, <2>5, <2>7, <2>8 DEF Alone
<1>7. CASE DecideExplore(m)
  <2>1. my[m].pc = "decided" /\ briefs' = briefs BY <1>7 DEF DecideExplore, Said, At
  <2>2. my[m].run = run /\ run.status # "IMPLEMENTING"
    BY <1>5, <2>1 DEF Alone, Current, Files, Inside, Asking
  <2>3. RoundFrom(m) = run BY <2>2 DEF RoundFrom
  <2>4. my'[m].pc = "halting" \/ (my'[m].pc = "planned" /\ my'[m].run = run)
    BY <1>1, <1>7, <2>3 DEF DecideExplore, To, Enter, Memory
  <2>. QED BY <1>2, <1>4, <2>1, <2>2, <2>4, OnAlone
<1>8. CASE StoreRevisedBrief(m)
  <2>1. /\ my[m].pc = "revised" /\ my'[m].pc = "loop"
        /\ briefs' = [briefs EXCEPT ![Slot(run)] = my[m].said.brief]
    BY <1>1, <1>8, Leaves DEF LInv, StoreRevisedBrief, At
  <2>2. PICK b : b = my[m].said.brief /\ ToldLast(b) BY <2>1 DEF Alone, Passes
  <2>3. briefs'[Slot(run)] = b BY <1>1, <1>5, <2>1, <2>2
  <2>4. \A s \in Slots : briefs'[s] # None => s <= Slot(run) BY <1>1, <1>5, <2>1 DEF Alone, Files
  <2>5. ToldLast(briefs[Slot(run)])'
    BY <1>2, <2>2, <2>3, SameTold DEF Slot
  <2>6. Files(m)' BY <1>2, <1>5, <2>1, <2>4, <2>5 DEF Files, Slot
  <2>7. Offers(m)' BY <1>2, <1>4 DEF Offers
  <2>8. Current(m)' /\ Passes(m)' BY <2>1 DEF Current, Passes, Inside, Asking
  <2>. QED BY <2>6, <2>7, <2>8 DEF Alone
<1>. QED BY <1>6, <1>7, <1>8

\* A process that works with the dispatcher.
LEMMA WorkAlone ==
  ASSUME LInv, NEW m \in Managers, Alone(m), WorkStep(m)
  PROVE  Alone(m)'
<1>. USE DEF WorkStep
<1>1. /\ my \in [Managers -> Memory] /\ my[m] \in Memory /\ MindOK(m) /\ run \in Maybe(RunRow)
      /\ briefs \in [Slots -> Maybe(Briefs)] /\ Typed
  BY DEF LInv, Typed
<1>2. UNCHANGED <<turns, run, briefs>>
  BY DEF Implement, Release, LaunchRound, ClaimAttempt, WorkerPasses, WorkerFails, ReconcileReads, CreateChild, ChildEnds, files
<1>3. CASE WorkerPasses(m) \/ WorkerFails(m) \/ \E q \in Questions : CreateChild(m, q) \/ ChildEnds(m, q)
  <2>1. my' = my /\ (job' = job \/ job' # "READY_FOR_INTEGRATION")
    BY <1>3 DEF WorkerPasses, WorkerFails, AfterFailure, CreateChild, ChildEnds
  <2>. QED BY <1>2, <2>1, KeptAlone
<1>4. CASE ReconcileReads(m)
  <2>1. my'[m].pc = "settling" /\ job' = job BY <1>1, <1>4 DEF ReconcileReads, Memory
  <2>. QED BY <1>2, <2>1, BackAlone
<1>5. CASE LaunchRound(m)
  <2>1. my[m].pc = "children" /\ job' = job BY <1>5 DEF LaunchRound, At
  <2>2. /\ job # "READY_FOR_INTEGRATION" /\ my[m].run = run
        /\ run # None => run.status # "IMPLEMENTING"
    BY <2>1 DEF Alone, Offers, Current, Files, Inside, Asking
  <2>3. my'[m].pc = "exploring" /\ my'[m].run = my[m].run
    <3>1. PICK S : my' = [my EXCEPT ![m].pc = "exploring", ![m].launched = S] BY <1>5 DEF LaunchRound
    <3>. QED BY <1>1, <3>1 DEF Memory
  <2>. QED BY <1>2, <2>1, <2>2, <2>3, OnAlone
<1>6. CASE Implement(m)
  <2>1. my[m].pc = "loop" /\ run.status = "IMPLEMENTING" /\ job # "READY_FOR_INTEGRATION"
    BY <1>6 DEF Implement, Going, At, Alone, Offers
  <2>2. run # None BY <1>1, <2>1 DEF MindOK
  <2>3. PICK b : b = briefs[Slot(run)] OBVIOUS
  <2>4. CASE b = None \/ Reroll(b)
    <3>1. my'[m].pc = "halting" /\ job' = job BY <1>1, <1>6, <2>3, <2>4 DEF Implement, Enter, Memory
    <3>. QED BY <1>2, <2>1, <3>1, OnAlone
  <2>5. CASE ~(b = None \/ Reroll(b))
    <3>1. my' = [my EXCEPT ![m].pc = "instructed", ![m].run = run, ![m].told = Instruction(b)] /\ job' = job
      BY <1>6, <2>3, <2>5 DEF Implement
    <3>2. my'[m].pc = "instructed" /\ my'[m].run = run /\ my'[m].told = Instruction(b) BY <1>1, <3>1 DEF Memory
    <3>3. my'[m].told.brief = b BY <3>2 DEF Instruction
    <3>4. ToldLast(b) BY <2>1, <2>2, <2>3, <2>5 DEF Alone, Files
    <3>5. ToldLast(my[m].told.brief)' BY <1>2, <3>3, <3>4, SameTold
    <3>6. Passes(m)' BY <3>2, <3>5 DEF Passes
    <3>7. Current(m)' BY <1>2, <3>2 DEF Current
    <3>8. ToldLast(briefs[Slot(run)])' BY <1>2, <2>3, <3>4 DEF ToldLast, LastTold, Told, Slot
    <3>9. Files(m)' BY <1>2, <3>2, <3>8 DEF Alone, Files, Slot
    <3>10. Offers(m)' BY <2>1, <3>1 DEF Offers
    <3>. QED BY <3>6, <3>7, <3>9, <3>10 DEF Alone
  <2>. QED BY <2>4, <2>5
<1>7. CASE ClaimAttempt(m)
  <2>1. /\ my[m].pc = "claim" /\ job' = "RUNNING"
        /\ my' = [my EXCEPT ![m].pc = "working", ![m].worker = Len(attempts) + 1]
    BY <1>7 DEF ClaimAttempt, At
  <2>2. my'[m].pc = "working" /\ my'[m].run = my[m].run BY <1>1, <2>1 DEF Memory
  <2>3. my[m].run = run BY <2>1 DEF Alone, Current, Inside
  <2>4. Current(m)' /\ Passes(m)' BY <1>2, <2>2, <2>3 DEF Current, Passes
  <2>5. \A b : ToldLast(b) => ToldLast(b)' BY <1>2, SameTold
  <2>6. Files(m)' BY <1>2, <2>1, <2>2, <2>5, SameRevision DEF Alone, Files, Slot
  <2>7. Offers(m)' BY <2>1 DEF Offers
  <2>. QED BY <2>4, <2>6, <2>7 DEF Alone
<1>8. CASE Release(m)
  <2>1. my[m].pc = "instructed" /\ job' = "PENDING" /\ my' = [my EXCEPT ![m].pc = "claim"]
    BY <1>8 DEF Release, At, To
  <2>2. my'[m].pc = "claim" /\ my'[m].run = my[m].run /\ my'[m].told = my[m].told BY <1>1, <2>1 DEF Memory
  <2>3. my[m].run = run /\ ToldLast(my[m].told.brief) BY <2>1 DEF Alone, Current, Passes, Inside
  <2>4. Current(m)' /\ Passes(m)' BY <1>2, <2>2, <2>3, SameTold DEF Current, Passes
  <2>5. \A b : ToldLast(b) => ToldLast(b)' BY <1>2, SameTold
  <2>6. Files(m)' BY <1>2, <2>1, <2>2, <2>5, SameRevision DEF Alone, Files, Slot
  <2>7. Offers(m)' BY <2>1 DEF Offers
  <2>. QED BY <2>4, <2>6, <2>7 DEF Alone
<1>. QED BY <1>3, <1>4, <1>5, <1>6, <1>7, <1>8

\* Everybody else: nobody offers a job for integration but the manager.
LEMMA WorldAlone ==
  ASSUME LInv, NEW m \in Managers, Alone(m), WorldStep \/ UNCHANGED vars
  PROVE  Alone(m)'
<1>1. UNCHANGED <<turns, run, briefs, my>> BY DEF WorldStep, CancelJob, BranchMoves, WorkerLost, vars, files
<1>2. job' = job \/ job' # "READY_FOR_INTEGRATION"
  BY DEF WorldStep, CancelJob, BranchMoves, WorkerLost, AfterFailure, vars
<1>. QED BY <1>1, <1>2, KeptAlone

\* What holds of the only process stays.
LEMMA AloneStays ==
  ASSUME NEW m, Managers = {m}, LInv, LInv', Alone(m), [Next]_vars
  PROVE  Alone(m)'
<1>1. m \in Managers OBVIOUS
<1>2. PICK k \in {m} : \/ MindStep(k) \/ RowStep(k) \/ TurnStep(k) \/ FileStep(k) \/ WorkStep(k)
                       \/ WorldStep \/ UNCHANGED vars
  BY EveryStep
<1>3. k = m BY <1>2
<1>. QED BY <1>1, <1>2, <1>3, MindAlone, RowAlone, TurnAlone, FileAlone, WorkAlone, WorldAlone

\* It holds at the start.
LEMMA AloneInit ==
  ASSUME NEW m \in Managers, Init
  PROVE  Alone(m)
<1>1. my[m].pc = "idle" /\ job = "PENDING" /\ run = None /\ \A s \in Slots : briefs[s] = None
  BY DEF Init, Rest
<1>. QED BY <1>1 DEF Alone, Offers, Current, Passes, Files, Inside, Asking

\* One "manage" process at a time, killed and started again as often as one likes, with an operator who cancels and
\* somebody who reconciles.
THEOREM AloneInvariant ==
  ASSUME NEW m, Managers = {m}
  PROVE  Spec => []Alone(m)
<1>1. Init => Alone(m) BY AloneInit
<1>2. LInv /\ LInv' /\ Alone(m) /\ [Next]_vars => Alone(m)' BY AloneStays
<1>. QED BY <1>1, <1>2, LoopInvariant, PTL DEF Spec

\* advance, with any number of processes at once: every row, file and process is in a state the code has a name for,
\* and a round that was opened has its questions.
THEOREM LoopTyped == Spec => [](TypeOK /\ RoundHasPlan)
<1>1. LInv => RoundHasPlan BY DEF LInv, RowOK, RoundHasPlan
<1>2. ASSUME LInv PROVE TypeOK
  <2>1. Typed /\ RowOK BY <1>2 DEF LInv
  <2>2. run = None \/ (run \in RunRow /\ {run.candidate, run.accepted} \subseteq DOMAIN attempts \cup {None})
    BY <2>1 DEF Typed, Maybe, RowOK, Names
  <2>3. ASSUME NEW n \in DOMAIN turns
        PROVE  /\ turns[n].state \in {"INTENDED", "COMPLETED", "FAILED", "UNCERTAIN"}
               /\ turns[n].said \in Decisions \cup {None}
               /\ turns[n].phase = "REVIEW" => turns[n].subject \in DOMAIN attempts
    <3>1. turns[n] \in Turn BY <2>1 DEF Typed
    <3>. QED BY <2>1, <3>1 DEF Turn, Maybe, RowOK
  <2>4. /\ plans \in [1..MaxRounds -> (SUBSET Questions) \cup {None}] /\ briefs \in [Slots -> Briefs \cup {None}]
        /\ children \in [Questions -> ChildStatus] /\ job \in JobStatus /\ intact \in BOOLEAN
    BY <2>1 DEF Typed, Maybe
  <2>. QED BY <2>2, <2>3, <2>4 DEF TypeOK
<1>. QED BY <1>1, <1>2, LoopInvariant, PTL

\* advance, with one process at a time: whatever row a process that died wrote last, the next one finds what that row
\* asks for: a round its questions, a review its candidate, an implementation the brief that was decided last, unless
\* the process died between the row of a revision and its file; and an offer that was earned.
THEOREM Resumed ==
  ASSUME NEW m, Managers = {m}
  PROVE  Spec => []Resumable
<1>1. Alone(m) /\ Earned => OfferedWasReviewed BY DEF Alone, Offers, Earned, OfferedWasReviewed
<1>2. LInv /\ Alone(m) => WorkIsThere
  <2>1. SUFFICES ASSUME LInv, Alone(m), run # None, run.status = "IMPLEMENTING"
                 PROVE  \E n \in DOMAIN turns :
                           /\ LastTold(n)
                           /\ \/ briefs[Slot(run)] = turns[n].said.brief
                              \/ briefs[Slot(run)] = None /\ turns[n].said.action = "REVISE"
    BY DEF WorkIsThere, LInv, RowOK
  <2>2. (briefs[Slot(run)] = None /\ Revises) \/ ToldLast(briefs[Slot(run)])
    BY <2>1 DEF Alone, Passes, Files
  <2>. QED BY <2>2 DEF Revises, ToldLast
<1>. QED BY <1>1, <1>2, AloneInvariant, LoopInvariant, AcceptedWasEarned, LoopTyped, PTL DEF Resumable

\* Only a claim makes an attempt.
LEMMA ClaimedTold ==
  ASSUME NEW m, Managers = {m}, LInv, Alone(m), [Next]_vars, NEW a \in DOMAIN attempts' \ DOMAIN attempts
  PROVE  ToldLast(attempts'[a].brief)
<1>1. Typed /\ m \in Managers /\ attempts \in Seq(Attempt) BY DEF LInv, Typed
<1>2. PICK k \in {m} : \/ MindStep(k) \/ RowStep(k) \/ TurnStep(k) \/ FileStep(k) \/ WorkStep(k)
                       \/ WorldStep \/ UNCHANGED vars
  BY EveryStep
<1>3. k = m BY <1>2
<1>4. CASE ClaimAttempt(m)
  <2>1. attempts' = Append(attempts, NewAttempt(my[m].told)) /\ my[m].pc = "claim"
    BY <1>4 DEF ClaimAttempt, At
  <2>2. a = Len(attempts) + 1 /\ attempts'[a] = NewAttempt(my[m].told) BY <1>1, <2>1
  <2>3. attempts'[a].brief = my[m].told.brief BY <2>2 DEF NewAttempt
  <2>. QED BY <2>1, <2>3 DEF Alone, Passes
<1>5. CASE MindStep(m) \/ RowStep(m) \/ TurnStep(m) \/ FileStep(m) \/ UNCHANGED vars
  <2>1. attempts' = attempts
    <3>1. CASE MindStep(m)
      BY <3>1 DEF MindStep, LoopThinks, LoopReviews, Ask, AnswerRefused, Escalates, RefuseAccept, Explore,
         RoundUnfunded, Synthesize, ClaimThrows, Crash, work
    <3>2. CASE RowStep(m)
      BY <3>2 DEF RowStep, Start, EnsureRun, LoopStops, EnterImplementing, Replan, EnterExploring, DecideRevise,
         Accept, Halt, EnterReviewing, work
    <3>3. CASE TurnStep(m)
      BY <3>3 DEF TurnStep, Intend, Call, Answers, AnswersBadly, StaleThread, ReconcileTurn, work
    <3>4. CASE FileStep(m) BY <3>4 DEF FileStep, DecideImplement, DecideExplore, StoreRevisedBrief, work
    <3>5. CASE UNCHANGED vars BY <3>5 DEF vars, work
    <3>. QED BY <1>5, <3>1, <3>2, <3>3, <3>4, <3>5
  <2>. QED BY <2>1
<1>6. CASE WorkStep(m) /\ ~ClaimAttempt(m)
  <2>1. CASE WorkerPasses(m) \/ WorkerFails(m)
    BY <2>1 DEF WorkerPasses, WorkerFails, Ended
  <2>2. CASE ~(WorkerPasses(m) \/ WorkerFails(m))
    <3>1. attempts' = attempts
      BY <1>6, <2>2 DEF WorkStep, Implement, Release, LaunchRound, CreateChild, ChildEnds, ReconcileReads, work
    <3>. QED BY <3>1
  <2>. QED BY <2>1, <2>2
<1>7. CASE WorldStep BY <1>7 DEF WorldStep, CancelJob, BranchMoves, WorkerLost, Ended, work
<1>. QED BY <1>2, <1>3, <1>4, <1>5, <1>6, <1>7

\* implement, with one process at a time: a worker is told what the manager decided last, also after a crash between
\* the decision, the file it is written to and the row that points at it.
THEOREM ToldTheDecision ==
  ASSUME NEW m, Managers = {m}
  PROVE  Spec => WorkerIsToldTheDecision
<1>1. LInv /\ Alone(m) /\ [Next]_vars =>
        [\A a \in DOMAIN attempts' \ DOMAIN attempts :
           \E n \in DOMAIN turns : LastTold(n) /\ attempts'[a].brief = turns[n].said.brief]_vars
  BY ClaimedTold DEF ToldLast
<1>. QED BY <1>1, AloneInvariant, LoopInvariant, PTL DEF Spec, WorkerIsToldTheDecision
=============================================================================
