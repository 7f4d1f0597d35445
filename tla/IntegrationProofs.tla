-------------------------- MODULE IntegrationProofs --------------------------
(***************************************************************************)
(* Proofs about Integration for every set of jobs, projects, principals    *)
(* and concurrent requests, and any number of approvals, crashes and       *)
(* outside moves of the branches: first of its ledger of approvals and     *)
(* operations, then of the ledger against git, and last of what is seen of *)
(* both from outside (BranchAuthority, BranchBriefing).                    *)
(***************************************************************************)
EXTENDS BranchBriefing, SequenceTheorems, FiniteSetTheorems, TLAPS

LedgerTyped ==
  /\ receipts \in Seq(Receipt) /\ Len(receipts) <= MaxReceipts
  /\ operations \in Seq(Operation)

\* An operation names an approval that exists.
ApprovalsExist == \A o \in Ops : operations[o].receipt \in DOMAIN receipts

LedgerInv == LedgerTyped /\ ApprovalsExist /\ SerialIntegration /\ ApprovalSpentOnce

\* The four ways in which a step may write approvals and operations.
Granted == /\ Len(receipts) < MaxReceipts /\ \E r \in Receipt : receipts' = Append(receipts, r)
           /\ UNCHANGED operations
Expired == /\ \E n \in DOMAIN receipts : receipts' = [receipts EXCEPT ![n].expired = TRUE]
           /\ UNCHANGED operations
Claimed == /\ \E j \in Jobs, n \in DOMAIN receipts :
                /\ MayStart(j) /\ Spendable(j, n)
                /\ operations' = Append(operations, [job |-> j, receipt |-> n, outcome |-> "none"])
           /\ UNCHANGED receipts
Judged  == /\ \E n, v : /\ v \in {"SUCCEEDED", "FAILED"}
                       /\ operations' = [operations EXCEPT ![n].outcome = v]
           /\ UNCHANGED receipts
-----------------------------------------------------------------------------
\* A terminal record changes the outcome of one operation, and nothing else of any.
LEMMA Resolving ==
  ASSUME LedgerTyped, Judged
  PROVE  /\ operations' \in Seq(Operation) /\ Ops' = Ops
         /\ \A o \in Ops : /\ operations'[o].job = operations[o].job
                           /\ operations'[o].receipt = operations[o].receipt
                           /\ operations'[o].outcome = "none" => operations[o].outcome = "none"
<1>0. PICK n, v : /\ v \in {"SUCCEEDED", "FAILED"}
                  /\ operations' = [operations EXCEPT ![n].outcome = v]
  BY DEF Judged
<1>1. Ops' = Ops BY <1>0 DEF Ops
<1>2. ASSUME NEW o \in Ops
      PROVE  /\ operations'[o] \in Operation
             /\ operations'[o].job = operations[o].job
             /\ operations'[o].receipt = operations[o].receipt
             /\ operations'[o].outcome = "none" => operations[o].outcome = "none"
  <2>1. operations[o] \in Operation BY DEF LedgerTyped, Ops
  <2>2. CASE o = n
    <3>1. operations'[o] = [operations[o] EXCEPT !.outcome = v] BY <1>0, <2>2 DEF Ops
    <3>2. v \in {"SUCCEEDED", "FAILED"} BY <1>0
    <3>3. v # "none" /\ v \in {"none", "SUCCEEDED", "FAILED"} BY <3>2
    <3>. QED BY <3>1, <3>3, <2>1 DEF Operation
  <2>3. CASE o # n
    <3>1. operations'[o] = operations[o] BY <1>0, <2>3 DEF Ops
    <3>. QED BY <3>1, <2>1
  <2>. QED BY <2>2, <2>3
<1>3. operations' \in Seq(Operation)
  <2>1. PICK k \in Nat : Ops = 1..k BY DEF LedgerTyped, Ops
  <2>2. operations' = [o \in 1..k |-> operations'[o]] BY <1>0, <2>1 DEF Ops
  <2>3. operations' \in [1..k -> Operation] BY <1>2, <2>1, <2>2
  <2>. QED BY <2>3, SeqDef
<1>. QED BY <1>1, <1>2, <1>3

\* Every step is one of the four, or writes neither approvals nor operations.
LEMMA LedgerStep ==
  ASSUME LedgerTyped, [Next]_vars
  PROVE  UNCHANGED <<receipts, operations>> \/ Granted \/ Expired \/ Claimed \/ Judged
<1>1. ASSUME NEW c \in Requests, Advance(c)
      PROVE  UNCHANGED <<receipts, operations>> \/ Judged
  <2>1. CASE RecordSuccess(c) BY <2>1 DEF RecordSuccess, Resolve, Judged
  <2>2. CASE RecordFailure(c) BY <2>2 DEF RecordFailure, Resolve, Judged
  <2>3. CASE ~RecordSuccess(c) /\ ~RecordFailure(c)
    BY <1>1, <2>3 DEF Advance, RecordProposal, Fail, ListWorktrees, CheckHead, PrepareCandidate,
       SendAdvance, InspectHead, SendRollback, RecordRollback, ReconcileRow, ReadHead,
       RepairReceipt, ledger
  <2>. QED BY <2>1, <2>2, <2>3
<1>2. ASSUME NEW c \in Requests, NEW j \in Jobs, Propose(c, j) \/ Claim(c, j) \/ Rollback(c, j)
      PROVE  UNCHANGED <<receipts, operations>> \/ Claimed
  <2>1. CASE Claim(c, j)
    BY <2>1 DEF Claim, Claimed
  <2>. QED BY <1>2, <2>1 DEF Propose, Rollback, ledger
<1>3. ASSUME NEW j \in Jobs, NEW h \in Principals, GrantApproval(j, h) PROVE Granted
  <2>1. [job |-> j, principal |-> h, expired |-> FALSE] \in Receipt BY DEF Receipt
  <2>. QED BY <1>3, <2>1 DEF GrantApproval, Granted
<1>4. ASSUME NEW n \in 1..MaxReceipts, Expire(n) PROVE Expired
  BY <1>4 DEF Expire, Expired
<1>5. ASSUME NEW c \in Requests, Reconcile(c) PROVE UNCHANGED <<receipts, operations>>
  BY <1>5 DEF Reconcile, ledger
<1>6. ASSUME NEW j \in Jobs, DeclineIntegration(j) PROVE UNCHANGED <<receipts, operations>>
  BY <1>6 DEF DeclineIntegration
<1>7. ASSUME NEW push \in pushes, PushEnds(push) PROVE UNCHANGED <<receipts, operations>>
  BY <1>7 DEF PushEnds, ledger
<1>8. ASSUME NEW p \in Projects, Outside(p) PROVE UNCHANGED <<receipts, operations>>
  BY <1>8 DEF Outside, ledger
<1>9. ASSUME Crash \/ Restart \/ AttemptLost \/ UNCHANGED vars
      PROVE  UNCHANGED <<receipts, operations>>
  BY <1>9 DEF Crash, Restart, AttemptLost, ledger, vars
<1>. QED BY <1>1, <1>2, <1>3, <1>4, <1>5, <1>6, <1>7, <1>8, <1>9 DEF Next
-----------------------------------------------------------------------------
\* The ledger is empty at the start.
LEMMA LedgerInit == Init => LedgerInv
BY EmptySeq, IntegrationAssumption DEF Init, LedgerInv, LedgerTyped, ApprovalsExist, SerialIntegration,
   ApprovalSpentOnce, Ops, Unresolved

\* A row stays what it is about, whatever is appended or expires after it.
LEMMA ReceiptsGrow ==
  ASSUME LedgerTyped, Granted \/ Expired
  PROVE  /\ receipts' \in Seq(Receipt) /\ Len(receipts') <= MaxReceipts
         /\ DOMAIN receipts \subseteq DOMAIN receipts'
         /\ \A n \in DOMAIN receipts : receipts'[n].job = receipts[n].job
<1>1. CASE Granted
  <2>1. PICK r \in Receipt : receipts' = Append(receipts, r) BY <1>1 DEF Granted
  <2>2. Len(receipts) < MaxReceipts BY <1>1 DEF Granted
  <2>. QED BY <2>1, <2>2, AppendProperties, LenProperties, IntegrationAssumption DEF LedgerTyped
<1>2. CASE Expired
  <2>1. PICK n \in DOMAIN receipts : receipts' = [receipts EXCEPT ![n].expired = TRUE]
    BY <1>2 DEF Expired
  <2>2. receipts[n] \in Receipt BY DEF LedgerTyped
  <2>3. DEFINE r == [receipts[n] EXCEPT !.expired = TRUE]
  <2>4. r \in Receipt /\ r.job = receipts[n].job BY <2>2 DEF Receipt
  <2>5. receipts' = [receipts EXCEPT ![n] = r] BY <2>1
  <2>. HIDE DEF r
  <2>. QED BY <2>4, <2>5, ExceptSeq, LenProperties DEF LedgerTyped
<1>. QED BY <1>1, <1>2

\* Every step keeps the ledger.
LEMMA LedgerPreserved == LedgerInv /\ [Next]_vars => LedgerInv'
<1>. SUFFICES ASSUME LedgerInv, [Next]_vars PROVE LedgerInv' OBVIOUS
<1>0. LedgerTyped BY DEF LedgerInv
<1>1. CASE UNCHANGED <<receipts, operations>>
  BY <1>1 DEF LedgerInv, LedgerTyped, ApprovalsExist, SerialIntegration, ApprovalSpentOnce,
     Ops, Unresolved
<1>2. CASE Granted \/ Expired
  <2>1. operations' = operations BY <1>2 DEF Granted, Expired
  <2>. QED BY <2>1, <1>0, <1>2, ReceiptsGrow DEF LedgerInv, LedgerTyped, ApprovalsExist,
         SerialIntegration, ApprovalSpentOnce, Ops, Unresolved
<1>3. CASE Claimed
  <2>1. PICK j \in Jobs, n \in DOMAIN receipts :
          /\ MayStart(j) /\ Spendable(j, n)
          /\ operations' = Append(operations, [job |-> j, receipt |-> n, outcome |-> "none"])
    BY <1>3 DEF Claimed
  <2>2. DEFINE row == [job |-> j, receipt |-> n, outcome |-> "none"]
  <2>3. row \in Operation
    BY <1>0, LenProperties, IntegrationAssumption DEF LedgerTyped, Operation
  <2>4. /\ operations' \in Seq(Operation) /\ Len(operations') = Len(operations) + 1
        /\ \A o \in Ops : operations'[o] = operations[o]
        /\ operations'[Len(operations) + 1].job = j
        /\ operations'[Len(operations) + 1].receipt = n
        /\ Ops' = Ops \cup {Len(operations) + 1} /\ Len(operations) + 1 \notin Ops
    <3>1. row.job = j /\ row.receipt = n OBVIOUS
    <3>2. operations' = Append(operations, row) BY <2>1
    <3>3. /\ DOMAIN operations = 1..Len(operations) /\ Len(operations) \in Nat
          /\ DOMAIN operations' = 1..Len(operations')
      BY <1>0, <2>3, <3>2, AppendProperties, LenProperties DEF LedgerTyped
    <3>. HIDE DEF row
    <3>. QED BY <1>0, <2>3, <3>1, <3>2, <3>3, AppendProperties DEF LedgerTyped, Ops
  <2>5. receipts' = receipts BY <1>3 DEF Claimed
  <2>6. Unresolved' \subseteq {Len(operations) + 1}
    BY <2>1, <2>4 DEF MayStart, Unresolved
  <2>7. \A o \in Ops : operations[o].receipt # n
    BY <2>1 DEF Spendable, Unspent, Consumed
  <2>8. receipts[n].job = j BY <2>1 DEF Spendable
  <2>9. LedgerTyped' BY <1>0, <2>4, <2>5 DEF LedgerTyped
  <2>10. ApprovalsExist' BY <2>4, <2>5 DEF LedgerInv, ApprovalsExist
  <2>11. SerialIntegration' BY <2>6 DEF SerialIntegration
  <2>12. ApprovalSpentOnce'
    <3>. SUFFICES ASSUME NEW o1 \in Ops', NEW o2 \in Ops'
                  PROVE  /\ receipts[operations'[o1].receipt].job = operations'[o1].job
                         /\ operations'[o1].receipt = operations'[o2].receipt => o1 = o2
      BY <2>5 DEF ApprovalSpentOnce
    <3>. QED BY <2>4, <2>7, <2>8 DEF LedgerInv, ApprovalSpentOnce
  <2>. QED BY <2>9, <2>10, <2>11, <2>12 DEF LedgerInv
<1>4. CASE Judged
  <2>1. receipts' = receipts BY <1>4 DEF Judged
  <2>. QED BY <1>0, <1>4, <2>1, Resolving DEF LedgerInv, LedgerTyped, ApprovalsExist, SerialIntegration,
         ApprovalSpentOnce, Unresolved
<1>. QED BY <1>0, <1>1, <1>2, <1>3, <1>4, LedgerStep

\* The ledger of approvals and operations in every reachable state.
THEOREM LedgerInvariant == Spec => []LedgerInv
BY LedgerInit, LedgerPreserved, PTL DEF Spec

\* One operation of all projects is open at a time, for any number of concurrent requests,
\* crashes and lost replies (the claim of runIntegration, INT-RUN-002).
THEOREM Serial == Spec => []SerialIntegration
BY LedgerInvariant, PTL DEF LedgerInv

\* An approval is spent by one operation, of its own job (INT-RUN-001).
THEOREM SpentOnce == Spec => []ApprovalSpentOnce
BY LedgerInvariant, PTL DEF LedgerInv
-----------------------------------------------------------------------------
(***************************************************************************)
(* The ledger against git: what is on a branch, what a push may still do   *)
(* to it and what the records say of it.                                   *)
(***************************************************************************)
\* What a commit is made of.
Labels(s) == {s[i] : i \in DOMAIN s}

\* The operations on a commit have moved a branch, and that of this project.
Traced(s, p) == \A l \in Labels(s) \ {0} : l \in reflog /\ Project[operations[l].job] = p

\* The head an operation is applied to.
Base(o)    == expected[operations[o].job]
Failed(o)  == operations[o].outcome = "FAILED"
Success(o) == operations[o].outcome = "SUCCEEDED"
Open(o)    == operations[o].outcome = "none"

\* No push of the operation is running.
Unsent(o) == \A push \in pushes : push.new # NewHead(o)
Off(o)    == o \notin Labels(branch[Project[operations[o].job]])

\* An operation against the branches and the proposals.  Its number is above all that is
\* on its base, and an open one is the last.
OpOK(o) ==
  /\ expected[operations[o].job] # None
  /\ \A l \in Labels(Base(o)) : l < o
  /\ Open(o) => o = Len(operations)
  /\ Success(o) => o \in reflog
  /\ Failed(o) => Off(o) /\ Unsent(o)
  /\ ~(Unsent(o) /\ o \notin reflog) => \A l \in Labels(Base(o)) \ {0} : ~Failed(l)

OnePerJob ==
  \A o1, o2 \in Ops :
    operations[o1].job = operations[o2].job /\ ~Failed(o1) /\ ~Failed(o2) => o1 = o2

History ==
  /\ \A p \in Projects : Traced(branch[p], p)
  /\ \A j \in Jobs : expected[j] # None => Traced(expected[j], Project[j])
  /\ \A o \in Ops : OpOK(o)
  /\ OnePerJob
  /\ DeclineIsFinal

\* The two kinds of push: one that applies an open operation, which has not landed, and
\* one that takes off what succeeded.  A request waits for its own.
Advancing(push, o) ==
  /\ Open(o) /\ o \notin reflog
  /\ push.project = Project[operations[o].job] /\ push.old = Base(o) /\ push.new = NewHead(o)
  /\ push.by # None => requests[push.by].stage = "advancing" /\ requests[push.by].op = o
Undoing(push, o) ==
  /\ Success(o)
  /\ push.project = Project[operations[o].job] /\ push.old = NewHead(o) /\ push.new = Base(o)
  /\ push.by # None => /\ requests[push.by].stage = "undoPushing"
                       /\ requests[push.by].job = operations[o].job
PushesOK == \A push \in pushes : \E o \in Ops : Advancing(push, o) \/ Undoing(push, o)

Unmoved == {"claimed", "listed", "prechecked", "validated", "relisted"}
Runs    == Unmoved \cup {"advancing", "advanced", "refused", "failing"}
Undoes  == {"undoing", "undoPushing", "undone", "reading", "repairing"}

\* Where a request c that has the frame r stands.
Fits(c, r) ==
  /\ r.stage = "proposing" => r.job \in Jobs /\ Traced(r.head, Project[r.job])
  /\ r.stage \in Runs => r.op \in Ops /\ Open(r.op) /\ operations[r.op].job = r.job
  /\ r.stage \in Unmoved => r.op \notin reflog
  /\ r.stage \in Unmoved \cup {"advanced", "refused", "failing"} => Unsent(r.op)
  /\ r.stage = "advancing" => \A push \in pushes : push.new = NewHead(r.op) => push.by = c
  /\ r.stage = "advanced" => r.op \in reflog
  /\ r.stage = "failing" => Off(r.op)
  /\ r.stage \in Undoes => r.job \in Jobs /\ Integrated(r.job)
  /\ r.stage \in {"undone", "repairing"} =>
       \A o \in Ops : Success(o) /\ operations[o].job = r.job => Off(o)
  /\ \A j \in r.todo : Integrated(j)
RequestOK(c) == Fits(c, requests[c])

OneRunner == \A c, d \in Requests :
               requests[c].stage \in Runs /\ requests[d].stage \in Runs => c = d

RequestsOK == OneRunner /\ \A c \in Requests : RequestOK(c)

BInv == LedgerInv /\ TypeOK /\ History /\ PushesOK /\ RequestsOK
-----------------------------------------------------------------------------
(* Commits *)

\* A commit has what its parent has and one operation more.
LEMMA AppendLabels ==
  ASSUME NEW S, NEW s \in Seq(S), NEW e \in S
  PROVE  /\ Append(s, e) \in Seq(S) /\ Append(s, e) # <<>>
         /\ Append(s, e)[Len(Append(s, e))] = e
         /\ Labels(Append(s, e)) = Labels(s) \cup {e}
<1>1. /\ Append(s, e) \in Seq(S) /\ Append(s, e) # <<>> /\ Len(Append(s, e)) = Len(s) + 1
      /\ \A i \in 1..Len(s) : Append(s, e)[i] = s[i]
      /\ Append(s, e)[Len(s) + 1] = e
  BY AppendProperties
<1>2. DOMAIN s = 1..Len(s) /\ Len(s) \in Nat /\ DOMAIN Append(s, e) = 1..(Len(s) + 1)
  BY <1>1, LenProperties
<1>3. Labels(Append(s, e)) = Labels(s) \cup {e}
  <2>1. \A i \in DOMAIN Append(s, e) : Append(s, e)[i] \in Labels(s) \cup {e}
    BY <1>1, <1>2 DEF Labels
  <2>2. \A i \in DOMAIN s : s[i] \in Labels(Append(s, e))
    BY <1>1, <1>2 DEF Labels
  <2>3. e \in Labels(Append(s, e)) BY <1>1, <1>2 DEF Labels
  <2>4. Labels(Append(s, e)) \subseteq Labels(s) \cup {e} BY <2>1 DEF Labels
  <2>5. Labels(s) \subseteq Labels(Append(s, e)) BY <2>2 DEF Labels
  <2>. QED BY <2>3, <2>4, <2>5
<1>. QED BY <1>1, <1>3

\* A commit has all that its parent has.
LEMMA FrontLabels ==
  ASSUME NEW S, NEW s \in Seq(S), s # <<>>
  PROVE  Front(s) \in Seq(S) /\ Labels(Front(s)) \subseteq Labels(s)
<1>1. Len(s) \in Nat /\ DOMAIN s = 1..Len(s) /\ Len(s) # 0
  BY LenProperties, EmptySeq
<1>2. Front(s) = SubSeq(s, 1, Len(s) - 1) BY DEF Front
<1>3. /\ SubSeq(s, 1, Len(s) - 1) \in Seq(S)
      /\ Len(SubSeq(s, 1, Len(s) - 1)) = Len(s) - 1
      /\ \A i \in 1..(Len(s) - 1) : SubSeq(s, 1, Len(s) - 1)[i] = s[i]
  BY <1>1, SubSeqProperties
<1>4. DOMAIN Front(s) = 1..(Len(s) - 1) BY <1>2, <1>3, LenProperties
<1>. QED BY <1>1, <1>2, <1>3, <1>4 DEF Labels

\* The head an operation makes is its base with its own label on top, and no other
\* operation makes it.
LEMMA Heads ==
  ASSUME TypeOK, \A o \in Ops : OpOK(o)
  PROVE  /\ Ops = 1..Len(operations) /\ Len(operations) \in Nat /\ Ops \subseteq OpIds
         /\ \A o \in Ops :
              /\ o \in Nat /\ o # 0 /\ operations[o] \in Operation /\ operations[o].job \in Jobs
              /\ Project[operations[o].job] \in Projects
              /\ Base(o) \in Commit /\ NewHead(o) \in Commit
              /\ o \notin Labels(Base(o)) /\ Labels(NewHead(o)) = Labels(Base(o)) \cup {o}
              /\ NewHead(o) # <<>> /\ NewHead(o)[Len(NewHead(o))] = o
         /\ \A o1, o2 \in Ops : NewHead(o1) = NewHead(o2) => o1 = o2
<1>1. Ops = 1..Len(operations) /\ Len(operations) \in Nat /\ Len(operations) <= MaxReceipts
  BY LenProperties, IntegrationAssumption DEF TypeOK, Ops
<1>2. Ops \subseteq OpIds BY <1>1, IntegrationAssumption DEF OpIds
<1>3. ASSUME NEW o \in Ops
      PROVE  /\ o \in Nat /\ o # 0 /\ operations[o] \in Operation /\ operations[o].job \in Jobs
             /\ Project[operations[o].job] \in Projects
             /\ Base(o) \in Commit /\ NewHead(o) \in Commit
             /\ o \notin Labels(Base(o)) /\ Labels(NewHead(o)) = Labels(Base(o)) \cup {o}
             /\ NewHead(o) # <<>> /\ NewHead(o)[Len(NewHead(o))] = o
  <2>1. o \in Nat /\ o # 0 BY <1>1
  <2>2. operations[o] \in Operation BY DEF TypeOK, Ops
  <2>3. operations[o].job \in Jobs BY <2>2 DEF Operation
  <2>4. Project[operations[o].job] \in Projects BY <2>3, IntegrationAssumption
  <2>5. Base(o) \in Commit BY <2>3 DEF OpOK, Base, TypeOK
  <2>6. o \in OpIds \cup {0} BY <1>2
  <2>7. NewHead(o) = Append(Base(o), o) BY DEF NewHead, Base
  <2>8. o \notin Labels(Base(o)) BY <2>1 DEF OpOK
  <2>. QED BY <2>1, <2>2, <2>3, <2>4, <2>5, <2>6, <2>7, <2>8, AppendLabels DEF Commit
<1>4. \A o1, o2 \in Ops : NewHead(o1) = NewHead(o2) => o1 = o2
  <2>. SUFFICES ASSUME NEW o1 \in Ops, NEW o2 \in Ops, NewHead(o1) = NewHead(o2) PROVE o1 = o2
    OBVIOUS
  <2>. QED BY <1>3
<1>. QED BY <1>1, <1>2, <1>3, <1>4
-----------------------------------------------------------------------------
(* Steps of one request that leave branches, pushes and operations as they   *)
(* are                                                                       *)

held == <<jobs, expected, operations, declined, branch, pushes, reflog>>

\* What the invariant says of anything but the requests is about these.
LEMMA Held ==
  ASSUME UNCHANGED held
  PROVE  /\ Ops' = Ops
         /\ \A o : /\ Base(o)' = Base(o) /\ NewHead(o)' = NewHead(o) /\ (Off(o)' <=> Off(o))
                   /\ (Unsent(o)' <=> Unsent(o)) /\ (Open(o)' <=> Open(o))
                   /\ (Success(o)' <=> Success(o)) /\ (Failed(o)' <=> Failed(o))
         /\ \A j : Integrated(j)' <=> Integrated(j)
         /\ \A s, p : Traced(s, p)' <=> Traced(s, p)
         /\ History => History'
<1>1. /\ Ops' = Ops
      /\ \A o : /\ Base(o)' = Base(o) /\ NewHead(o)' = NewHead(o) /\ (Off(o)' <=> Off(o))
                /\ (Unsent(o)' <=> Unsent(o)) /\ (Open(o)' <=> Open(o))
                /\ (Success(o)' <=> Success(o)) /\ (Failed(o)' <=> Failed(o))
  BY DEF held, Ops, Base, NewHead, Off, Unsent, Open, Success, Failed
<1>2. \A j : Integrated(j)' <=> Integrated(j) BY DEF held, Integrated, OpsOf, Ops
<1>3. \A s, p : Traced(s, p)' <=> Traced(s, p) BY DEF held, Traced
<1>4. History => History'
  <2>1. \A o \in Ops : OpOK(o) => OpOK(o)' BY <1>1 DEF held, OpOK
  <2>2. OnePerJob => OnePerJob' BY <1>1 DEF held, OnePerJob
  <2>3. /\ (\A p \in Projects : Traced(branch[p], p)) => (\A p \in Projects : Traced(branch[p], p))'
        /\ (\A j \in Jobs : expected[j] # None => Traced(expected[j], Project[j]))
             => (\A j \in Jobs : expected[j] # None => Traced(expected[j], Project[j]))'
    BY DEF held, Traced
  <2>4. DeclineIsFinal => DeclineIsFinal' BY DEF held, DeclineIsFinal
  <2>. QED BY <1>1, <2>1, <2>2, <2>3, <2>4 DEF History
<1>. QED BY <1>1, <1>2, <1>3, <1>4

\* A request that no push is running for goes on to a place where it fits.
LEMMA RequestMoves ==
  ASSUME BInv, UNCHANGED held, NEW c \in Requests, NEW r,
         requests' = [requests EXCEPT ![c] = r],
         requests[c].stage \notin {"advancing", "undoPushing"},
         r.stage \in Runs => requests[c].stage \in Runs,
         Fits(c, r)
  PROVE  History' /\ PushesOK' /\ RequestsOK'
<1>1. requests'[c] = r /\ \A d \in Requests : d # c => requests'[d] = requests[d]
  BY DEF BInv, TypeOK
<1>2. History' BY Held DEF BInv
<1>3. PushesOK'
  <2>. SUFFICES ASSUME NEW push \in pushes PROVE \E o \in Ops : Advancing(push, o)' \/ Undoing(push, o)'
    BY Held DEF PushesOK, held
  <2>1. PICK o \in Ops : Advancing(push, o) \/ Undoing(push, o) BY DEF BInv, PushesOK
  <2>2. push.by \in Requests \cup {None} BY DEF BInv, TypeOK, Push
  <2>3. push.by # None => push.by # c BY <2>1 DEF Advancing, Undoing
  <2>4. push.by # None => requests'[push.by] = requests[push.by] BY <1>1, <2>2, <2>3
  <2>5. Advancing(push, o) => Advancing(push, o)' BY <2>4, Held DEF Advancing, held
  <2>6. Undoing(push, o) => Undoing(push, o)' BY <2>4, Held DEF Undoing, held
  <2>. QED BY <2>1, <2>5, <2>6
<1>5. OneRunner' BY <1>1 DEF BInv, RequestsOK, OneRunner
<1>6. \A d \in Requests : RequestOK(d)'
  <2>. SUFFICES ASSUME NEW d \in Requests PROVE RequestOK(d)' OBVIOUS
  <2>1. Fits(d, requests'[d]) BY <1>1 DEF BInv, RequestsOK, RequestOK
  <2>. QED BY <2>1, Held DEF RequestOK, Fits, held
<1>. QED BY <1>2, <1>3, <1>5, <1>6 DEF RequestsOK

\* A request that rests stands nowhere.
LEMMA IdleFits == \A c : Fits(c, Idle)
BY DEF Fits, Idle, Runs, Unmoved, Undoes

\* Steps of an integration before it sends its push and after the push has failed.
LEMMA RunSteps ==
  ASSUME BInv, NEW c \in Requests,
         Fail(c) \/ ListWorktrees(c) \/ CheckHead(c) \/ PrepareCandidate(c) \/ InspectHead(c)
  PROVE  History' /\ PushesOK' /\ RequestsOK'
<1>1. /\ UNCHANGED held
      /\ requests[c].stage \in Unmoved \cup {"refused"}
      /\ requests[c] \in Request /\ Fits(c, requests[c])
  BY DEF Fail, ListWorktrees, CheckHead, PrepareCandidate, InspectHead, At, ledger, git, held, BInv,
     TypeOK, RequestsOK, RequestOK, Unmoved
<1>2. requests[c].stage \in Runs BY <1>1 DEF Runs
<1>3. PICK o \in Ops : o = requests[c].op BY <1>1, <1>2 DEF Fits
<1>4. Open(o) /\ operations[o].job = requests[c].job /\ Unsent(o)
  BY <1>1, <1>2, <1>3 DEF Fits
<1>5. TypeOK /\ (\A x \in Ops : OpOK(x)) /\ \A p \in Projects : Traced(branch[p], p)
  BY DEF BInv, History
<1>6. PICK s : requests' = [requests EXCEPT ![c].stage = s] \/ requests' = [requests EXCEPT ![c] = Idle]
  BY DEF Fail, ListWorktrees, CheckHead, PrepareCandidate, InspectHead, Goto, Return
<1>7. ASSUME requests' = [requests EXCEPT ![c] = Idle]
      PROVE  History' /\ PushesOK' /\ RequestsOK'
  BY <1>1, <1>7, IdleFits, RequestMoves DEF Idle, Runs, Unmoved
<1>8. ASSUME NEW t, requests' = [requests EXCEPT ![c].stage = t],
             (t \in Unmoved /\ requests[c].stage \in Unmoved) \/ (t = "failing" /\ Off(o))
      PROVE  History' /\ PushesOK' /\ RequestsOK'
  <2>. DEFINE r == [requests[c] EXCEPT !.stage = t]
  <2>1. /\ r.stage = t /\ r.op = o /\ r.job = requests[c].job /\ r.todo = requests[c].todo
        /\ t \in Unmoved \cup {"failing"} /\ t \in Runs
    BY <1>1, <1>3, <1>8 DEF Request, Runs
  <2>2. Fits(c, r)
    <3>. HIDE DEF r
    <3>. QED BY <1>1, <1>3, <1>4, <1>8, <2>1 DEF Fits, Unmoved, Undoes
  <2>3. requests' = [requests EXCEPT ![c] = r] BY <1>8
  <2>. HIDE DEF r
  <2>4. requests[c].stage \notin {"advancing", "undoPushing"} BY <1>1 DEF Unmoved
  <2>. QED BY <1>1, <1>2, <2>2, <2>3, <2>4, RequestMoves
<1>9. CASE Fail(c)
  <2>1. requests[c].stage \in Unmoved BY <1>9 DEF Fail, At, Unmoved
  <2>2. o \notin reflog BY <1>1, <1>3, <2>1 DEF Fits
  <2>3. Off(o) BY <1>5, <2>2, Heads DEF Off, Traced
  <2>. QED BY <1>8, <1>9, <2>3 DEF Fail, Goto
<1>10. CASE ListWorktrees(c) \/ CheckHead(c) \/ PrepareCandidate(c)
  <2>1. PICK t \in Unmoved : requests' = [requests EXCEPT ![c].stage = t]
    BY <1>10 DEF ListWorktrees, CheckHead, PrepareCandidate, Goto, Unmoved
  <2>2. requests[c].stage \in Unmoved
    BY <1>10 DEF ListWorktrees, CheckHead, PrepareCandidate, At, Unmoved
  <2>. QED BY <1>8, <2>1, <2>2
<1>11. CASE InspectHead(c)
  <2>1. CASE Return(c) BY <1>7, <2>1 DEF Return
  <2>2. CASE FailedForCertain(c) /\ Goto(c, "failing")
    <3>1. branch[Project[operations[o].job]] = Base(o)
      BY <1>4, <2>2 DEF FailedForCertain, HeadOf, Base
    <3>2. Off(o) BY <1>5, <3>1, Heads DEF Off
    <3>. QED BY <1>8, <2>2, <3>2 DEF Goto
  <2>. QED BY <1>11, <2>1, <2>2 DEF InspectHead
<1>. QED BY <1>9, <1>10, <1>11

\* Steps of the other requests that only look.
LEMMA LookSteps ==
  ASSUME BInv, NEW c \in Requests,
         \/ \E j \in Jobs : Propose(c, j) \/ Rollback(c, j)
         \/ Reconcile(c) \/ ReconcileRow(c) \/ ReadHead(c)
         \/ SendRollback(c) /\ pushes' = pushes /\ Return(c)
  PROVE  History' /\ PushesOK' /\ RequestsOK'
<1>1. /\ UNCHANGED held /\ requests[c] \in Request /\ Fits(c, requests[c])
      /\ requests[c].stage \notin {"advancing", "undoPushing"}
  BY DEF Propose, Rollback, Reconcile, ReconcileRow, ReadHead, SendRollback, At, ledger, git, held,
     BInv, TypeOK, RequestsOK, RequestOK
<1>2. ASSUME NEW r, Fits(c, r), r.stage \notin Runs, requests' = [requests EXCEPT ![c] = r]
      PROVE  History' /\ PushesOK' /\ RequestsOK'
  BY <1>1, <1>2, RequestMoves
<1>3. ASSUME NEW j \in Jobs, Propose(c, j) PROVE History' /\ PushesOK' /\ RequestsOK'
  <2>. DEFINE r == [Idle EXCEPT !.stage = "proposing", !.job = j, !.head = branch[Project[j]]]
  <2>1. /\ r.stage = "proposing" /\ r.job = j /\ r.head = branch[Project[j]] /\ r.todo = {}
    BY DEF Idle
  <2>2. Project[j] \in Projects BY IntegrationAssumption
  <2>3. Traced(r.head, Project[j]) BY <2>1, <2>2 DEF BInv, History
  <2>4. requests' = [requests EXCEPT ![c] = r] BY <1>3 DEF Propose
  <2>. HIDE DEF r
  <2>5. Fits(c, r) BY <2>1, <2>3 DEF Fits, Runs, Unmoved, Undoes
  <2>. QED BY <1>2, <2>1, <2>4, <2>5 DEF Runs, Unmoved
<1>4. ASSUME NEW j \in Jobs, Rollback(c, j) PROVE History' /\ PushesOK' /\ RequestsOK'
  <2>. DEFINE r == [Idle EXCEPT !.stage = "undoing", !.job = j]
  <2>1. /\ r.stage = "undoing" /\ r.job = j /\ r.todo = {} BY DEF Idle
  <2>2. requests' = [requests EXCEPT ![c] = r] /\ Integrated(j) BY <1>4 DEF Rollback
  <2>. HIDE DEF r
  <2>3. Fits(c, r) BY <2>1, <2>2 DEF Fits, Runs, Unmoved, Undoes
  <2>. QED BY <1>2, <2>1, <2>2, <2>3 DEF Runs, Unmoved
<1>5. CASE Reconcile(c)
  <2>. DEFINE r == [Idle EXCEPT !.stage = "reconciling", !.todo = {j \in Jobs : Integrated(j)}]
  <2>1. /\ r.stage = "reconciling" /\ r.todo = {j \in Jobs : Integrated(j)} BY DEF Idle
  <2>2. requests' = [requests EXCEPT ![c] = r] BY <1>5 DEF Reconcile
  <2>. HIDE DEF r
  <2>3. Fits(c, r) BY <2>1, <2>2 DEF Fits, Runs, Unmoved, Undoes
  <2>. QED BY <1>2, <2>1, <2>2, <2>3 DEF Runs, Unmoved
<1>6. CASE ReconcileRow(c)
  <2>1. CASE Return(c) BY <1>2, <2>1, IdleFits DEF Return, Idle, Runs, Unmoved
  <2>2. CASE ~Return(c)
    <3>1. PICK j \in requests[c].todo :
            requests' = [requests EXCEPT ![c].todo = @ \ {j}, ![c].job = j,
                         ![c].stage = IF rollbacks[j] > 0 THEN @ ELSE "reading"]
      BY <1>6, <2>2 DEF ReconcileRow
    <3>. DEFINE r == [requests[c] EXCEPT !.todo = @ \ {j}, !.job = j,
                        !.stage = IF rollbacks[j] > 0 THEN @ ELSE "reading"]
    <3>2. /\ r.stage \in {"reconciling", "reading"} /\ r.job = j /\ r.todo \subseteq requests[c].todo
          /\ j \in Jobs /\ Integrated(j)
      BY <1>1, <1>6, <3>1 DEF ReconcileRow, At, Request, Fits
    <3>3. requests' = [requests EXCEPT ![c] = r] BY <1>1, <3>1 DEF BInv, TypeOK
    <3>. HIDE DEF r
    <3>4. Fits(c, r) BY <1>1, <3>2 DEF Fits, Runs, Unmoved, Undoes
    <3>. QED BY <1>2, <3>2, <3>3, <3>4 DEF Runs, Unmoved
  <2>. QED BY <2>1, <2>2
<1>7. CASE ReadHead(c)
  <2>1. PICK s \in {"repairing", "reconciling"} :
          /\ requests' = [requests EXCEPT ![c].stage = s]
          /\ s = "repairing" => BackWhereItWas(c)
    BY <1>7 DEF ReadHead, Goto
  <2>. DEFINE r == [requests[c] EXCEPT !.stage = s]
  <2>2. /\ r.stage = s /\ r.job = requests[c].job /\ r.todo = requests[c].todo
        /\ r.job \in Jobs /\ Integrated(r.job)
    BY <1>1, <1>7 DEF ReadHead, At, Request, Fits, Undoes
  <2>3. requests' = [requests EXCEPT ![c] = r] BY <2>1
  <2>4. s = "repairing" => \A o \in Ops : Success(o) /\ operations[o].job = r.job => Off(o)
    <3>. SUFFICES ASSUME BackWhereItWas(c), NEW o \in Ops, operations[o].job = requests[c].job
                  PROVE  Off(o)
      BY <2>1, <2>2
    <3>1. branch[Project[operations[o].job]] = Base(o) BY DEF BackWhereItWas, HeadOf, Base
    <3>. QED BY <3>1, Heads DEF Off, BInv, History
  <2>. HIDE DEF r
  <2>5. Fits(c, r) BY <1>1, <2>1, <2>2, <2>4 DEF Fits, Runs, Unmoved, Undoes
  <2>. QED BY <1>2, <2>1, <2>2, <2>3, <2>5 DEF Runs, Unmoved
<1>8. CASE Return(c)
  BY <1>2, <1>8, IdleFits DEF Return, Idle, Runs, Unmoved
<1>. QED BY <1>3, <1>4, <1>5, <1>6, <1>7, <1>8
-----------------------------------------------------------------------------
(* Steps that write the ledger *)

\* What happens to approvals, servers and rollback receipts is nothing to branches.
LEMMA AsideSteps ==
  ASSUME BInv,
         \/ \E j \in Jobs, h \in Principals : GrantApproval(j, h)
         \/ \E n \in 1..MaxReceipts : Expire(n)
         \/ Restart \/ AttemptLost \/ UNCHANGED vars
  PROVE  History' /\ PushesOK' /\ RequestsOK'
<1>1. UNCHANGED held /\ requests' = requests
  BY DEF GrantApproval, Expire, Restart, AttemptLost, vars, held, ledger, git
<1>2. PushesOK'
  <2>. SUFFICES ASSUME NEW push \in pushes, NEW o \in Ops, Advancing(push, o) \/ Undoing(push, o)
                PROVE  Advancing(push, o)' \/ Undoing(push, o)'
    BY <1>1, Held DEF BInv, PushesOK, held
  <2>. QED BY <1>1, Held DEF Advancing, Undoing, held
<1>3. RequestsOK'
  <2>1. ASSUME NEW c \in Requests, RequestOK(c) PROVE RequestOK(c)'
    BY <1>1, <2>1, Held DEF RequestOK, Fits, held
  <2>. QED BY <1>1, <2>1 DEF BInv, RequestsOK, OneRunner
<1>. QED BY <1>1, <1>2, <1>3, Held DEF BInv

\* A rollback receipt, and every record that could not be written.
LEMMA ReturnSteps ==
  ASSUME BInv, NEW c \in Requests,
         \/ RecordRollback(c) \/ RepairReceipt(c)
         \/ (RecordSuccess(c) \/ RecordFailure(c)) /\ UNCHANGED <<operations, jobs>>
  PROVE  History' /\ PushesOK' /\ RequestsOK'
<1>1. /\ UNCHANGED held /\ requests[c] \in Request /\ Fits(c, requests[c])
      /\ requests[c].stage \notin {"advancing", "undoPushing"}
  BY DEF RecordRollback, RepairReceipt, RecordSuccess, RecordFailure, At, git, held, BInv, TypeOK,
     RequestsOK, RequestOK
<1>2. CASE Return(c)
  BY <1>1, <1>2, IdleFits, RequestMoves DEF Return, Idle, Runs, Unmoved
<1>3. CASE RepairReceipt(c)
  <2>. DEFINE r == [requests[c] EXCEPT !.stage = "reconciling"]
  <2>1. r.stage = "reconciling" /\ r.todo = requests[c].todo BY <1>1 DEF Request
  <2>2. requests' = [requests EXCEPT ![c] = r] BY <1>3 DEF RepairReceipt, Goto
  <2>. HIDE DEF r
  <2>3. Fits(c, r) BY <1>1, <2>1 DEF Fits, Runs, Unmoved, Undoes
  <2>. QED BY <1>1, <2>1, <2>2, <2>3, RequestMoves DEF Runs, Unmoved
<1>. QED BY <1>2, <1>3 DEF RecordRollback, RecordSuccess, RecordFailure

\* A proposal is about a job that has no operation yet.
LEMMA ProposalStep ==
  ASSUME BInv, NEW c \in Requests, RecordProposal(c)
  PROVE  History' /\ PushesOK' /\ RequestsOK'
<1>1. PICK j \in Jobs : /\ j = requests[c].job /\ Traced(requests[c].head, Project[j])
                        /\ expected' = [expected EXCEPT ![j] = IF @ = None THEN requests[c].head ELSE @]
  BY DEF RecordProposal, At, BInv, RequestsOK, RequestOK, Fits
<1>2. UNCHANGED <<jobs, operations, declined, branch, pushes, reflog>>
  BY DEF RecordProposal, git
<1>3. requests' = [requests EXCEPT ![c] = Idle] /\ requests[c].stage = "proposing"
  BY DEF RecordProposal, Return, At
<1>4. TypeOK BY DEF BInv
<1>5. CASE expected[j] # None
  <2>1. UNCHANGED held BY <1>1, <1>2, <1>4, <1>5 DEF held, TypeOK
  <2>. QED BY <1>3, <2>1, IdleFits, RequestMoves DEF Idle, Runs, Unmoved
<1>6. CASE expected[j] = None
  <2>1. \A o \in Ops : operations[o].job # j BY <1>6 DEF BInv, History, OpOK
  <2>2. \A k \in Jobs : k # j => expected'[k] = expected[k] BY <1>1, <1>4 DEF TypeOK
  <2>3. expected'[j] = requests[c].head BY <1>1, <1>4, <1>6 DEF TypeOK
  <2>4. Ops' = Ops /\ \A o \in Ops : operations[o].job \in Jobs
    BY <1>2, Heads DEF Ops, BInv, History
  <2>5. \A o \in Ops : /\ Base(o)' = Base(o) /\ NewHead(o)' = NewHead(o) /\ (Off(o)' <=> Off(o))
                       /\ (Unsent(o)' <=> Unsent(o)) /\ (Open(o)' <=> Open(o))
                       /\ (Success(o)' <=> Success(o)) /\ (Failed(o)' <=> Failed(o))
    BY <1>2, <2>1, <2>2, <2>4 DEF Base, NewHead, Off, Unsent, Open, Success, Failed
  <2>6. \A s, p : Traced(s, p)' <=> Traced(s, p) BY <1>2 DEF Traced
  <2>7. History'
    <3>1. \A o \in Ops : OpOK(o)'
      <4>. SUFFICES ASSUME NEW o \in Ops PROVE OpOK(o)' OBVIOUS
      <4>1. OpOK(o) /\ expected'[operations[o].job] = expected[operations[o].job]
        BY <2>1, <2>2, <2>4 DEF BInv, History
      <4>2. \A l \in Labels(Base(o)) \ {0} : l \in Ops
        <5>1. Traced(Base(o), Project[operations[o].job])
          BY <2>4, <4>1 DEF BInv, History, OpOK, Base
        <5>. QED BY <1>4, <5>1 DEF Traced, TypeOK
      <4>. QED BY <1>2, <2>5, <4>1, <4>2 DEF OpOK
    <3>2. OnePerJob' BY <1>2, <2>4, <2>5 DEF BInv, History, OnePerJob
    <3>3. \A k \in Jobs : expected'[k] # None => Traced(expected[k], Project[k])'
      <4>. SUFFICES ASSUME NEW k \in Jobs, expected'[k] # None PROVE Traced(expected[k], Project[k])'
        OBVIOUS
      <4>1. Traced(expected'[k], Project[k])
        BY <1>1, <2>2, <2>3 DEF BInv, History
      <4>. QED BY <1>2, <4>1 DEF Traced
    <3>4. \A p \in Projects : Traced(branch[p], p)' BY <1>2 DEF BInv, History, Traced
    <3>5. DeclineIsFinal' BY <1>2 DEF BInv, History, DeclineIsFinal
    <3>. QED BY <2>4, <3>1, <3>2, <3>3, <3>4, <3>5 DEF History
  <2>8. /\ requests'[c] = Idle /\ \A d \in Requests : d # c => requests'[d] = requests[d]
    BY <1>3, <1>4 DEF TypeOK
  <2>9. PushesOK'
    <3>. SUFFICES ASSUME NEW push \in pushes PROVE \E o \in Ops : Advancing(push, o)' \/ Undoing(push, o)'
      BY <1>2, <2>4 DEF PushesOK
    <3>1. PICK o \in Ops : Advancing(push, o) \/ Undoing(push, o) BY DEF BInv, PushesOK
    <3>2. push.by \in Requests \cup {None} BY <1>4 DEF TypeOK, Push
    <3>3. push.by # None => push.by # c BY <1>3, <3>1 DEF Advancing, Undoing
    <3>4. push.by # None => requests'[push.by] = requests[push.by] BY <2>8, <3>2, <3>3
    <3>. QED BY <1>2, <2>5, <3>1, <3>4 DEF Advancing, Undoing
  <2>10. \A d \in Requests : RequestOK(d)'
    <3>. SUFFICES ASSUME NEW d \in Requests PROVE RequestOK(d)' OBVIOUS
    <3>1. Fits(d, requests'[d]) BY <2>8, IdleFits DEF BInv, RequestsOK, RequestOK
    <3>2. \A k : Integrated(k)' <=> Integrated(k) BY <1>2 DEF Integrated, OpsOf, Ops
    <3>3. ASSUME NEW q, Fits(d, q) PROVE Fits(d, q)'
      <4>. USE <3>3
      <4>1. q.stage \in Runs => q.op \in Ops BY DEF Fits
      <4>2. q.stage = "proposing" => Traced(q.head, Project[q.job])' BY <1>2 DEF Fits, Traced
      <4>3. q.stage = "advancing" => \A push \in pushes' : push.new = NewHead(q.op)' => push.by = d
        BY <1>2, <2>5, <4>1 DEF Fits, Runs
      <4>4. q.stage \in Unmoved \cup {"advanced", "refused", "failing"} => Unsent(q.op)'
        BY <2>5, <4>1 DEF Fits, Runs
      <4>5. q.stage = "failing" => Off(q.op)' BY <2>5, <4>1 DEF Fits, Runs
      <4>6. q.stage \in {"undone", "repairing"} =>
              \A o \in Ops' : Success(o)' /\ operations'[o].job = q.job => Off(o)'
        BY <1>2, <2>4, <2>5 DEF Fits
      <4>. QED BY <1>2, <2>4, <2>5, <3>2, <4>1, <4>2, <4>3, <4>4, <4>5, <4>6 DEF Fits
    <3>. QED BY <3>1, <3>3 DEF RequestOK
  <2>11. OneRunner' BY <2>8 DEF BInv, RequestsOK, OneRunner, Idle, Runs, Unmoved
  <2>. QED BY <2>7, <2>9, <2>10, <2>11 DEF RequestsOK
<1>. QED BY <1>5, <1>6

\* A decline closes its job and nothing else.
LEMMA DeclineStep ==
  ASSUME BInv, NEW j \in Jobs, DeclineIntegration(j)
  PROVE  History' /\ PushesOK' /\ RequestsOK'
<1>1. UNCHANGED <<expected, operations, branch, pushes, reflog, requests>>
  BY DEF DeclineIntegration, git
<1>2. /\ Ops' = Ops
      /\ \A o : /\ Base(o)' = Base(o) /\ NewHead(o)' = NewHead(o) /\ (Off(o)' <=> Off(o))
                /\ (Unsent(o)' <=> Unsent(o)) /\ (Open(o)' <=> Open(o))
                /\ (Success(o)' <=> Success(o)) /\ (Failed(o)' <=> Failed(o))
      /\ \A k : Integrated(k)' <=> Integrated(k)
  BY <1>1 DEF Ops, Base, NewHead, Off, Unsent, Open, Success, Failed, Integrated, OpsOf
<1>3. DeclineIsFinal'
  BY DEF DeclineIntegration, BInv, History, DeclineIsFinal, TypeOK
<1>4. (\A o \in Ops : OpOK(o)') /\ OnePerJob'
  BY <1>1, <1>2 DEF BInv, History, OpOK, OnePerJob
<1>5. /\ \A p \in Projects : Traced(branch[p], p)'
      /\ \A k \in Jobs : expected'[k] # None => Traced(expected[k], Project[k])'
  BY <1>1 DEF BInv, History, Traced
<1>6. PushesOK' BY <1>1, <1>2 DEF BInv, PushesOK, Advancing, Undoing
<1>7. RequestsOK'
  <2>1. ASSUME NEW c \in Requests, RequestOK(c) PROVE RequestOK(c)'
    BY <1>1, <1>2, <2>1 DEF RequestOK, Fits, Traced
  <2>. QED BY <1>1, <2>1 DEF BInv, RequestsOK, OneRunner
<1>. QED BY <1>2, <1>3, <1>4, <1>5, <1>6, <1>7 DEF History
-----------------------------------------------------------------------------
(* Steps that move branches or send pushes                                   *)

\* A commit stays traced while the ledger only grows.
LEMMA TracesStay ==
  ASSUME NEW s, NEW p, Traced(s, p), reflog \subseteq reflog',
         \A o \in reflog : operations'[o].job = operations[o].job
  PROVE  Traced(s, p)'
BY DEF Traced

\* What a step of git must respect to leave the history true.
LEMMA GitHistory ==
  ASSUME BInv, UNCHANGED <<jobs, expected, operations, declined>>, reflog \subseteq reflog',
         \A p \in Projects : Traced(branch[p], p)',
         \A o \in Ops : Failed(o) => Off(o)' /\ Unsent(o)',
         \A o \in Ops : ~(Unsent(o)' /\ o \notin reflog')
                          => \A l \in Labels(Base(o)) \ {0} : ~Failed(l)
  PROVE  /\ History'
         /\ Ops' = Ops
         /\ \A o : /\ Base(o)' = Base(o) /\ NewHead(o)' = NewHead(o) /\ (Open(o)' <=> Open(o))
                   /\ (Success(o)' <=> Success(o)) /\ (Failed(o)' <=> Failed(o))
         /\ \A j : Integrated(j)' <=> Integrated(j)
<1>1. /\ Ops' = Ops
      /\ \A o : /\ Base(o)' = Base(o) /\ NewHead(o)' = NewHead(o) /\ (Open(o)' <=> Open(o))
                /\ (Success(o)' <=> Success(o)) /\ (Failed(o)' <=> Failed(o))
      /\ \A j : Integrated(j)' <=> Integrated(j)
  BY DEF Ops, Base, NewHead, Open, Success, Failed, Integrated, OpsOf
<1>2. \A o \in Ops : OpOK(o)'
  <2>. SUFFICES ASSUME NEW o \in Ops PROVE OpOK(o)' OBVIOUS
  <2>1. OpOK(o) BY DEF BInv, History
  <2>2. Labels(Base(o))' = Labels(Base(o)) BY <1>1 DEF Labels
  <2>. QED BY <1>1, <2>1, <2>2 DEF OpOK
<1>3. OnePerJob' /\ DeclineIsFinal'
  BY <1>1 DEF BInv, History, OnePerJob, DeclineIsFinal
<1>4. ASSUME NEW j \in Jobs, expected'[j] # None PROVE Traced(expected[j], Project[j])'
  <2>1. Traced(expected[j], Project[j]) BY <1>4 DEF BInv, History
  <2>. QED BY <2>1 DEF Traced
<1>5. History' BY <1>1, <1>2, <1>3, <1>4 DEF History
<1>. QED BY <1>1, <1>5

\* What a step of git must respect of the frame q of a request d.
LEMMA FrameStays ==
  ASSUME UNCHANGED <<expected, operations>>, reflog \subseteq reflog', NEW d, NEW q, Fits(d, q),
         \A o \in Ops : Success(o) /\ Off(o) => Off(o)',
         q.stage \in Runs =>
           /\ q.op \notin reflog => q.op \notin reflog'
           /\ Unsent(q.op) => Unsent(q.op)'
           /\ Off(q.op) => Off(q.op)'
           /\ \A push \in pushes' : push.new = NewHead(q.op) => push \in pushes
  PROVE  Fits(d, q)'
<1>1. /\ Ops' = Ops
      /\ \A o : /\ NewHead(o)' = NewHead(o) /\ (Open(o)' <=> Open(o))
                /\ (Success(o)' <=> Success(o))
      /\ \A j : Integrated(j)' <=> Integrated(j)
  BY DEF Ops, NewHead, Open, Success, Integrated, OpsOf
<1>2. q.stage = "proposing" => q.job \in Jobs /\ Traced(q.head, Project[q.job])'
  BY DEF Fits, Traced
<1>3. q.stage = "advancing" => \A push \in pushes' : push.new = NewHead(q.op)' => push.by = d
  BY <1>1 DEF Fits, Runs
<1>4. q.stage \in Unmoved \cup {"advanced", "refused", "failing"} => Unsent(q.op)'
  BY DEF Fits, Runs
<1>5. q.stage = "failing" => Off(q.op)' BY DEF Fits, Runs
<1>6. q.stage \in Unmoved => q.op \notin reflog' BY DEF Fits, Runs
<1>7. q.stage \in {"undone", "repairing"} =>
        \A o \in Ops' : Success(o)' /\ operations'[o].job = q.job => Off(o)'
  BY <1>1 DEF Fits
<1>8. q.stage \in Runs => q.op \in Ops' /\ Open(q.op)' /\ operations'[q.op].job = q.job
  BY <1>1 DEF Fits
<1>9. /\ q.stage = "advanced" => q.op \in reflog'
      /\ q.stage \in Undoes => q.job \in Jobs /\ Integrated(q.job)'
      /\ \A j \in q.todo : Integrated(j)'
  BY <1>1 DEF Fits
<1>. QED BY <1>2, <1>3, <1>4, <1>5, <1>6, <1>7, <1>8, <1>9 DEF Fits

\* What is on the base of an operation has landed, so no push leads to the head of an
\* operation that has not, except its own; and a request has one push at a time.
LEMMA OnePush ==
  ASSUME BInv
  PROVE  /\ \A o \in Ops : Traced(Base(o), Project[operations[o].job])
         /\ \A o, o2 \in Ops : Base(o2) = NewHead(o) => o \in reflog
         /\ \A push, push2 \in pushes, o \in Ops :
              Advancing(push, o) /\ push2.new = NewHead(o) => push2 = push
         /\ \A push, push2 \in pushes : push.by # None /\ push2.by = push.by => push2 = push
<1>0. TypeOK /\ (\A o \in Ops : OpOK(o)) BY DEF BInv, History
<1>1. ASSUME NEW o \in Ops PROVE Traced(Base(o), Project[operations[o].job])
  <2>1. operations[o].job \in Jobs BY <1>0, Heads
  <2>. QED BY <2>1 DEF BInv, History, OpOK, Base
<1>2. ASSUME NEW o \in Ops, NEW o2 \in Ops, Base(o2) = NewHead(o) PROVE o \in reflog
  <2>1. o \in Labels(Base(o2)) \ {0} BY <1>0, <1>2, Heads
  <2>. QED BY <1>1, <2>1 DEF Traced
<1>3. ASSUME NEW push \in pushes, NEW push2 \in pushes, push.by = push2.by,
             push.project = push2.project, push.old = push2.old, push.new = push2.new
      PROVE  push2 = push
  <2>1. push \in Push /\ push2 \in Push BY <1>0 DEF TypeOK
  <2>2. push = [by |-> push.by, project |-> push.project, old |-> push.old, new |-> push.new]
    BY <2>1 DEF Push
  <2>3. push2 = [by |-> push2.by, project |-> push2.project, old |-> push2.old, new |-> push2.new]
    BY <2>1 DEF Push
  <2>. QED BY <1>3, <2>2, <2>3
<1>4. ASSUME NEW push \in pushes, NEW push2 \in pushes, NEW o \in Ops, Advancing(push, o),
             push2.new = NewHead(o)
      PROVE  push2 = push
  <2>1. PICK o2 \in Ops : Advancing(push2, o2) \/ Undoing(push2, o2) BY DEF BInv, PushesOK
  <2>2. Advancing(push2, o2) BY <1>2, <1>4, <2>1 DEF Advancing, Undoing
  <2>3. o2 = o BY <1>0, <1>4, <2>2, Heads DEF Advancing
  <2>4. ASSUME NEW a \in pushes, NEW b \in pushes, Advancing(a, o), Advancing(b, o), a.by # None
        PROVE  b.by = a.by
    <3>1. a.by \in Requests BY <1>0, <2>4 DEF TypeOK, Push
    <3>2. requests[a.by].stage = "advancing" /\ requests[a.by].op = o BY <2>4 DEF Advancing
    <3>3. Fits(a.by, requests[a.by]) BY <3>1 DEF BInv, RequestsOK, RequestOK
    <3>. QED BY <2>4, <3>2, <3>3 DEF Fits, Advancing
  <2>5. push.by = push2.by
    <3>1. CASE push.by # None BY <1>4, <2>2, <2>3, <2>4, <3>1
    <3>2. CASE push2.by # None BY <1>4, <2>2, <2>3, <2>4, <3>2
    <3>. QED BY <3>1, <3>2
  <2>. QED BY <1>3, <1>4, <2>2, <2>3, <2>5 DEF Advancing
<1>5. ASSUME NEW push \in pushes, NEW push2 \in pushes, push.by # None, push2.by = push.by
      PROVE  push2 = push
  <2>1. PICK o \in Ops : Advancing(push, o) \/ Undoing(push, o) BY DEF BInv, PushesOK
  <2>2. PICK o2 \in Ops : Advancing(push2, o2) \/ Undoing(push2, o2) BY DEF BInv, PushesOK
  <2>3. CASE Advancing(push, o)
    <3>1. Advancing(push2, o2) /\ o2 = o BY <1>5, <2>2, <2>3 DEF Advancing, Undoing
    <3>. QED BY <1>4, <2>3, <3>1 DEF Advancing
  <2>4. CASE Undoing(push, o)
    <3>1. Undoing(push2, o2) BY <1>5, <2>2, <2>4 DEF Advancing, Undoing
    <3>2. operations[o2].job = operations[o].job BY <1>5, <2>4, <3>1 DEF Undoing
    <3>3. ~Failed(o) /\ ~Failed(o2) BY <2>4, <3>1 DEF Undoing, Success, Failed
    <3>4. o2 = o BY <3>2, <3>3 DEF BInv, History, OnePerJob
    <3>. QED BY <1>3, <1>5, <2>4, <3>1, <3>4 DEF Undoing
  <2>. QED BY <2>1, <2>3, <2>4
<1>. QED BY <1>1, <1>2, <1>4, <1>5
\* A request that sends its push, with the lease at the head it read, and the frame r it
\* then has.
LEMMA SendStep ==
  ASSUME BInv, NEW c \in Requests, NEW new, NEW r,
         UNCHANGED <<jobs, expected, operations, declined, branch, reflog>>,
         pushes' = pushes \cup {new}, requests' = [requests EXCEPT ![c] = r],
         requests[c].stage \notin {"advancing", "undoPushing"},
         r.stage \in Runs => requests[c].stage \in Runs,
         Fits(c, r)', \E o \in Ops : Advancing(new, o)' \/ Undoing(new, o)',
         \A o \in Ops : new.new = NewHead(o) => ~Failed(o) /\ (Open(o) => r.stage = "advancing"),
         \A o \in Ops : new.new = NewHead(o) /\ o \notin reflog
                          => \A l \in Labels(Base(o)) \ {0} : ~Failed(l)
  PROVE  History' /\ PushesOK' /\ RequestsOK'
<1>1. \A o \in Ops : Failed(o) => Off(o)' /\ Unsent(o)'
  BY DEF BInv, History, OpOK, Off, Unsent, NewHead
<1>2. \A p \in Projects : Traced(branch[p], p)' BY DEF BInv, History, Traced
<1>3. \A o \in Ops : ~(Unsent(o)' /\ o \notin reflog') => \A l \in Labels(Base(o)) \ {0} : ~Failed(l)
  BY DEF BInv, History, OpOK, Unsent, NewHead
<1>4. /\ History' /\ Ops' = Ops
      /\ \A o : /\ Base(o)' = Base(o) /\ NewHead(o)' = NewHead(o) /\ (Open(o)' <=> Open(o))
                /\ (Success(o)' <=> Success(o))
  BY <1>1, <1>2, <1>3, GitHistory
<1>5. requests'[c] = r /\ \A d \in Requests : d # c => requests'[d] = requests[d]
  BY DEF BInv, TypeOK
<1>6. PushesOK'
  <2>. SUFFICES ASSUME NEW push \in pushes PROVE \E o \in Ops : Advancing(push, o)' \/ Undoing(push, o)'
    BY <1>4 DEF PushesOK
  <2>1. PICK o \in Ops : Advancing(push, o) \/ Undoing(push, o) BY DEF BInv, PushesOK
  <2>2. push.by \in Requests \cup {None} BY DEF BInv, TypeOK, Push
  <2>3. push.by # None => push.by # c BY <2>1 DEF Advancing, Undoing
  <2>4. push.by # None => requests'[push.by] = requests[push.by] BY <1>5, <2>2, <2>3
  <2>. QED BY <1>4, <2>1, <2>4 DEF Advancing, Undoing
<1>7. \A d \in Requests : RequestOK(d)'
  <2>. SUFFICES ASSUME NEW d \in Requests, d # c PROVE RequestOK(d)' BY <1>5 DEF RequestOK
  <2>1. PICK q : q = requests[d] OBVIOUS
  <2>2. Fits(d, q) BY <2>1 DEF BInv, RequestsOK, RequestOK
  <2>3. \A o \in Ops : Off(o) => Off(o)' BY DEF Off
  <2>4. ASSUME q.stage \in Runs PROVE q.op \in Ops /\ Open(q.op) /\ r.stage # "advancing"
    BY <1>5, <2>1, <2>2, <2>4 DEF BInv, RequestsOK, OneRunner, Fits, Runs
  <2>5. q.stage \in Runs => new.new # NewHead(q.op) BY <2>4
  <2>6. q.stage \in Runs => (Unsent(q.op) => Unsent(q.op)') BY <2>5 DEF Unsent, NewHead
  <2>7. Fits(d, q)' BY <2>2, <2>3, <2>4, <2>5, <2>6, FrameStays
  <2>. QED BY <1>5, <2>1, <2>7 DEF RequestOK
<1>8. OneRunner' BY <1>5 DEF BInv, RequestsOK, OneRunner
<1>. QED BY <1>4, <1>6, <1>7, <1>8 DEF RequestsOK

\* The push of an integration is sent when nothing has moved the branch since its base was read.
LEMMA AdvanceIsSent ==
  ASSUME BInv, NEW c \in Requests, SendAdvance(c)
  PROVE  History' /\ PushesOK' /\ RequestsOK'
<1>1. PICK o \in Ops : /\ o = requests[c].op /\ Open(o) /\ o \notin reflog /\ Unsent(o)
                       /\ operations[o].job = requests[c].job
  BY DEF SendAdvance, At, BInv, RequestsOK, RequestOK, Fits, Runs, Unmoved
<1>2. TypeOK /\ (\A x \in Ops : OpOK(x)) BY DEF BInv, History
<1>3. PICK p \in Projects : p = Project[operations[o].job] BY <1>2, Heads
<1>4. branch[p] = Base(o) BY <1>1, <1>3 DEF SendAdvance, HeadOf, Base
<1>. DEFINE new == [by |-> c, project |-> p, old |-> Base(o), new |-> NewHead(o)]
            r == [requests[c] EXCEPT !.stage = "advancing"]
<1>5. /\ pushes' = pushes \cup {new} /\ requests' = [requests EXCEPT ![c] = r]
      /\ UNCHANGED <<jobs, expected, operations, declined, branch, reflog>>
      /\ requests[c].stage = "relisted"
  BY <1>1, <1>3, <1>4 DEF SendAdvance, Goto, ledger, At, HeadOf
<1>6. /\ r.stage = "advancing" /\ r.op = o /\ r.job = operations[o].job /\ r.todo = requests[c].todo
      /\ new.by = c /\ new.project = p /\ new.old = Base(o) /\ new.new = NewHead(o)
  BY <1>1, <1>2 DEF TypeOK, Request
<1>. HIDE DEF new, r
<1>7. requests'[c] = r BY <1>2, <1>5 DEF TypeOK
<1>8. /\ Ops' = Ops /\ NewHead(o)' = NewHead(o) /\ Base(o)' = Base(o) /\ (Open(o)' <=> Open(o))
      /\ \A j : Integrated(j)' <=> Integrated(j)
  BY <1>5 DEF Ops, NewHead, Base, Open, Integrated, OpsOf
<1>9. \A push \in pushes' : push.new = NewHead(o) => push = new BY <1>1, <1>5 DEF Unsent
<1>10. \A j \in r.todo : Integrated(j) BY <1>6 DEF BInv, RequestsOK, RequestOK, Fits
<1>11. PICK t : t = r OBVIOUS
<1>12. PICK u : u = new OBVIOUS
<1>13. Fits(c, t)'
  BY <1>1, <1>5, <1>6, <1>8, <1>9, <1>10, <1>11 DEF Fits, Undoes, Unmoved
<1>14. Advancing(u, o)' BY <1>1, <1>3, <1>5, <1>6, <1>7, <1>8, <1>12 DEF Advancing
<1>15. \A l \in Labels(Base(o)) \ {0} : ~Failed(l)
  <2>. SUFFICES ASSUME NEW l \in Labels(Base(o)) \ {0} PROVE ~Failed(l) OBVIOUS
  <2>1. l \in reflog /\ Project[operations[l].job] = p BY <1>4 DEF BInv, History, Traced
  <2>2. ~Off(l) BY <1>4, <2>1 DEF Off
  <2>. QED BY <1>2, <2>1, <2>2 DEF OpOK, TypeOK
<1>16. \A x \in Ops : u.new = NewHead(x) => x = o BY <1>2, <1>6, <1>12, Heads
<1>17. ~Failed(o) BY <1>1 DEF Open, Failed
<1>18. t.stage \in Runs => requests[c].stage \in Runs BY <1>5 DEF Runs, Unmoved
<1>19. /\ pushes' = pushes \cup {u} /\ requests' = [requests EXCEPT ![c] = t]
       /\ requests[c].stage \notin {"advancing", "undoPushing"}
       /\ \E x \in Ops : Advancing(u, x)' \/ Undoing(u, x)'
       /\ \A x \in Ops : u.new = NewHead(x) => ~Failed(x) /\ (Open(x) => t.stage = "advancing")
       /\ \A x \in Ops : u.new = NewHead(x) /\ x \notin reflog
                         => \A l \in Labels(Base(x)) \ {0} : ~Failed(l)
  BY <1>5, <1>6, <1>11, <1>12, <1>14, <1>15, <1>16, <1>17
<1>. QED BY <1>5, <1>13, <1>18, <1>19, SendStep

\* The push of a rollback is sent when the operation is at the head, or the request ends.
LEMMA RollbackIsSent ==
  ASSUME BInv, NEW c \in Requests, SendRollback(c)
  PROVE  History' /\ PushesOK' /\ RequestsOK'
<1>1. CASE pushes' = pushes /\ Return(c) BY <1>1, LookSteps
<1>2. CASE ~(pushes' = pushes /\ Return(c))
  <2>1. PICK j \in Jobs :
          /\ j = requests[c].job /\ Integrated(j)
          /\ HeadOf(c) = NewHead(LandedOp(j)) /\ Goto(c, "undoPushing")
          /\ pushes' = pushes \cup {[by |-> c, project |-> Project[j], old |-> HeadOf(c),
                                     new |-> expected[j]]}
    BY <1>2 DEF SendRollback, At, BInv, RequestsOK, RequestOK, Fits, Undoes
  <2>2. TypeOK /\ (\A x \in Ops : OpOK(x)) BY DEF BInv, History
  <2>3. PICK o \in Ops : o = LandedOp(j) /\ Success(o) /\ operations[o].job = j
    BY <2>1 DEF Integrated, LandedOp, OpsOf, Success
  <2>. DEFINE new == [by |-> c, project |-> Project[j], old |-> NewHead(o), new |-> Base(o)]
              r == [requests[c] EXCEPT !.stage = "undoPushing"]
  <2>4. /\ pushes' = pushes \cup {new} /\ requests' = [requests EXCEPT ![c] = r]
        /\ UNCHANGED <<jobs, expected, operations, declined, branch, reflog>>
        /\ requests[c].stage = "undoing"
    BY <2>1, <2>3 DEF SendRollback, Goto, ledger, At, Base
  <2>5. /\ r.stage = "undoPushing" /\ r.job = j /\ r.todo = requests[c].todo
        /\ new.by = c /\ new.project = Project[j] /\ new.old = NewHead(o) /\ new.new = Base(o)
    BY <2>1, <2>2 DEF TypeOK, Request
  <2>. HIDE DEF new, r
  <2>6. requests'[c] = r BY <2>2, <2>4 DEF TypeOK
  <2>7. /\ Ops' = Ops /\ NewHead(o)' = NewHead(o) /\ Base(o)' = Base(o)
        /\ (Success(o)' <=> Success(o)) /\ \A k : Integrated(k)' <=> Integrated(k)
    BY <2>4 DEF Ops, NewHead, Base, Success, Integrated, OpsOf
  <2>8. \A k \in r.todo : Integrated(k) BY <2>5 DEF BInv, RequestsOK, RequestOK, Fits
  <2>9. PICK t : t = r OBVIOUS
  <2>10. PICK u : u = new OBVIOUS
  <2>11. Fits(c, t)' BY <2>1, <2>4, <2>5, <2>7, <2>8, <2>9 DEF Fits, Runs, Undoes, Unmoved
  <2>12. Undoing(u, o)' BY <2>3, <2>4, <2>5, <2>6, <2>7, <2>10 DEF Undoing
  <2>13. \A x \in Ops : u.new = NewHead(x) => x \in Labels(Base(o)) \ {0} /\ x \in reflog
    <3>. SUFFICES ASSUME NEW x \in Ops, u.new = NewHead(x)
                  PROVE  x \in Labels(Base(o)) \ {0} /\ x \in reflog
      OBVIOUS
    <3>1. Base(o) = NewHead(x) BY <2>5, <2>10
    <3>2. x \in Labels(NewHead(x)) /\ x # 0 BY <2>2, Heads
    <3>3. x \in reflog BY <3>1, OnePush
    <3>. QED BY <3>1, <3>2, <3>3
  <2>14. \A x \in Ops : u.new = NewHead(x) => ~Failed(x)
    BY <2>2, <2>3, <2>13 DEF OpOK
  <2>15. \A x \in Ops : u.new = NewHead(x) => ~Open(x)
    BY <2>2, <2>13, Heads DEF OpOK
  <2>16. t.stage \notin Runs BY <2>5, <2>9 DEF Runs, Unmoved
  <2>. QED BY <2>4, <2>5, <2>9, <2>10, <2>11, <2>12, <2>13, <2>14, <2>15, <2>16, SendStep
<1>. QED BY <1>1, <1>2
\* The end of a push changes the frame of the request that sent it, if it still runs, and
\* may make the one operation it applies land.
LEMMA EndStep ==
  ASSUME BInv, NEW push \in pushes, UNCHANGED <<jobs, expected, operations, declined>>,
         pushes' = pushes \ {push}, reflog \subseteq reflog',
         \A o \in Ops : o \in reflog' => o \in reflog \/ Advancing(push, o),
         \A p \in Projects : Traced(branch[p], p)',
         \A o \in Ops : Off(o) /\ ~Advancing(push, o) => Off(o)',
         \A d \in Requests : d # push.by => requests'[d] = requests[d],
         push.by # None => /\ Fits(push.by, requests[push.by])'
                           /\ requests'[push.by].stage \in Runs => requests[push.by].stage \in Runs
  PROVE  History' /\ PushesOK' /\ RequestsOK'
<1>1. \A o \in Ops : Failed(o) => Off(o)' /\ Unsent(o)'
  BY DEF BInv, History, OpOK, Unsent, NewHead, Advancing, Failed, Open
<1>2. \A o \in Ops : ~(Unsent(o)' /\ o \notin reflog') => \A l \in Labels(Base(o)) \ {0} : ~Failed(l)
  BY DEF BInv, History, OpOK, Unsent, NewHead, Advancing
<1>3. /\ History' /\ Ops' = Ops
      /\ \A o : /\ Base(o)' = Base(o) /\ NewHead(o)' = NewHead(o) /\ (Open(o)' <=> Open(o))
                /\ (Success(o)' <=> Success(o))
  BY <1>1, <1>2, GitHistory
<1>4. PushesOK'
  <2>. SUFFICES ASSUME NEW other \in pushes, other # push
                PROVE  \E o \in Ops : Advancing(other, o)' \/ Undoing(other, o)'
    BY <1>3 DEF PushesOK
  <2>1. PICK o \in Ops : Advancing(other, o) \/ Undoing(other, o) BY DEF BInv, PushesOK
  <2>2. other.by \in Requests \cup {None} BY DEF BInv, TypeOK, Push
  <2>3. other.by # None => other.by # push.by BY OnePush
  <2>4. other.by # None => requests'[other.by] = requests[other.by] BY <2>2, <2>3
  <2>5. Advancing(other, o) => o \notin reflog' BY OnePush DEF Advancing
  <2>. QED BY <1>3, <2>1, <2>4, <2>5 DEF Advancing, Undoing
<1>5. \A d \in Requests : RequestOK(d)'
  <2>. SUFFICES ASSUME NEW d \in Requests, d # push.by PROVE RequestOK(d)' 
    BY IntegrationAssumption DEF RequestOK
  <2>1. PICK q : q = requests[d] OBVIOUS
  <2>2. Fits(d, q) BY <2>1 DEF BInv, RequestsOK, RequestOK
  <2>3. \A o \in Ops : Success(o) /\ Off(o) => Off(o)' BY DEF Advancing, Open, Success
  <2>4. ASSUME q.stage \in Runs PROVE ~Advancing(push, q.op)
    <3>. SUFFICES ASSUME Advancing(push, q.op) PROVE FALSE OBVIOUS
    <3>1. CASE push.by # None
      <4>1. push.by \in Requests /\ requests[push.by].stage \in Runs
        BY <3>1 DEF Advancing, Runs, BInv, TypeOK, Push
      <4>. QED BY <2>1, <2>4, <4>1 DEF BInv, RequestsOK, OneRunner
    <3>2. CASE push.by = None
      <4>1. d # None BY IntegrationAssumption
      <4>2. ~Unsent(q.op) BY DEF Unsent, Advancing
      <4>3. q.stage = "advancing" BY <2>2, <2>4, <4>2 DEF Fits, Runs
      <4>. QED BY <2>2, <3>2, <4>1, <4>3 DEF Fits, Advancing
    <3>. QED BY <3>1, <3>2
  <2>5. q.stage \in Runs => q.op \in Ops BY <2>2 DEF Fits
  <2>6. q.stage \in Runs => (Unsent(q.op) => Unsent(q.op)') BY DEF Unsent, NewHead
  <2>7. Fits(d, q)' BY <2>2, <2>3, <2>4, <2>5, <2>6, FrameStays
  <2>. QED BY <2>1, <2>7 DEF RequestOK
<1>6. OneRunner'
  <2>1. \A d \in Requests : requests'[d].stage \in Runs => requests[d].stage \in Runs
    BY IntegrationAssumption
  <2>. QED BY <2>1 DEF BInv, RequestsOK, OneRunner
<1>. QED BY <1>3, <1>4, <1>5, <1>6 DEF RequestsOK

\* The reply of a push that was sent by a request c.
LEMMA Answered ==
  ASSUME TypeOK, NEW push \in pushes, NEW ok \in BOOLEAN, Reply(push, ok)
  PROVE  /\ \A d \in Requests : d # push.by => requests'[d] = requests[d]
         /\ push.by # None =>
              /\ push.by \in Requests /\ requests[push.by] \in Request
              /\ requests[push.by].stage = "advancing" =>
                   requests'[push.by] = [requests[push.by] EXCEPT
                                           !.stage = IF ok THEN "advanced" ELSE "refused"]
              /\ requests[push.by].stage = "undoPushing" =>
                   requests'[push.by] = IF ok THEN [requests[push.by] EXCEPT !.stage = "undone"]
                                        ELSE Idle
<1>1. CASE push.by = None BY <1>1 DEF Reply
<1>2. CASE push.by # None
  <2>1. PICK c \in Requests : c = push.by BY <1>2 DEF TypeOK, Push
  <2>2. requests[c] \in Request BY DEF TypeOK
  <2>3. CASE requests[c].stage = "advancing"
    <3>1. requests' = [requests EXCEPT ![c].stage = IF ok THEN "advanced" ELSE "refused"]
      BY <1>2, <2>1, <2>3 DEF Reply
    <3>. QED BY <2>1, <2>2, <2>3, <3>1 DEF TypeOK
  <2>4. CASE requests[c].stage # "advancing"
    <3>1. requests' = [requests EXCEPT ![c] = IF ok THEN [@ EXCEPT !.stage = "undone"] ELSE Idle]
      BY <1>2, <2>1, <2>4 DEF Reply
    <3>. QED BY <2>1, <2>2, <2>4, <3>1 DEF TypeOK
  <2>. QED BY <2>3, <2>4
<1>. QED BY <1>1, <1>2
\* The request that waits for a push knows from its success that the operation has landed,
\* or that it is off the branch.
LEMMA SenderFits ==
  ASSUME BInv, NEW push \in pushes, pushes' = pushes \ {push}, UNCHANGED <<expected, operations>>,
         reflog \subseteq reflog', NEW ok \in BOOLEAN, Reply(push, ok), push.by # None, NEW o \in Ops,
         Advancing(push, o) \/ Undoing(push, o),
         Advancing(push, o) /\ ok => o \in reflog', Undoing(push, o) /\ ok => Off(o)'
  PROVE  /\ Fits(push.by, requests[push.by])'
         /\ requests'[push.by].stage \in Runs => requests[push.by].stage \in Runs
<1>0. TypeOK BY DEF BInv
<1>1. PICK c \in Requests : c = push.by BY <1>0 DEF TypeOK, Push
<1>2. PICK q : q = requests'[c] OBVIOUS
<1>3. Fits(c, requests[c]) /\ requests[c] \in Request BY <1>0 DEF BInv, RequestsOK, RequestOK, TypeOK
<1>4. /\ Ops' = Ops
      /\ \A x : NewHead(x)' = NewHead(x) /\ (Open(x)' <=> Open(x)) /\ (Success(x)' <=> Success(x))
      /\ \A j : Integrated(j)' <=> Integrated(j)
  BY DEF Ops, NewHead, Open, Success, Integrated, OpsOf
<1>5. \A j \in requests[c].todo : Integrated(j)' BY <1>3, <1>4 DEF Fits
<1>6. CASE Advancing(push, o)
  <2>1. requests[c].stage = "advancing" /\ requests[c].op = o
    BY <1>1, <1>6 DEF Advancing
  <2>2. q = [requests[c] EXCEPT !.stage = IF ok THEN "advanced" ELSE "refused"]
    BY <1>0, <1>1, <1>2, <2>1, Answered
  <2>3. /\ q.stage \in {"advanced", "refused"} /\ q.op = o /\ q.job = requests[c].job
        /\ q.todo = requests[c].todo /\ (q.stage = "advanced" => ok)
    BY <1>3, <2>1, <2>2 DEF Request
  <2>4. Unsent(o)' BY <1>4, <1>6, OnePush DEF Unsent
  <2>5. Open(o) /\ operations[o].job = q.job BY <1>3, <2>1, <2>3 DEF Fits, Runs
  <2>6. q.stage = "advanced" => o \in reflog'
    BY <1>6, <2>3 DEF Advancing, Undoing, Open, Success
  <2>7. Fits(c, q)' BY <1>4, <1>5, <2>3, <2>4, <2>5, <2>6 DEF Fits, Undoes, Unmoved
  <2>. QED BY <1>1, <1>2, <2>1, <2>7 DEF Runs
<1>7. CASE Undoing(push, o)
  <2>1. requests[c].stage = "undoPushing" /\ requests[c].job = operations[o].job
    BY <1>1, <1>7 DEF Undoing
  <2>2. q = IF ok THEN [requests[c] EXCEPT !.stage = "undone"] ELSE Idle
    BY <1>0, <1>1, <1>2, <2>1, Answered
  <2>3. CASE ok
    <3>1. q.stage = "undone" /\ q.job = operations[o].job /\ q.todo = requests[c].todo
      BY <1>3, <2>1, <2>2, <2>3 DEF Request
    <3>2. \A x \in Ops : Success(x) /\ operations[x].job = q.job => x = o
      BY <1>7, <3>1 DEF BInv, History, OnePerJob, Undoing, Success, Failed
    <3>3. Off(o)' BY <1>7, <2>3 DEF Advancing, Undoing, Open, Success
    <3>4. q.job \in Jobs /\ Integrated(q.job)' BY <1>3, <1>4, <2>1, <3>1 DEF Fits, Undoes
    <3>5. \A x \in Ops' : Success(x)' /\ operations'[x].job = q.job => Off(x)'
      BY <1>4, <3>2, <3>3
    <3>6. Fits(c, q)' BY <1>5, <3>1, <3>4, <3>5 DEF Fits, Undoes, Unmoved, Runs
    <3>. QED BY <1>1, <1>2, <3>1, <3>6 DEF Runs, Unmoved
  <2>4. CASE ~ok
    <3>1. q = Idle BY <2>2, <2>4
    <3>2. Fits(c, q)' BY <3>1, IdleFits DEF Fits, Idle, Runs, Undoes, Unmoved
    <3>. QED BY <1>1, <1>2, <3>1, <3>2 DEF Idle, Runs, Unmoved
  <2>. QED BY <2>3, <2>4
<1>. QED BY <1>6, <1>7

\* A push applies its operation, takes it off, or leaves the branch as it is.
LEMMA PushMoves ==
  ASSUME BInv, NEW push \in pushes, PushEnds(push)
  PROVE  \E o \in Ops, p \in Projects :
           /\ p = Project[operations[o].job] /\ push.project = p
           /\ \/ UNCHANGED <<branch, reflog>> /\ (Advancing(push, o) \/ Undoing(push, o))
              \/ /\ Advancing(push, o) /\ branch[p] = Base(o)
                 /\ branch' = [branch EXCEPT ![p] = NewHead(o)] /\ reflog' = reflog \cup {o}
              \/ /\ Undoing(push, o) /\ branch[p] = NewHead(o)
                 /\ branch' = [branch EXCEPT ![p] = Base(o)] /\ reflog' = reflog
<1>1. TypeOK /\ \A x \in Ops : OpOK(x) BY DEF BInv, History
<1>2. PICK o \in Ops : Advancing(push, o) \/ Undoing(push, o) BY DEF BInv, PushesOK
<1>3. PICK p \in Projects : p = Project[operations[o].job] /\ push.project = p
  BY <1>1, <1>2, Heads DEF Advancing, Undoing
<1>4. CASE UNCHANGED <<branch, reflog>> BY <1>2, <1>3, <1>4
<1>5. CASE ~UNCHANGED <<branch, reflog>>
  <2>1. /\ branch[p] = push.old /\ branch' = [branch EXCEPT ![p] = push.new]
        /\ reflog' = reflog \cup (IF push.new = <<>> THEN {} ELSE {push.new[Len(push.new)]} \ {0})
    BY <1>3, <1>5 DEF PushEnds, Leased
  <2>2. CASE Advancing(push, o)
    <3>1. push.old = Base(o) /\ push.new = NewHead(o) BY <2>2 DEF Advancing
    <3>2. reflog' = reflog \cup {o} BY <1>1, <2>1, <3>1, Heads
    <3>. QED BY <1>3, <2>1, <2>2, <3>1, <3>2
  <2>3. CASE Undoing(push, o)
    <3>1. push.old = NewHead(o) /\ push.new = Base(o) BY <2>3 DEF Undoing
    <3>2. reflog' = reflog
      <4>1. CASE Base(o) = <<>> BY <2>1, <3>1, <4>1
      <4>2. CASE Base(o) # <<>>
        <5>1. Base(o) \in Commit BY <1>1, Heads
        <5>2. Len(Base(o)) \in DOMAIN Base(o) BY <4>2, <5>1, LenProperties, EmptySeq DEF Commit
        <5>3. {Base(o)[Len(Base(o))]} \ {0} \subseteq reflog BY <5>2, OnePush DEF Traced, Labels
        <5>. QED BY <2>1, <3>1, <4>2, <5>3
      <4>. QED BY <4>1, <4>2
    <3>. QED BY <1>3, <2>1, <2>3, <3>1, <3>2
  <2>. QED BY <1>2, <2>2, <2>3
<1>. QED BY <1>4, <1>5

\* A push that ends has moved the branch if it was where the push expects it, or has failed, whatever it replied.
LEMMA PushStep ==
  ASSUME BInv, NEW push \in pushes, PushEnds(push)
  PROVE  History' /\ PushesOK' /\ RequestsOK'
<1>1. /\ UNCHANGED <<jobs, expected, operations, declined>> /\ pushes' = pushes \ {push}
      /\ TypeOK /\ \A x \in Ops : OpOK(x)
  BY DEF PushEnds, ledger, BInv, History
<1>2. PICK o \in Ops, p \in Projects :
        /\ p = Project[operations[o].job] /\ push.project = p
        /\ \/ UNCHANGED <<branch, reflog>> /\ (Advancing(push, o) \/ Undoing(push, o))
           \/ /\ Advancing(push, o) /\ branch[p] = Base(o)
              /\ branch' = [branch EXCEPT ![p] = NewHead(o)] /\ reflog' = reflog \cup {o}
           \/ /\ Undoing(push, o) /\ branch[p] = NewHead(o)
              /\ branch' = [branch EXCEPT ![p] = Base(o)] /\ reflog' = reflog
  BY PushMoves
<1>3. ~(Advancing(push, o) /\ Undoing(push, o)) BY DEF Advancing, Undoing, Open, Success
<1>4. ASSUME reflog \subseteq reflog',
             \A x \in Ops : x \in reflog' => x \in reflog \/ Advancing(push, x),
             \A x \in Projects : Traced(branch[x], x)',
             \A x \in Ops : Off(x) /\ ~Advancing(push, x) => Off(x)',
             NEW ok \in BOOLEAN, Reply(push, ok),
             Advancing(push, o) /\ ok => o \in reflog', Undoing(push, o) /\ ok => Off(o)'
      PROVE  History' /\ PushesOK' /\ RequestsOK'
  <2>1. \A d \in Requests : d # push.by => requests'[d] = requests[d]
    BY <1>1, <1>4, Answered
  <2>2. push.by # None => /\ Fits(push.by, requests[push.by])'
                          /\ requests'[push.by].stage \in Runs => requests[push.by].stage \in Runs
    BY <1>1, <1>2, <1>4, SenderFits
  <2>. QED BY <1>1, <1>4, <2>1, <2>2, EndStep
<1>5. CASE UNCHANGED <<branch, reflog>>
  <2>1. PICK ok \in BOOLEAN : Reply(push, ok) /\ (ok => branch'[p] = push.new)
    BY <1>1, <1>2, <1>5 DEF PushEnds, Leased, TypeOK
  <2>2. \A x \in Projects : Traced(branch[x], x)' BY <1>1, <1>5 DEF BInv, History, Traced
  <2>3. \A x \in Ops : Off(x) => Off(x)' BY <1>1, <1>5 DEF Off
  <2>4. ASSUME Advancing(push, o), ok PROVE o \in reflog'
    <3>1. o \in Labels(branch[p]) BY <1>1, <1>2, <1>5, <2>1, <2>4, Heads DEF Advancing
    <3>2. o # 0 BY <1>1, Heads
    <3>. QED BY <1>5, <3>1, <3>2 DEF BInv, History, Traced
  <2>5. ASSUME Undoing(push, o), ok PROVE Off(o)'
    <3>1. branch'[p] = Base(o) BY <1>5, <2>1, <2>5 DEF Undoing
    <3>2. o \notin Labels(branch'[p]) BY <1>1, <3>1, Heads
    <3>. QED BY <1>1, <1>2, <3>2 DEF Off, Labels
  <2>. QED BY <1>4, <1>5, <2>1, <2>2, <2>3, <2>4, <2>5
<1>6. PICK ok \in BOOLEAN : Reply(push, ok) BY DEF PushEnds
<1>7. ASSUME NEW x \in Projects, x # p, branch'[x] = branch[x], reflog \subseteq reflog'
      PROVE  Traced(branch[x], x)'
  <2>1. Traced(branch[x], x) BY DEF BInv, History
  <2>. QED BY <1>1, <1>7, <2>1 DEF Traced
<1>8. CASE /\ Advancing(push, o) /\ branch[p] = Base(o)
           /\ branch' = [branch EXCEPT ![p] = NewHead(o)] /\ reflog' = reflog \cup {o}
  <2>1. branch'[p] = NewHead(o) /\ \A x \in Projects : x # p => branch'[x] = branch[x]
    BY <1>1, <1>8 DEF TypeOK
  <2>2. Labels(branch'[p]) = Labels(Base(o)) \cup {o} BY <1>1, <2>1, Heads
  <2>3. Traced(branch[p], p)'
    <3>1. Traced(Base(o), p) BY <1>2, OnePush
    <3>. QED BY <1>1, <1>2, <1>8, <2>2, <3>1 DEF Traced, Labels
  <2>4. ASSUME NEW x \in Ops, Off(x), ~Advancing(push, x) PROVE Off(x)'
    <3>1. x # o BY <1>8, <2>4
    <3>2. CASE Project[operations[x].job] = p
      <4>1. x \notin Labels(branch'[p]) BY <1>8, <2>2, <2>4, <3>1, <3>2 DEF Off
      <4>. QED BY <1>1, <3>2, <4>1 DEF Off, Labels
    <3>3. CASE Project[operations[x].job] # p
      <4>1. Project[operations[x].job] \in Projects BY <1>1, Heads
      <4>. QED BY <1>1, <2>1, <2>4, <3>3, <4>1 DEF Off, Labels
    <3>. QED BY <3>2, <3>3
  <2>5. \A x \in Projects : Traced(branch[x], x)' BY <1>7, <1>8, <2>1, <2>3
  <2>. QED BY <1>3, <1>4, <1>6, <1>8, <2>4, <2>5
<1>9. CASE /\ Undoing(push, o) /\ branch[p] = NewHead(o)
           /\ branch' = [branch EXCEPT ![p] = Base(o)] /\ reflog' = reflog
  <2>1. branch'[p] = Base(o) /\ \A x \in Projects : x # p => branch'[x] = branch[x]
    BY <1>1, <1>9 DEF TypeOK
  <2>2. Labels(branch'[p]) = Labels(Base(o)) /\ Labels(branch[p]) = Labels(Base(o)) \cup {o}
    BY <1>1, <1>9, <2>1, Heads
  <2>3. Traced(branch[p], p)'
    <3>1. Traced(Base(o), p) BY <1>2, OnePush
    <3>. QED BY <1>1, <1>9, <2>2, <3>1 DEF Traced, Labels
  <2>4. ASSUME NEW x \in Ops, Off(x) PROVE Off(x)'
    <3>1. CASE Project[operations[x].job] = p
      <4>1. x \notin Labels(branch'[p]) BY <2>2, <2>4, <3>1 DEF Off
      <4>. QED BY <1>1, <3>1, <4>1 DEF Off, Labels
    <3>2. CASE Project[operations[x].job] # p
      <4>1. Project[operations[x].job] \in Projects BY <1>1, Heads
      <4>. QED BY <1>1, <2>1, <2>4, <3>2, <4>1 DEF Off, Labels
    <3>. QED BY <3>1, <3>2
  <2>5. Off(o)'
    <3>1. o \notin Labels(branch'[p]) BY <1>1, <2>2, Heads
    <3>. QED BY <1>1, <1>2, <3>1 DEF Off, Labels
  <2>6. \A x \in Projects : Traced(branch[x], x)' BY <1>7, <1>9, <2>1, <2>3
  <2>. QED BY <1>3, <1>4, <1>6, <1>9, <2>4, <2>5, <2>6
<1>. QED BY <1>2, <1>5, <1>8, <1>9

\* A developer puts nothing but outside work on a branch.
LEMMA OutsideLabels ==
  ASSUME TypeOK, NEW p \in Projects, Outside(p), NEW x \in Projects
  PROVE  Labels(branch'[x]) \subseteq Labels(branch[x]) \cup {0}
<1>1. branch[p] \in Seq(OpIds \cup {0}) BY DEF TypeOK, Commit
<1>2. Labels(Append(branch[p], 0)) = Labels(branch[p]) \cup {0} BY <1>1, AppendLabels
<1>3. branch[p] # <<>> => Labels(Front(branch[p])) \subseteq Labels(branch[p])
  BY <1>1, FrontLabels
<1>4. \/ branch' = [branch EXCEPT ![p] = Append(@, 0)]
      \/ branch[p] # <<>> /\ branch' = [branch EXCEPT ![p] = Front(@)]
      \/ branch' = branch
  BY DEF Outside
<1>5. \/ x # p /\ branch'[x] = branch[x]
      \/ x = p /\ branch'[x] = Append(branch[p], 0)
      \/ x = p /\ branch[p] # <<>> /\ branch'[x] = Front(branch[p])
      \/ branch'[x] = branch[x]
  BY <1>4 DEF TypeOK
<1>. QED BY <1>2, <1>3, <1>5

\* A developer takes from the requests and the pushes nothing that they rely on.
LEMMA OutsideStep ==
  ASSUME BInv, NEW p \in Projects, Outside(p)
  PROVE  History' /\ PushesOK' /\ RequestsOK'
<1>1. /\ UNCHANGED <<jobs, expected, operations, declined, requests, pushes, reflog>>
      /\ TypeOK /\ \A x \in Ops : OpOK(x)
  BY DEF Outside, ledger, BInv, History
<1>2. \A x \in Projects : Labels(branch'[x]) \subseteq Labels(branch[x]) \cup {0}
  BY <1>1, OutsideLabels
<1>3. ASSUME NEW o \in Ops, Off(o) PROVE Off(o)'
  <2>1. Project[operations[o].job] \in Projects /\ o # 0 BY <1>1, Heads
  <2>2. o \notin Labels(branch'[Project[operations[o].job]]) BY <1>2, <1>3, <2>1 DEF Off
  <2>. QED BY <1>1, <2>2 DEF Off, Labels
<1>4. ASSUME NEW x \in Projects PROVE Traced(branch[x], x)'
  <2>1. Traced(branch[x], x) BY DEF BInv, History
  <2>2. \A l \in Labels(branch'[x]) \ {0} : l \in reflog /\ Project[operations[l].job] = x
    BY <1>2, <2>1 DEF Traced
  <2>. QED BY <1>1, <2>2 DEF Traced, Labels
<1>5. \A o : Unsent(o)' <=> Unsent(o) BY <1>1 DEF Unsent, NewHead
<1>6. /\ History' /\ Ops' = Ops
      /\ \A o : /\ Base(o)' = Base(o) /\ NewHead(o)' = NewHead(o) /\ (Open(o)' <=> Open(o))
                /\ (Success(o)' <=> Success(o))
  <2>1. \A o \in Ops : Failed(o) => Off(o)' /\ Unsent(o)' BY <1>1, <1>3, <1>5 DEF OpOK
  <2>2. \A o \in Ops : ~(Unsent(o)' /\ o \notin reflog')
                         => \A l \in Labels(Base(o)) \ {0} : ~Failed(l)
    BY <1>1, <1>5 DEF OpOK
  <2>. QED BY <1>1, <1>4, <2>1, <2>2, GitHistory
<1>7. PushesOK' BY <1>1, <1>6 DEF BInv, PushesOK, Advancing, Undoing
<1>8. ASSUME NEW d \in Requests PROVE RequestOK(d)'
  <2>1. PICK q : q = requests[d] OBVIOUS
  <2>2. Fits(d, q) BY <2>1 DEF BInv, RequestsOK, RequestOK
  <2>3. q.stage \in Runs => q.op \in Ops BY <2>2 DEF Fits
  <2>4. Fits(d, q)' BY <1>1, <1>3, <1>5, <2>2, <2>3, FrameStays
  <2>. QED BY <1>1, <2>1, <2>4 DEF RequestOK
<1>. QED BY <1>1, <1>6, <1>7, <1>8 DEF BInv, RequestsOK, OneRunner

\* The server dies: its requests are gone, its pushes are not.
LEMMA CrashStep ==
  ASSUME BInv, Crash
  PROVE  History' /\ PushesOK' /\ RequestsOK'
<1>1. /\ UNCHANGED <<jobs, expected, operations, declined, branch, reflog>>
      /\ pushes' = {[push EXCEPT !.by = None] : push \in pushes}
      /\ requests' = [c \in Requests |-> Idle] /\ TypeOK
  BY DEF Crash, ledger, BInv
<1>3. ASSUME NEW push \in pushes'
      PROVE  /\ push.by = None
             /\ \E old \in pushes : /\ old.project = push.project /\ old.old = push.old
                                    /\ old.new = push.new
  <2>1. PICK old \in pushes : push = [old EXCEPT !.by = None] BY <1>1
  <2>2. old \in Push BY <1>1 DEF TypeOK
  <2>. QED BY <2>1, <2>2 DEF Push
<1>4. \A o : Unsent(o) => Unsent(o)' BY <1>1, <1>3 DEF Unsent, NewHead
<1>5. \A o : Off(o)' <=> Off(o) BY <1>1 DEF Off
<1>6. \A p \in Projects : Traced(branch[p], p)' BY <1>1 DEF BInv, History, Traced
<1>7. /\ History' /\ Ops' = Ops
      /\ \A o : /\ Base(o)' = Base(o) /\ NewHead(o)' = NewHead(o) /\ (Open(o)' <=> Open(o))
                /\ (Success(o)' <=> Success(o))
  <2>1. \A o \in Ops : Failed(o) => Off(o)' /\ Unsent(o)'
    BY <1>4, <1>5 DEF BInv, History, OpOK
  <2>2. \A o \in Ops : ~(Unsent(o)' /\ o \notin reflog')
                         => \A l \in Labels(Base(o)) \ {0} : ~Failed(l)
    BY <1>1, <1>4 DEF BInv, History, OpOK
  <2>. QED BY <1>1, <1>6, <2>1, <2>2, GitHistory
<1>8. PushesOK'
  <2>. SUFFICES ASSUME NEW push \in pushes' PROVE \E o \in Ops : Advancing(push, o)' \/ Undoing(push, o)'
    BY <1>7 DEF PushesOK
  <2>1. PICK old \in pushes : /\ old.project = push.project /\ old.old = push.old
                              /\ old.new = push.new
    BY <1>3
  <2>2. PICK o \in Ops : Advancing(old, o) \/ Undoing(old, o) BY DEF BInv, PushesOK
  <2>. QED BY <1>1, <1>3, <1>7, <2>1, <2>2 DEF Advancing, Undoing
<1>9. RequestsOK'
  BY <1>1 DEF RequestsOK, OneRunner, RequestOK, Fits, Idle, Runs, Undoes, Unmoved
<1>. QED BY <1>7, <1>8, <1>9
-----------------------------------------------------------------------------
(* Steps that open and close operations                                      *)

\* The operation a claim adds is the last.
LEMMA NewOperation ==
  ASSUME LedgerTyped, NEW row \in Operation, operations' = Append(operations, row),
         NEW new, new = Len(operations) + 1
  PROVE  /\ new \in Nat /\ Ops' = Ops \cup {new} /\ new \notin Ops /\ Len(operations') = new
         /\ \A o \in Ops : operations'[o] = operations[o] /\ o < new
         /\ operations'[new] = row
<1>1. /\ operations' \in Seq(Operation) /\ Len(operations') = Len(operations) + 1
      /\ \A o \in 1..Len(operations) : operations'[o] = operations[o]
      /\ operations'[Len(operations) + 1] = row
  BY AppendProperties DEF LedgerTyped
<1>2. /\ DOMAIN operations = 1..Len(operations) /\ DOMAIN operations' = 1..Len(operations')
      /\ Len(operations) \in Nat
  BY <1>1, LenProperties DEF LedgerTyped
<1>. QED BY <1>1, <1>2 DEF Ops

\* The row of a claim.
LEMMA ClaimedRow ==
  ASSUME LedgerTyped, NEW j \in Jobs, NEW n \in DOMAIN receipts,
         operations' = Append(operations, [job |-> j, receipt |-> n, outcome |-> "none"])
  PROVE  \E row \in Operation : /\ operations' = Append(operations, row)
                                /\ row.job = j /\ row.receipt = n /\ row.outcome = "none"
<1>. DEFINE row == [job |-> j, receipt |-> n, outcome |-> "none"]
<1>1. row \in Operation BY LenProperties, IntegrationAssumption DEF LedgerTyped, Operation
<1>. WITNESS row \in Operation
<1>. QED OBVIOUS

\* What a terminal record changes.
LEMMA ClosedOperation ==
  ASSUME LedgerTyped, NEW o \in Ops, NEW v \in {"SUCCEEDED", "FAILED"},
         operations' = [operations EXCEPT ![o].outcome = v]
  PROVE  /\ Ops' = Ops /\ Len(operations') = Len(operations)
         /\ \A x \in Ops : /\ operations'[x].job = operations[x].job
                           /\ operations'[x].receipt = operations[x].receipt
                           /\ x # o => operations'[x] = operations[x]
         /\ operations'[o].outcome = v
<1>1. operations \in Seq(Operation) /\ operations[o] \in Operation BY DEF LedgerTyped, Ops
<1>. DEFINE row == [operations[o] EXCEPT !.outcome = v]
<1>2. /\ row \in Operation /\ row.job = operations[o].job /\ row.receipt = operations[o].receipt
      /\ row.outcome = v
  BY <1>1 DEF Operation
<1>3. operations' = [operations EXCEPT ![o] = row] OBVIOUS
<1>. HIDE DEF row
<1>. QED BY <1>1, <1>2, <1>3, ExceptSeq, LenProperties DEF Ops

\* An integration starts when none is open, and its operation gets the highest number.
LEMMA ClaimStep ==
  ASSUME BInv, NEW c \in Requests, NEW j \in Jobs, Claim(c, j)
  PROVE  History' /\ PushesOK' /\ RequestsOK'
<1>0. LedgerTyped BY DEF BInv, LedgerInv
<1>1. /\ UNCHANGED <<jobs, expected, declined, branch, pushes, reflog>>
      /\ TypeOK /\ (\A x \in Ops : OpOK(x)) /\ LedgerTyped
      /\ requests[c].stage = "idle" /\ expected[j] # None
      /\ ~Integrated(j) /\ Unresolved = {}
  BY DEF Claim, git, BInv, LedgerInv, History, At, MayStart
<1>2. PICK row \in Operation : /\ operations' = Append(operations, row)
                               /\ row.job = j /\ row.outcome = "none"
  BY <1>0, ClaimedRow DEF Claim
<1>3. PICK new \in Nat : new = Len(operations) + 1 BY <1>1, LenProperties DEF TypeOK
<1>4. /\ Ops' = Ops \cup {new} /\ new \notin Ops /\ Len(operations') = new
      /\ \A o \in Ops : operations'[o] = operations[o] /\ o < new
      /\ operations'[new].job = j /\ operations'[new].outcome = "none"
  BY <1>0, <1>2, <1>3, NewOperation
<1>5. \A o \in Ops : /\ Base(o)' = Base(o) /\ NewHead(o)' = NewHead(o) /\ (Off(o)' <=> Off(o))
                     /\ (Unsent(o)' <=> Unsent(o)) /\ (Open(o)' <=> Open(o))
                     /\ (Success(o)' <=> Success(o)) /\ (Failed(o)' <=> Failed(o))
  BY <1>1, <1>4 DEF Base, NewHead, Off, Unsent, Open, Success, Failed
<1>6. \A o \in Ops : ~Open(o) BY <1>1 DEF Unresolved, Open
<1>7. ASSUME NEW s, NEW p, Traced(s, p) PROVE Traced(s, p)'
  <2>1. \A o \in reflog : operations'[o].job = operations[o].job BY <1>1, <1>4 DEF TypeOK
  <2>. QED BY <1>1, <1>7, <2>1, TracesStay
<1>8. Open(new)' /\ ~Success(new)' /\ ~Failed(new)' /\ Base(new)' = expected[j]
  BY <1>1, <1>4 DEF Open, Success, Failed, Base
<1>9. new \notin reflog BY <1>1, <1>4 DEF TypeOK
<1>10. Unsent(new)'
  <2>. SUFFICES ASSUME NEW push \in pushes, push.new = NewHead(new)' PROVE FALSE
    BY <1>1 DEF Unsent
  <2>1. PICK o \in Ops : Undoing(push, o) BY <1>6 DEF BInv, PushesOK, Advancing
  <2>2. expected[j] \in Seq(OpIds \cup {0}) BY <1>1 DEF TypeOK, Commit
  <2>3. push.new = Append(expected[j], new) BY <1>1, <1>4 DEF NewHead
  <2>4. new \in Labels(push.new)
    <3>1. Base(o) = Append(expected[j], new) BY <2>1, <2>3 DEF Undoing
    <3>2. expected[j] \in Seq(OpIds \cup {0} \cup {new}) BY <2>2, SeqDef
    <3>3. Labels(Append(expected[j], new)) = Labels(expected[j]) \cup {new} BY <3>2, AppendLabels
    <3>. QED BY <2>3, <3>3
  <2>5. \A l \in Labels(Base(o)) : l < o BY <1>1 DEF OpOK
  <2>6. new < o /\ o < new /\ o \in Nat BY <1>1, <1>4, <2>1, <2>4, <2>5, Heads DEF Undoing
  <2>. QED BY <2>6
<1>11. OpOK(new)'
  <2>1. Traced(expected[j], Project[j]) BY <1>1 DEF BInv, History
  <2>2. \A l \in Labels(expected[j]) : l < new
    BY <1>1, <1>3, <1>4, <2>1 DEF Traced, TypeOK
  <2>3. Labels(Base(new))' = Labels(expected[j]) BY <1>8 DEF Labels
  <2>. QED BY <1>1, <1>4, <1>8, <1>9, <1>10, <2>2, <2>3 DEF OpOK
<1>12. ASSUME NEW o \in Ops PROVE OpOK(o)'
  <2>1. OpOK(o) BY <1>1
  <2>2. Labels(Base(o))' = Labels(Base(o)) BY <1>5 DEF Labels
  <2>3. \A l \in Labels(Base(o)) \ {0} : l \in Ops
    <3>1. Traced(Base(o), Project[operations[o].job]) BY OnePush
    <3>. QED BY <1>1, <3>1 DEF Traced, TypeOK
  <2>4. ~Open(o)' BY <1>5, <1>6
  <2>. QED BY <1>1, <1>4, <1>5, <2>1, <2>2, <2>3, <2>4 DEF OpOK
<1>13. OnePerJob'
  <2>1. \A o \in Ops : operations[o].job = j => Failed(o)
    BY <1>1, <1>6, Heads DEF Integrated, OpsOf, Open, Failed, Operation
  <2>. SUFFICES ASSUME NEW o1 \in Ops', NEW o2 \in Ops', operations'[o1].job = operations'[o2].job,
                       ~Failed(o1)', ~Failed(o2)'
                PROVE  o1 = o2
    BY DEF OnePerJob
  <2>. QED BY <1>4, <1>5, <2>1 DEF BInv, History, OnePerJob
<1>14. History'
  <2>1. \A p \in Projects : Traced(branch[p], p)'
    <3>. SUFFICES ASSUME NEW p \in Projects PROVE Traced(branch[p], p)' OBVIOUS
    <3>1. PICK s : s = branch[p] /\ Traced(s, p) BY DEF BInv, History
    <3>2. Traced(s, p)' BY <1>7, <3>1
    <3>. QED BY <1>1, <3>1, <3>2 DEF Traced
  <2>2. ASSUME NEW k \in Jobs, expected'[k] # None PROVE Traced(expected[k], Project[k])'
    <3>1. PICK s : s = expected[k] /\ Traced(s, Project[k]) BY <1>1, <2>2 DEF BInv, History
    <3>2. Traced(s, Project[k])' BY <1>7, <3>1
    <3>. QED BY <1>1, <3>1, <3>2 DEF Traced
  <2>3. DeclineIsFinal' BY <1>1 DEF BInv, History, DeclineIsFinal
  <2>. QED BY <1>4, <1>11, <1>12, <1>13, <2>1, <2>2, <2>3 DEF History
<1>15. /\ requests' = [requests EXCEPT ![c] = [Idle EXCEPT !.stage = "claimed", !.job = j, !.op = new]]
  BY <1>3 DEF Claim
<1>16. /\ requests'[c].stage = "claimed" /\ requests'[c].job = j /\ requests'[c].op = new
       /\ requests'[c].todo = {}
       /\ \A d \in Requests : d # c => requests'[d] = requests[d]
  BY <1>1, <1>15 DEF TypeOK, Idle
<1>17. \A d \in Requests : d # c => requests'[d].stage \notin Runs
  BY <1>6, <1>16 DEF BInv, RequestsOK, RequestOK, Fits
<1>18. PushesOK'
  <2>. SUFFICES ASSUME NEW push \in pushes PROVE \E o \in Ops : Undoing(push, o)'
    BY <1>1, <1>4 DEF PushesOK
  <2>1. PICK o \in Ops : Undoing(push, o) BY <1>6 DEF BInv, PushesOK, Advancing
  <2>2. push.by # None => push.by \in Requests /\ push.by # c
    BY <1>1, <2>1 DEF Undoing, TypeOK, Push
  <2>. QED BY <1>4, <1>5, <1>16, <2>1, <2>2 DEF Undoing
<1>19. \A k : Integrated(k) => Integrated(k)' BY <1>4 DEF Integrated, OpsOf
<1>20. RequestOK(c)'
  BY <1>1, <1>4, <1>8, <1>9, <1>10, <1>16 DEF RequestOK, Fits, Undoes, Unmoved
<1>21. ASSUME NEW d \in Requests, d # c PROVE RequestOK(d)'
  <2>1. PICK q : q = requests[d] OBVIOUS
  <2>2. Fits(d, q) BY <2>1 DEF BInv, RequestsOK, RequestOK
  <2>3. q.stage \notin Runs BY <1>16, <1>17, <1>21, <2>1
  <2>4. q.stage = "proposing" => q.job \in Jobs /\ Traced(q.head, Project[q.job])'
    BY <1>7, <2>2 DEF Fits
  <2>5. q.stage \in {"undone", "repairing"} =>
          \A o \in Ops' : Success(o)' /\ operations'[o].job = q.job => Off(o)'
    BY <1>4, <1>5, <1>8, <2>2 DEF Fits
  <2>6. Fits(d, q)' BY <1>19, <2>2, <2>3, <2>4, <2>5 DEF Fits, Runs
  <2>. QED BY <1>16, <1>21, <2>1, <2>6 DEF RequestOK
<1>22. OneRunner' BY <1>17 DEF OneRunner
<1>. QED BY <1>14, <1>18, <1>20, <1>21, <1>22 DEF RequestsOK
\* A terminal record closes the open operation: a success of one that has landed, a failure
\* of one that is off the branch and cannot come any more.
LEMMA ResolveStep ==
  ASSUME BInv, NEW c \in Requests, NEW o \in Ops, NEW v \in {"SUCCEEDED", "FAILED"},
         UNCHANGED <<expected, declined, branch, pushes, reflog>>,
         \A j \in Jobs : jobs[j] = "CANCELLED" => jobs'[j] = "CANCELLED",
         operations' = [operations EXCEPT ![o].outcome = v],
         requests' = [requests EXCEPT ![c] = Idle],
         requests[c].stage \in {"advanced", "failing"}, requests[c].op = o,
         \/ v = "SUCCEEDED" /\ o \in reflog
         \/ v = "FAILED" /\ Off(o)
  PROVE  History' /\ PushesOK' /\ RequestsOK'
<1>1. TypeOK /\ (\A x \in Ops : OpOK(x)) /\ LedgerTyped BY DEF BInv, LedgerInv, History
<1>2. Open(o) /\ Unsent(o) BY DEF BInv, RequestsOK, RequestOK, Fits, Runs
<1>3. \A x \in Ops : Open(x) => x = o BY <1>2 DEF BInv, LedgerInv, SerialIntegration, Unresolved, Open
<1>4. /\ Ops' = Ops /\ Len(operations') = Len(operations)
      /\ \A x \in Ops : operations'[x].job = operations[x].job /\ (x # o => operations'[x] = operations[x])
      /\ operations'[o].outcome = v
  <2>1. LedgerTyped BY <1>1
  <2>2. /\ Ops' = Ops /\ Len(operations') = Len(operations)
        /\ \A x \in Ops : /\ operations'[x].job = operations[x].job
                          /\ operations'[x].receipt = operations[x].receipt
                          /\ x # o => operations'[x] = operations[x]
        /\ operations'[o].outcome = v
    BY <2>1, ClosedOperation
  <2>. QED BY <2>2
<1>5. \A x \in Ops : Base(x)' = Base(x) /\ NewHead(x)' = NewHead(x) BY <1>4 DEF Base, NewHead
<1>6. \A x \in Ops : (Off(x)' <=> Off(x)) /\ (Unsent(x)' <=> Unsent(x)) BY <1>4, <1>5 DEF Off, Unsent
<1>7. /\ \A x \in Ops : ~Open(x)'
      /\ \A x \in Ops : x # o => (Success(x)' <=> Success(x)) /\ (Failed(x)' <=> Failed(x))
      /\ (Success(o)' <=> v = "SUCCEEDED") /\ (Failed(o)' <=> v = "FAILED")
  BY <1>3, <1>4 DEF Open, Success, Failed
<1>8. ~Success(o) /\ ~Failed(o) BY <1>2 DEF Open, Success, Failed
<1>9. ASSUME NEW x \in Ops PROVE OpOK(x)'
  <2>1. OpOK(x) BY <1>1
  <2>2. Labels(Base(x))' = Labels(Base(x)) BY <1>5 DEF Labels
  <2>3. o \notin Labels(Base(x))
    <3>1. o = Len(operations) /\ x \in 1..Len(operations) /\ Len(operations) \in Nat
      BY <1>1, <1>2, Heads DEF OpOK
    <3>. QED BY <2>1, <3>1 DEF OpOK
  <2>4. \A l \in Labels(Base(x)) \ {0} : l \in Ops
    <3>1. Traced(Base(x), Project[operations[x].job]) BY OnePush
    <3>. QED BY <1>1, <3>1 DEF Traced, TypeOK
  <2>5. ~(Unsent(x)' /\ x \notin reflog') => \A l \in Labels(Base(x)) \ {0} : ~Failed(l)'
    BY <1>6, <1>7, <2>1, <2>3, <2>4 DEF OpOK
  <2>6. CASE x # o BY <1>4, <1>5, <1>6, <1>7, <2>1, <2>2, <2>5, <2>6 DEF OpOK
  <2>7. CASE x = o BY <1>2, <1>4, <1>5, <1>6, <1>7, <2>1, <2>2, <2>5, <2>7 DEF OpOK
  <2>. QED BY <2>6, <2>7
<1>10. OnePerJob' BY <1>4, <1>7, <1>8 DEF BInv, History, OnePerJob
<1>11. \A k : Integrated(k) => Integrated(k)' BY <1>4, <1>7, <1>8 DEF Integrated, OpsOf, Success
<1>12. ASSUME NEW s, NEW p, Traced(s, p) PROVE Traced(s, p)'
  <2>1. \A x \in reflog : operations'[x].job = operations[x].job BY <1>1, <1>4 DEF TypeOK
  <2>. QED BY <1>12, <2>1, TracesStay
<1>13. History'
  <2>1. \A p \in Projects : Traced(branch[p], p)'
    <3>. SUFFICES ASSUME NEW p \in Projects PROVE Traced(branch[p], p)' OBVIOUS
    <3>1. PICK s : s = branch[p] /\ Traced(s, p) BY DEF BInv, History
    <3>2. Traced(s, p)' BY <1>12, <3>1
    <3>. QED BY <3>1, <3>2 DEF Traced
  <2>2. ASSUME NEW k \in Jobs, expected'[k] # None PROVE Traced(expected[k], Project[k])'
    <3>1. PICK s : s = expected[k] /\ Traced(s, Project[k]) BY <2>2 DEF BInv, History
    <3>2. Traced(s, Project[k])' BY <1>12, <3>1
    <3>. QED BY <3>1, <3>2 DEF Traced
  <2>3. DeclineIsFinal' BY <1>1 DEF BInv, History, DeclineIsFinal, TypeOK
  <2>. QED BY <1>4, <1>9, <1>10, <2>1, <2>2, <2>3 DEF History
<1>14. requests'[c] = Idle /\ \A d \in Requests : d # c => requests'[d] = requests[d]
  BY <1>1 DEF TypeOK
<1>15. \A d \in Requests : requests'[d].stage \notin Runs
  BY <1>14 DEF BInv, RequestsOK, OneRunner, Runs, Unmoved, Idle
<1>16. PushesOK'
  <2>. SUFFICES ASSUME NEW push \in pushes PROVE \E x \in Ops : Undoing(push, x)'
    BY <1>4 DEF PushesOK
  <2>1. PICK x \in Ops : Undoing(push, x) BY <1>2, <1>3 DEF BInv, PushesOK, Advancing, Unsent
  <2>2. push.by # None => push.by \in Requests /\ push.by # c
    BY <1>1, <2>1 DEF Undoing, TypeOK, Push
  <2>. QED BY <1>4, <1>5, <1>7, <1>8, <1>14, <2>1, <2>2 DEF Undoing
<1>17. RequestOK(c)' BY <1>14 DEF RequestOK, Fits, Idle, Runs, Undoes, Unmoved
<1>18. ASSUME NEW d \in Requests, d # c PROVE RequestOK(d)'
  <2>1. PICK q : q = requests[d] OBVIOUS
  <2>2. Fits(d, q) BY <2>1 DEF BInv, RequestsOK, RequestOK
  <2>3. q.stage \notin Runs BY <1>14, <1>15, <1>18, <2>1
  <2>4. q.stage = "proposing" => q.job \in Jobs /\ Traced(q.head, Project[q.job])'
    BY <1>12, <2>2 DEF Fits
  <2>5. Integrated(q.job) => operations[o].job # q.job
    <3>. SUFFICES ASSUME NEW y \in Ops, Success(y), operations[y].job = operations[o].job PROVE FALSE
      BY DEF Integrated, OpsOf, Success
    <3>1. ~Failed(y) BY DEF Success, Failed
    <3>2. y = o BY <1>8, <3>1 DEF BInv, History, OnePerJob
    <3>. QED BY <1>8, <3>2
  <2>6. q.stage \in {"undone", "repairing"} =>
          \A x \in Ops' : Success(x)' /\ operations'[x].job = q.job => Off(x)'
    BY <1>4, <1>6, <1>7, <2>2, <2>5 DEF Fits, Undoes
  <2>7. Fits(d, q)' BY <1>11, <2>2, <2>3, <2>4, <2>6 DEF Fits, Runs
  <2>. QED BY <1>14, <1>18, <2>1, <2>7 DEF RequestOK
<1>19. OneRunner' BY <1>15 DEF OneRunner
<1>. QED BY <1>13, <1>16, <1>17, <1>18, <1>19 DEF RequestsOK

\* An outcome is recorded of the operation the request has claimed.
LEMMA RecordSteps ==
  ASSUME BInv, NEW c \in Requests, RecordSuccess(c) \/ RecordFailure(c)
  PROVE  History' /\ PushesOK' /\ RequestsOK'
<1>1. CASE UNCHANGED <<operations, jobs>> BY <1>1, ReturnSteps
<1>2. CASE RecordFailure(c) /\ Resolve(c, "FAILED")
  <2>1. PICK o \in Ops : o = requests[c].op /\ Off(o)
    BY <1>2 DEF RecordFailure, At, BInv, RequestsOK, RequestOK, Fits, Runs
  <2>. QED BY <1>2, <2>1, ResolveStep DEF RecordFailure, Resolve, Return, At, git
<1>3. CASE RecordSuccess(c) /\ Resolve(c, "SUCCEEDED")
                            /\ jobs' = [jobs EXCEPT ![requests[c].job] = ClosedIfReady(requests[c].job)]
  <2>1. PICK o \in Ops : o = requests[c].op /\ o \in reflog
    BY <1>3 DEF RecordSuccess, At, BInv, RequestsOK, RequestOK, Fits, Runs
  <2>2. \A j \in Jobs : jobs[j] = "CANCELLED" => jobs'[j] = "CANCELLED"
    BY <1>3 DEF ClosedIfReady, BInv, TypeOK
  <2>. QED BY <1>3, <2>1, <2>2, ResolveStep DEF RecordSuccess, Resolve, Return, At, git
<1>. QED BY <1>1, <1>2, <1>3 DEF RecordSuccess, RecordFailure
-----------------------------------------------------------------------------
(* Types                                                                     *)

\* There are as many numbers up to n as n.
LEMMA Counting == \A n \in Nat : IsFiniteSet(1..n) /\ Cardinality(1..n) = n
<1>. SUFFICES ASSUME NEW n \in Nat PROVE IsFiniteSet(1..n) /\ Cardinality(1..n) = n OBVIOUS
<1>1. /\ IsFiniteSet(1..n)
      /\ Cardinality(1..n) = IF 1 > n THEN 0 ELSE n - 1 + 1
  BY FS_Interval
<1>. QED BY <1>1

\* Every operation has an approval of its own, so there are no more of them.
LEMMA FewOperations == LedgerInv => Len(operations) <= Len(receipts)
<1>. SUFFICES ASSUME LedgerInv PROVE Len(operations) <= Len(receipts) OBVIOUS
<1>1. /\ Ops = 1..Len(operations) /\ Len(operations) \in Nat
      /\ DOMAIN receipts = 1..Len(receipts) /\ Len(receipts) \in Nat
  BY LenProperties DEF LedgerInv, LedgerTyped, Ops
<1>. DEFINE spends == [o \in Ops |-> operations[o].receipt]
<1>2. spends \in [Ops -> DOMAIN receipts] BY DEF LedgerInv, ApprovalsExist
<1>3. \A o1, o2 \in Ops : spends[o1] = spends[o2] => o1 = o2 BY DEF LedgerInv, ApprovalSpentOnce
<1>4. /\ IsFiniteSet(Ops) /\ Cardinality(Ops) = Len(operations)
      /\ IsFiniteSet(DOMAIN receipts) /\ Cardinality(DOMAIN receipts) = Len(receipts)
  BY <1>1, Counting
<1>. HIDE DEF spends
<1>5. ~(Cardinality(DOMAIN receipts) < Cardinality(Ops)) BY <1>2, <1>3, <1>4, FS_PigeonHole
<1>. QED BY <1>1, <1>4, <1>5

\* The types of what is not the ledger of approvals and operations.
Around ==
  /\ jobs \in [Jobs -> {"READY_FOR_INTEGRATION", "SUCCEEDED", "CANCELLED"}]
  /\ expected \in [Jobs -> Commit \cup {None}]
  /\ declined \subseteq Jobs /\ rollbacks \in [Jobs -> Nat]
  /\ requests \in [Requests -> Request]
  /\ alive \in BOOLEAN /\ lost \in BOOLEAN
  /\ branch \in [Projects -> Commit] /\ checkedOut \in [Projects -> BOOLEAN]
  /\ pushes \subseteq Push
  /\ outsideLeft \in Nat /\ crashesLeft \in Nat /\ lostLeft \in Nat

\* A call moves to a stage of its own or ends.
LEMMA Moves ==
  ASSUME requests \in [Requests -> Request], NEW c \in Requests,
         Return(c) \/ \E s \in Stages : Goto(c, s)
  PROVE  requests' \in [Requests -> Request]
<1>1. Idle \in Request BY EmptySeq DEF Idle, Request, Stages, Commit
<1>2. CASE Return(c) BY <1>1, <1>2 DEF Return
<1>3. ASSUME NEW s \in Stages, Goto(c, s) PROVE requests' \in [Requests -> Request]
  <2>1. [requests[c] EXCEPT !.stage = s] \in Request BY DEF Request
  <2>2. requests' = [requests EXCEPT ![c] = [requests[c] EXCEPT !.stage = s]] BY <1>3 DEF Goto
  <2>. QED BY <2>1, <2>2
<1>. QED BY <1>2, <1>3

\* A step of a request keeps the types of everything but the ledger.
LEMMA AroundAdvance ==
  ASSUME BInv, NEW c \in Requests, Advance(c)
  PROVE  Around'
<1>1. Around /\ requests[c] \in Request /\ RequestOK(c) BY DEF BInv, TypeOK, Around, RequestsOK
<1>2. CASE RecordProposal(c)
  <2>1. requests[c].job \in Jobs /\ requests[c].head \in Commit
    BY <1>1, <1>2 DEF RecordProposal, At, RequestOK, Fits, Request
  <2>2. expected' \in [Jobs -> Commit \cup {None}] BY <1>1, <1>2, <2>1 DEF RecordProposal, Around
  <2>. QED BY <1>1, <1>2, <2>2, Moves DEF RecordProposal, Around, git, world
<1>3. CASE Fail(c) \/ ListWorktrees(c) \/ CheckHead(c) \/ PrepareCandidate(c) \/ InspectHead(c) \/ ReadHead(c)
  <2>1. Return(c) \/ \E s \in Stages : Goto(c, s)
    BY <1>3 DEF Fail, ListWorktrees, CheckHead, PrepareCandidate, InspectHead, ReadHead, Stages
  <2>2. UNCHANGED <<ledger, git, world>>
    BY <1>3 DEF Fail, ListWorktrees, CheckHead, PrepareCandidate, InspectHead, ReadHead
  <2>. QED BY <1>1, <2>1, <2>2, Moves DEF Around, ledger, git, world
<1>4. CASE SendAdvance(c)
  <2>1. PICK o \in Ops : o = requests[c].op /\ operations[o].job = requests[c].job
    BY <1>1, <1>4 DEF SendAdvance, At, RequestOK, Fits, Runs, Unmoved
  <2>2. /\ requests[c].job \in Jobs /\ Project[requests[c].job] \in Projects /\ NewHead(o) \in Commit
    BY <2>1, Heads DEF BInv, History
  <2>3. HeadOf(c) \in Commit BY <1>1, <2>2 DEF Around, HeadOf
  <2>4. [by |-> c, project |-> Project[requests[c].job], old |-> HeadOf(c),
         new |-> NewHead(requests[c].op)] \in Push
    BY <2>1, <2>2, <2>3 DEF Push
  <2>5. pushes' \subseteq Push BY <1>1, <1>4, <2>4 DEF SendAdvance, Around
  <2>6. requests' \in [Requests -> Request] BY <1>1, <1>4, Moves DEF SendAdvance, Around, Stages
  <2>. QED BY <1>1, <1>4, <2>5, <2>6 DEF SendAdvance, Around, ledger, world
<1>5. CASE RecordSuccess(c)
  <2>1. jobs' \in [Jobs -> {"READY_FOR_INTEGRATION", "SUCCEEDED", "CANCELLED"}]
    BY <1>1, <1>5 DEF RecordSuccess, Around, ClosedIfReady
  <2>. QED BY <1>1, <1>5, <2>1, Moves DEF RecordSuccess, Around, git, world
<1>6. CASE RecordFailure(c)
  BY <1>1, <1>6, Moves DEF RecordFailure, Around, git, world
<1>7. CASE SendRollback(c)
  <2>1. CASE Return(c) /\ UNCHANGED pushes
    BY <1>1, <1>7, <2>1, Moves DEF SendRollback, Around, ledger, world
  <2>2. CASE ~(Return(c) /\ UNCHANGED pushes)
    <3>1. PICK j \in Jobs : j = requests[c].job /\ Integrated(j)
      BY <1>1, <1>7 DEF SendRollback, At, RequestOK, Fits, Undoes
    <3>2. PICK o \in Ops : operations[o].job = j BY <3>1 DEF Integrated, OpsOf
    <3>3. Project[j] \in Projects /\ expected[j] \in Commit
      BY <3>2, Heads DEF BInv, History, Base
    <3>4. HeadOf(c) \in Commit BY <1>1, <3>1, <3>3 DEF Around, HeadOf
    <3>5. [by |-> c, project |-> Project[j], old |-> HeadOf(c), new |-> expected[j]] \in Push
      BY <3>3, <3>4 DEF Push
    <3>6. pushes' \subseteq Push BY <1>1, <1>7, <2>2, <3>1, <3>5 DEF SendRollback, Around
    <3>7. requests' \in [Requests -> Request]
      BY <1>1, <1>7, <2>2, Moves DEF SendRollback, Around, Stages
    <3>. QED BY <1>1, <1>7, <3>6, <3>7 DEF SendRollback, Around, ledger, world
  <2>. QED BY <2>1, <2>2
<1>8. CASE RecordRollback(c) \/ RepairReceipt(c)
  <2>1. rollbacks' \in [Jobs -> Nat]
    BY <1>1, <1>8 DEF RecordRollback, RepairReceipt, Around
  <2>2. Return(c) \/ \E s \in Stages : Goto(c, s) BY <1>8 DEF RecordRollback, RepairReceipt, Stages
  <2>3. UNCHANGED <<jobs, expected, declined, git, world>> BY <1>8 DEF RecordRollback, RepairReceipt
  <2>. QED BY <1>1, <2>1, <2>2, <2>3, Moves DEF Around, git, world
<1>9. CASE ReconcileRow(c)
  <2>1. UNCHANGED <<ledger, git, world>> BY <1>9 DEF ReconcileRow
  <2>2. requests' \in [Requests -> Request]
    <3>1. CASE Return(c) BY <1>1, <3>1, Moves DEF Around
    <3>2. ASSUME NEW j \in requests[c].todo,
                 requests' = [requests EXCEPT ![c].todo = @ \ {j}, ![c].job = j,
                         ![c].stage = IF rollbacks[j] > 0 THEN @ ELSE "reading"]
          PROVE  requests' \in [Requests -> Request]
      <4>. DEFINE r == [requests[c] EXCEPT !.todo = @ \ {j}, !.job = j,
                         !.stage = IF rollbacks[j] > 0 THEN @ ELSE "reading"]
      <4>1. r \in Request BY <1>1 DEF Request, Stages
      <4>2. requests' = [requests EXCEPT ![c] = r] BY <1>1, <3>2 DEF Around
      <4>. HIDE DEF r
      <4>. QED BY <1>1, <4>1, <4>2 DEF Around
    <3>. QED BY <1>9, <3>1, <3>2 DEF ReconcileRow
  <2>. QED BY <1>1, <2>1, <2>2 DEF Around, ledger, git, world
<1>. QED BY <1>2, <1>3, <1>4, <1>5, <1>6, <1>7, <1>8, <1>9 DEF Advance

\* So does every step.
LEMMA AroundStep ==
  ASSUME BInv, [Next]_vars
  PROVE  Around'
<1>1. Around BY DEF BInv, TypeOK, Around
<1>2. ASSUME NEW c \in Requests, Reconcile(c) PROVE Around'
  <2>. DEFINE t == {j \in Jobs : Integrated(j)}
  <2>1. requests' = [requests EXCEPT ![c] = [Idle EXCEPT !.stage = "reconciling", !.todo = t]]
    BY <1>2 DEF Reconcile
  <2>2. t \subseteq Jobs OBVIOUS
  <2>. HIDE DEF t
  <2>3. [Idle EXCEPT !.stage = "reconciling", !.todo = t] \in Request
    BY <2>2, EmptySeq DEF Idle, Request, Stages, Commit
  <2>4. requests' \in [Requests -> Request] BY <1>1, <2>1, <2>3 DEF Around
  <2>. QED BY <1>1, <1>2, <2>4 DEF Reconcile, Around, ledger, git
<1>3. ASSUME NEW c \in Requests, NEW j \in Jobs, Propose(c, j) PROVE Around'
  <2>1. branch[Project[j]] \in Commit BY <1>1, IntegrationAssumption DEF Around
  <2>2. [Idle EXCEPT !.stage = "proposing", !.job = j, !.head = branch[Project[j]]] \in Request
    BY <2>1 DEF Idle, Request, Stages
  <2>3. requests' \in [Requests -> Request] BY <1>1, <1>3, <2>2 DEF Propose, Around
  <2>. QED BY <1>1, <1>3, <2>3 DEF Propose, Around, ledger, git, world
<1>4. ASSUME NEW c \in Requests, NEW j \in Jobs, Rollback(c, j) PROVE Around'
  <2>1. [Idle EXCEPT !.stage = "undoing", !.job = j] \in Request
    BY EmptySeq DEF Idle, Request, Stages, Commit
  <2>2. requests' \in [Requests -> Request] BY <1>1, <1>4, <2>1 DEF Rollback, Around
  <2>. QED BY <1>1, <1>4, <2>2 DEF Rollback, Around, ledger, git, world
<1>5. ASSUME NEW c \in Requests, NEW j \in Jobs, Claim(c, j) PROVE Around'
  <2>1. Len(operations) < MaxReceipts
    <3>1. LedgerInv' BY LedgerPreserved DEF BInv
    <3>2. (LedgerInv => Len(operations) <= Len(receipts))' BY FewOperations, PTL
    <3>3. receipts' = receipts BY <1>5 DEF Claim
    <3>4. PICK row : operations' = Append(operations, row) BY <1>5 DEF Claim
    <3>5. operations \in Seq(Operation \cup {row}) BY DEF BInv, TypeOK
    <3>6. Len(operations') = Len(operations) + 1 /\ Len(operations) \in Nat
      BY <3>4, <3>5, AppendProperties, LenProperties
    <3>7. Len(receipts) \in Nat /\ Len(receipts) <= MaxReceipts BY LenProperties DEF BInv, TypeOK
    <3>. QED BY <3>1, <3>2, <3>3, <3>6, <3>7, IntegrationAssumption
  <2>2. Len(operations) + 1 \in OpIds
    BY <2>1, LenProperties, IntegrationAssumption DEF BInv, TypeOK, OpIds
  <2>3. [Idle EXCEPT !.stage = "claimed", !.job = j, !.op = Len(operations) + 1] \in Request
    BY <2>2, EmptySeq DEF Idle, Request, Stages, Commit
  <2>4. requests' \in [Requests -> Request] BY <1>1, <1>5, <2>3 DEF Claim, Around
  <2>. QED BY <1>1, <1>5, <2>4 DEF Claim, Around, git, world
<1>6. ASSUME NEW push \in pushes, PushEnds(push) PROVE Around'
  <2>1. push \in Push BY <1>1 DEF Around
  <2>2. branch' \in [Projects -> Commit] BY <1>1, <1>6, <2>1 DEF PushEnds, Around, Push
  <2>3. PICK ok \in BOOLEAN : Reply(push, ok) BY <1>6 DEF PushEnds
  <2>4. requests' \in [Requests -> Request]
    <3>1. CASE push.by = None BY <1>1, <2>3, <3>1 DEF Reply, Around
    <3>2. CASE push.by # None
      <4>1. PICK c \in Requests : c = push.by BY <2>1, <3>2 DEF Push
      <4>2. Return(c) \/ \E s \in {"advanced", "undone", "refused"} : Goto(c, s)
        BY <2>3, <3>2, <4>1 DEF Reply, Return, Goto
      <4>. QED BY <1>1, <4>1, <4>2, Moves DEF Around, Stages
    <3>. QED BY <3>1, <3>2
  <2>. QED BY <1>1, <1>6, <2>2, <2>4 DEF PushEnds, Around, ledger, world
<1>7. ASSUME NEW p \in Projects, Outside(p) PROVE Around'
  <2>1. branch[p] \in Seq(OpIds \cup {0}) BY <1>1 DEF Around, Commit
  <2>2. Append(branch[p], 0) \in Commit /\ (branch[p] # <<>> => Front(branch[p]) \in Commit)
    BY <2>1, AppendLabels, FrontLabels DEF Commit
  <2>3. branch' \in [Projects -> Commit] /\ checkedOut' \in [Projects -> BOOLEAN]
    BY <1>1, <1>7, <2>2 DEF Outside, Around
  <2>4. outsideLeft' \in Nat BY <1>1, <1>7 DEF Outside, Around
  <2>. QED BY <1>1, <1>7, <2>3, <2>4 DEF Outside, Around, ledger
<1>8. CASE Crash
  <2>1. pushes' \subseteq Push
    <3>1. \A push \in pushes : [push EXCEPT !.by = None] \in Push BY <1>1 DEF Around, Push
    <3>. QED BY <1>8, <3>1 DEF Crash
  <2>2. Idle \in Request BY EmptySeq DEF Idle, Request, Stages, Commit
  <2>3. requests' \in [Requests -> Request] BY <1>8, <2>2 DEF Crash
  <2>4. crashesLeft' \in Nat BY <1>1, <1>8 DEF Crash, Around
  <2>5. alive' \in BOOLEAN BY <1>8 DEF Crash
  <2>. QED BY <1>1, <1>8, <2>1, <2>3, <2>4, <2>5 DEF Crash, Around, ledger
<1>9. ASSUME \/ \E j \in Jobs, h \in Principals : GrantApproval(j, h)
             \/ \E n \in 1..MaxReceipts : Expire(n)
             \/ \E j \in Jobs : DeclineIntegration(j)
             \/ Restart \/ UNCHANGED vars
      PROVE  Around'
  BY <1>1, <1>9 DEF GrantApproval, Expire, DeclineIntegration, Restart, vars, Around, ledger, git, world
<1>10. CASE AttemptLost
  BY <1>1, <1>10 DEF AttemptLost, Around, ledger, git
<1>. QED BY <1>2, <1>3, <1>4, <1>5, <1>6, <1>7, <1>8, <1>9, <1>10, AroundAdvance DEF Next

\* With the ledger, every step keeps all types.
LEMMA TypeStep ==
  ASSUME BInv, [Next]_vars
  PROVE  TypeOK'
<1>1. Around' BY AroundStep
<1>2. LedgerInv' BY LedgerPreserved DEF BInv
<1>3. (LedgerInv => Len(operations) <= Len(receipts))' BY FewOperations, PTL
<1>4. LedgerTyped /\ LedgerTyped' BY <1>2 DEF BInv, LedgerInv
<1>5. Ops \subseteq Ops'
  <2>1. CASE Judged BY <1>4, <2>1, Resolving
  <2>2. CASE Claimed
    <3>1. PICK row : operations' = Append(operations, row) BY <2>2 DEF Claimed
    <3>2. operations \in Seq(Operation \cup {row}) BY <1>4 DEF LedgerTyped
    <3>. QED BY <1>4, <3>1, <3>2, AppendProperties, LenProperties DEF Ops, LedgerTyped
  <2>3. CASE operations' = operations BY <2>3 DEF Ops
  <2>. QED BY <1>4, <2>1, <2>2, <2>3, LedgerStep DEF Granted, Expired
<1>6. reflog' \subseteq Ops'
  <2>1. CASE reflog' \subseteq reflog BY <1>5, <2>1 DEF BInv, TypeOK
  <2>2. ASSUME NEW push \in pushes, PushEnds(push) PROVE reflog' \subseteq Ops'
    <3>1. reflog \subseteq Ops BY DEF BInv, TypeOK
    <3>2. reflog' = reflog \/ \E o \in Ops : reflog' = reflog \cup {o} BY <2>2, PushMoves
    <3>. QED BY <1>5, <3>1, <3>2
  <2>3. ASSUME NEW c \in Requests, Advance(c) PROVE reflog' = reflog
    BY <2>3 DEF Advance, RecordProposal, Fail, ListWorktrees, CheckHead, PrepareCandidate, SendAdvance,
       RecordSuccess, InspectHead, RecordFailure, SendRollback, RecordRollback, ReconcileRow, ReadHead,
       RepairReceipt, git
  <2>4. ASSUME NEW c \in Requests, NEW j \in Jobs, Propose(c, j) \/ Claim(c, j) \/ Rollback(c, j)
        PROVE  reflog' = reflog
    BY <2>4 DEF Propose, Claim, Rollback, git
  <2>5. ASSUME NEW c \in Requests, Reconcile(c) PROVE reflog' = reflog BY <2>5 DEF Reconcile, git
  <2>6. ASSUME \/ \E j \in Jobs, h \in Principals : GrantApproval(j, h)
               \/ \E j \in Jobs : DeclineIntegration(j)
               \/ \E n \in 1..MaxReceipts : Expire(n)
               \/ \E p \in Projects : Outside(p)
               \/ Crash \/ Restart \/ AttemptLost \/ UNCHANGED vars
        PROVE  reflog' = reflog
    BY <2>6 DEF GrantApproval, DeclineIntegration, Expire, Outside, Crash, Restart, AttemptLost, git, vars
  <2>. QED BY <2>1, <2>2, <2>3, <2>4, <2>5, <2>6 DEF Next
<1>. QED BY <1>1, <1>2, <1>3, <1>4, <1>6 DEF Around, TypeOK, LedgerTyped
-----------------------------------------------------------------------------
\* The invariant holds before the first proposal.
LEMMA BranchInit == Init => BInv
<1>. SUFFICES ASSUME Init PROVE BInv OBVIOUS
<1>1. Ops = {} /\ Len(operations) = 0 /\ Len(receipts) = 0 BY EmptySeq DEF Init, Ops
<1>2. Idle \in Request /\ <<>> \in Commit BY EmptySeq DEF Idle, Request, Stages, Commit
<1>3. TypeOK
  <2>1. receipts \in Seq(Receipt) /\ operations \in Seq(Operation) BY EmptySeq DEF Init
  <2>2. Around BY <1>2, IntegrationAssumption DEF Init, Around
  <2>. QED BY <1>1, <2>1, <2>2, IntegrationAssumption DEF Init, TypeOK, Around
<1>4. History BY <1>1, EmptySeq DEF Init, History, Traced, Labels, OnePerJob, DeclineIsFinal
<1>5. PushesOK BY DEF Init, PushesOK
<1>6. RequestsOK BY DEF Init, RequestsOK, OneRunner, RequestOK, Fits, Idle, Runs, Undoes, Unmoved
<1>. QED BY <1>3, <1>4, <1>5, <1>6, LedgerInit DEF BInv

\* Every step keeps the ledger and git in agreement.
LEMMA BranchPreserved == BInv /\ [Next]_vars => BInv'
<1>. SUFFICES ASSUME BInv, [Next]_vars PROVE BInv' OBVIOUS
<1>1. LedgerInv' /\ TypeOK' BY TypeStep, LedgerPreserved DEF BInv
<1>2. History' /\ PushesOK' /\ RequestsOK'
  <2>1. ASSUME NEW c \in Requests, Advance(c) PROVE History' /\ PushesOK' /\ RequestsOK'
    BY <2>1, ProposalStep, RunSteps, AdvanceIsSent, RecordSteps, RollbackIsSent, ReturnSteps, LookSteps
    DEF Advance
  <2>2. ASSUME NEW c \in Requests, Reconcile(c) PROVE History' /\ PushesOK' /\ RequestsOK'
    BY <2>2, LookSteps
  <2>3. ASSUME NEW c \in Requests, NEW j \in Jobs, Propose(c, j) \/ Claim(c, j) \/ Rollback(c, j)
        PROVE  History' /\ PushesOK' /\ RequestsOK'
    BY <2>3, LookSteps, ClaimStep
  <2>. QED BY <2>1, <2>2, <2>3, AsideSteps, DeclineStep, PushStep, OutsideStep, CrashStep DEF Next
<1>. QED BY <1>1, <1>2 DEF BInv

\* The ledger, the branches, the pushes and the requests agree with one another.
THEOREM BranchInvariant == Spec => []BInv
BY BranchInit, BranchPreserved, PTL DEF Spec

\* What runIntegration, declineIntegration and the recovery of rollbacks record agrees with
\* what the branch has been through, whoever else pushed and whatever reply was lost.
THEOREM Records == Spec => []RecordsAgree
<1>1. BInv => RecordsAgree
  <2>. SUFFICES ASSUME BInv PROVE RecordsAgree OBVIOUS
  <2>1. TypeOK /\ DeclineIsFinal /\ \A o \in Ops : OpOK(o) BY DEF BInv, History
  <2>2. ASSUME NEW o \in Ops, Off(o) PROVE ~OnBranch(o)
    BY <2>2 DEF Off, OnBranch, Labels
  <2>3. OutcomeIsTrue BY <2>1, <2>2 DEF OutcomeIsTrue, OpOK, Success, Failed, Unsent
  <2>4. LandsOnce BY <2>1 DEF LandsOnce, BInv, History, OnePerJob, Failed, TypeOK
  <2>. QED BY <2>1, <2>3, <2>4 DEF RecordsAgree
<1>. QED BY <1>1, BranchInvariant, PTL

\* Two steps write rollback receipts.
LEMMA RollbackWriter ==
  ASSUME [Next]_vars, rollbacks' # rollbacks
  PROVE  \E c \in Requests : RecordRollback(c) \/ RepairReceipt(c)
<1>1. ASSUME NEW c \in Requests, Advance(c), ~RecordRollback(c), ~RepairReceipt(c)
      PROVE  rollbacks' = rollbacks
  BY <1>1 DEF Advance, RecordProposal, Fail, ListWorktrees, CheckHead, PrepareCandidate, SendAdvance,
     RecordSuccess, InspectHead, RecordFailure, SendRollback, ReconcileRow, ReadHead, ledger
<1>2. ASSUME NEW c \in Requests, Reconcile(c) PROVE rollbacks' = rollbacks
  BY <1>2 DEF Reconcile, ledger
<1>3. ASSUME NEW c \in Requests, NEW k \in Jobs, Propose(c, k) \/ Claim(c, k) \/ Rollback(c, k)
      PROVE  rollbacks' = rollbacks
  BY <1>3 DEF Propose, Claim, Rollback, ledger
<1>4. ASSUME \/ \E k \in Jobs, h \in Principals : GrantApproval(k, h)
             \/ \E k \in Jobs : DeclineIntegration(k)
             \/ \E n \in 1..MaxReceipts : Expire(n)
             \/ \E push \in pushes : PushEnds(push)
             \/ \E p \in Projects : Outside(p)
             \/ Crash \/ Restart \/ AttemptLost \/ UNCHANGED vars
      PROVE  rollbacks' = rollbacks
  BY <1>4 DEF GrantApproval, DeclineIntegration, Expire, PushEnds, Outside, Crash, Restart,
     AttemptLost, ledger, vars
<1>. QED BY <1>1, <1>2, <1>3, <1>4 DEF Next

\* Whichever of rollbackIntegration and reconcileRollbacks writes a rollback receipt, the
\* branch does not contain the change any more.
THEOREM RollbackReceipts == Spec => RollbackReceiptIsTrue
<1>1. BInv /\ [Next]_vars
        => [\A j \in Jobs : rollbacks'[j] > rollbacks[j] => ~OnBranch(LandedOp(j))]_vars
  <2>. SUFFICES ASSUME BInv, Next, NEW j \in Jobs, rollbacks'[j] > rollbacks[j]
                PROVE  ~OnBranch(LandedOp(j))
    OBVIOUS
  <2>1. rollbacks \in [Jobs -> Nat] BY DEF BInv, TypeOK
  <2>2. rollbacks' # rollbacks BY <2>1
  <2>3. PICK c \in Requests : RecordRollback(c) \/ RepairReceipt(c) BY <2>2, RollbackWriter
  <2>4. j = requests[c].job BY <2>1, <2>3 DEF RecordRollback, RepairReceipt
  <2>5. /\ Integrated(j)
        /\ \A o \in Ops : Success(o) /\ operations[o].job = j => Off(o)
    BY <2>3, <2>4 DEF RecordRollback, RepairReceipt, At, BInv, RequestsOK, RequestOK, Fits, Undoes
  <2>6. LandedOp(j) \in Ops /\ Success(LandedOp(j)) /\ operations[LandedOp(j)].job = j
    BY <2>5 DEF Integrated, LandedOp, OpsOf, Success
  <2>7. Off(LandedOp(j)) BY <2>5, <2>6
  <2>. QED BY <2>7 DEF Off, OnBranch, Labels
<1>. QED BY <1>1, BranchInvariant, PTL DEF Spec, RollbackReceiptIsTrue
-----------------------------------------------------------------------------
(***************************************************************************)
(* What is seen of it from outside.  The owner of a branch sees            *)
(* BranchAuthority: every step of the requests, pushes, developers and     *)
(* crashes is a step of that authority, or none at all.  The operator sees *)
(* BranchBriefing: what is said of finished work is true of the branch.    *)
(***************************************************************************)
\* The approvals of a job that can still be taken, and a commit as the authority sees it.
Live(j)  == {n \in DOMAIN receipts : Spendable(j, n)}
Named(s) == [i \in DOMAIN s |-> LabelJob(s[i])]

\* What the authority sees of a step.
Steps == Authority!Next \/ UNCHANGED Authority!vars
-----------------------------------------------------------------------------
\* What the authority sees of the branches and the approvals.
LEMMA View ==
  /\ AbstractHead = [p \in Projects |-> Named(branch[p])]
  /\ AbstractMandates = [j \in Jobs |-> Cardinality(Live(j))]
BY DEF AbstractHead, AbstractMandates, Named, Live

\* What has been appended to a sequence is its last element.
LEMMA FrontOfAppend ==
  ASSUME NEW S, NEW s \in Seq(S), NEW e \in S
  PROVE  /\ Append(s, e) # <<>> /\ Authority!Last(Append(s, e)) = e
         /\ Authority!Front(Append(s, e)) = s
<1>. DEFINE t == Append(s, e)
<1>1. /\ t \in Seq(S) /\ t # <<>> /\ Len(t) = Len(s) + 1 /\ Len(s) \in Nat
      /\ \A i \in 1..Len(s) : t[i] = s[i]
      /\ t[Len(s) + 1] = e
  BY AppendProperties, LenProperties
<1>. HIDE DEF t
<1>2. Authority!Last(t) = e BY <1>1 DEF Authority!Last
<1>3. Authority!Front(t) = SubSeq(t, 1, Len(s)) BY <1>1 DEF Authority!Front
<1>4. \A i \in 1..Len(s) : t[i] \in S BY <1>1, LenProperties
<1>5. /\ SubSeq(t, 1, Len(s)) \in Seq(S) /\ Len(SubSeq(t, 1, Len(s))) = Len(s)
      /\ \A i \in 1..Len(s) : SubSeq(t, 1, Len(s))[i] = s[i]
  BY <1>1, <1>4, SubSeqProperties
<1>6. SubSeq(t, 1, Len(s)) = s BY <1>1, <1>5, SeqEqual
<1>. QED BY <1>1, <1>2, <1>3, <1>6 DEF t

\* Labels are seen as jobs one by one.
LEMMA NamedAppend ==
  ASSUME NEW s \in Commit, NEW e \in OpIds \cup {0}
  PROVE  /\ Named(s) \in Seq({LabelJob(l) : l \in OpIds \cup {0}})
         /\ Named(Append(s, e)) = Append(Named(s), LabelJob(e))
<1>. DEFINE S == {LabelJob(l) : l \in OpIds \cup {0}}
            t == Append(s, e)
<1>1. /\ Len(s) \in Nat /\ DOMAIN s = 1..Len(s) /\ \A i \in 1..Len(s) : s[i] \in OpIds \cup {0}
  BY LenProperties DEF Commit
<1>2. /\ t \in Commit /\ Len(t) = Len(s) + 1 /\ t[Len(s) + 1] = e
      /\ \A i \in 1..Len(s) : t[i] = s[i]
  BY AppendProperties DEF Commit
<1>3. DOMAIN t = 1..Len(t) BY <1>2, LenProperties DEF Commit
<1>. HIDE DEF t
<1>4. Named(s) \in [1..Len(s) -> S] BY <1>1 DEF Named
<1>5. Named(s) \in Seq(S) /\ Len(Named(s)) = Len(s)
  <2>1. Named(s) \in Seq(S) BY <1>1, <1>4, SeqDef
  <2>2. DOMAIN Named(s) = 1..Len(Named(s)) /\ Len(Named(s)) \in Nat BY <2>1, LenProperties
  <2>. QED BY <1>1, <1>4, <2>1, <2>2
<1>6. \A i \in 1..Len(t) : t[i] \in OpIds \cup {0} BY <1>1, <1>2
<1>7. Named(t) \in [1..Len(t) -> S] BY <1>3, <1>6 DEF Named
<1>8. Named(t) \in Seq(S) /\ Len(Named(t)) = Len(t)
  <2>1. Named(t) \in Seq(S) BY <1>1, <1>2, <1>7, SeqDef
  <2>2. DOMAIN Named(t) = 1..Len(Named(t)) /\ Len(Named(t)) \in Nat BY <2>1, LenProperties
  <2>. QED BY <1>1, <1>2, <1>7, <2>1, <2>2
<1>9. LabelJob(e) \in S OBVIOUS
<1>. DEFINE u == Append(Named(s), LabelJob(e))
<1>10. /\ u \in Seq(S) /\ Len(u) = Len(s) + 1 /\ u[Len(s) + 1] = LabelJob(e)
       /\ \A i \in 1..Len(s) : u[i] = Named(s)[i]
  BY <1>5, <1>9, AppendProperties
<1>. HIDE DEF S, u
<1>11. \A i \in 1..Len(s) : Named(t)[i] = LabelJob(s[i]) /\ Named(s)[i] = LabelJob(s[i])
  BY <1>1, <1>2, <1>3 DEF Named
<1>12. Named(t)[Len(s) + 1] = LabelJob(e) BY <1>1, <1>2, <1>3 DEF Named
<1>13. \A i \in 1..Len(t) : Named(t)[i] = u[i] BY <1>1, <1>2, <1>10, <1>11, <1>12
<1>14. Named(t) = u BY <1>2, <1>8, <1>10, <1>13, SeqEqual
<1>. QED BY <1>5, <1>14 DEF S, t, u
-----------------------------------------------------------------------------
\* A step that neither grants nor takes approvals, writes no outcome and moves no branch
\* is none to the authority.
LEMMA Unseen ==
  ASSUME UNCHANGED <<receipts, operations, branch, reflog, outsideLeft>>
  PROVE  Steps
<1>1. Ops' = Ops /\ Unresolved' = Unresolved BY DEF Ops, Unresolved
<1>2. AbstractHead' = AbstractHead BY DEF AbstractHead, LabelJob
<1>3. AbstractMandates' = AbstractMandates
  BY <1>1 DEF AbstractMandates, Spendable, Unspent, Consumed
<1>4. AbstractHolder' = AbstractHolder BY <1>1 DEF AbstractHolder
<1>5. AbstractSpent' = AbstractSpent BY <1>1 DEF AbstractSpent
<1>6. AbstractDone' = AbstractDone BY <1>1 DEF AbstractDone, Integrated, OpsOf
<1>. QED BY <1>2, <1>3, <1>4, <1>5, <1>6 DEF Steps, Authority!vars

\* A job has a number of approvals.
LEMMA LiveFinite ==
  ASSUME LedgerTyped, NEW j
  PROVE  IsFiniteSet(Live(j)) /\ Cardinality(Live(j)) \in Nat
<1>1. DOMAIN receipts = 1..Len(receipts) /\ Len(receipts) \in Nat BY LenProperties DEF LedgerTyped
<1>2. IsFiniteSet(DOMAIN receipts) BY <1>1, Counting
<1>3. Live(j) \in SUBSET DOMAIN receipts BY DEF Live
<1>4. IsFiniteSet(Live(j)) BY <1>2, <1>3, FS_Subset
<1>. QED BY <1>4, FS_CardinalityType

\* The open operation is the one the authority knows.
LEMMA Holds ==
  ASSUME BInv
  PROVE  /\ \A o \in Ops : Open(o) => /\ AbstractHolder = operations[o].job
                                      /\ AbstractSpent <=> o \in reflog
         /\ Unresolved = {} => AbstractHolder = None /\ ~AbstractSpent
         /\ AbstractDone = {j \in Jobs : Integrated(j)}
<1>1. ASSUME NEW o \in Ops, Open(o)
      PROVE  AbstractHolder = operations[o].job /\ (AbstractSpent <=> o \in reflog)
  <2>1. o \in Unresolved BY <1>1 DEF Unresolved, Open
  <2>2. Unresolved = {o} BY <2>1 DEF BInv, LedgerInv, SerialIntegration
  <2>. QED BY <2>2 DEF AbstractHolder, AbstractSpent
<1>. QED BY <1>1 DEF AbstractHolder, AbstractSpent, AbstractDone

\* An approval is a mandate.
LEMMA GrantRefines ==
  ASSUME BInv, NEW j \in Jobs, NEW h \in Principals, GrantApproval(j, h)
  PROVE  Steps
<1>1. /\ receipts' = Append(receipts, [job |-> j, principal |-> h, expired |-> FALSE])
      /\ UNCHANGED <<operations, branch, reflog, outsideLeft>> /\ LedgerTyped
  BY DEF GrantApproval, git, world, BInv, LedgerInv
<1>2. PICK row : row = [job |-> j, principal |-> h, expired |-> FALSE] OBVIOUS
<1>3. row.job = j /\ row.expired = FALSE BY <1>2
<1>4. PICK n \in Nat : n = Len(receipts) + 1 BY <1>1, LenProperties DEF LedgerTyped
<1>5. /\ DOMAIN receipts = 1..Len(receipts) /\ DOMAIN receipts' = 1..n /\ Len(receipts) \in Nat
      /\ \A m \in DOMAIN receipts : receipts'[m] = receipts[m]
      /\ receipts'[n].job = j /\ receipts'[n].expired = FALSE
  <2>1. receipts \in Seq(Receipt \cup {row}) BY <1>1 DEF LedgerTyped
  <2>2. /\ receipts' \in Seq(Receipt \cup {row}) /\ Len(receipts') = n
        /\ \A m \in 1..Len(receipts) : receipts'[m] = receipts[m]
        /\ receipts'[n] = row
    BY <1>1, <1>2, <1>4, <2>1, AppendProperties
  <2>. QED BY <1>3, <1>4, <2>1, <2>2, LenProperties
<1>6. Ops' = Ops /\ \A m : Consumed(m)' <=> Consumed(m) BY <1>1 DEF Ops, Consumed
<1>7. ~Consumed(n) BY <1>4, <1>5 DEF Consumed, BInv, LedgerInv, ApprovalsExist
<1>8. \A k \in Jobs : Live(k)' = IF k = j THEN Live(k) \cup {n} ELSE Live(k)
  <2>1. ASSUME NEW k \in Jobs, NEW m \in 1..n
        PROVE  Spendable(k, m)' <=> IF m = n THEN k = j ELSE m \in DOMAIN receipts /\ Spendable(k, m)
    <3>1. CASE m = n BY <1>5, <1>6, <1>7, <3>1 DEF Spendable, Unspent
    <3>2. CASE m # n
      <4>1. m \in DOMAIN receipts BY <1>4, <1>5, <3>2
      <4>. QED BY <1>5, <1>6, <3>2, <4>1 DEF Spendable, Unspent
    <3>. QED BY <3>1, <3>2
  <2>2. n \notin DOMAIN receipts /\ DOMAIN receipts \subseteq 1..n /\ n \in 1..n BY <1>4, <1>5
  <2>. QED BY <1>5, <2>1, <2>2 DEF Live
<1>9. n \notin Live(j) BY <1>4, <1>5 DEF Live
<1>10. \A k \in Jobs : Cardinality(Live(k)') = IF k = j THEN Cardinality(Live(k)) + 1
                                               ELSE Cardinality(Live(k))
  BY <1>1, <1>8, <1>9, LiveFinite, FS_AddElement
<1>11. AbstractMandates' = [AbstractMandates EXCEPT ![j] = @ + 1]
  <2>1. AbstractMandates' = [k \in Jobs |-> Cardinality(Live(k)')] BY DEF AbstractMandates, Live
  <2>. QED BY <1>10, <2>1, View
<1>12. UNCHANGED <<AbstractHead, AbstractHolder, AbstractSpent, AbstractDone>>
  BY <1>1, <1>6 DEF AbstractHead, LabelJob, AbstractHolder, AbstractSpent, AbstractDone, Integrated, OpsOf,
     Unresolved
<1>13. (MaxOutside - outsideLeft)' = MaxOutside - outsideLeft BY <1>1
<1>14. Authority!Grant(j) BY <1>11, <1>12, <1>13 DEF Authority!Grant
<1>. QED BY <1>14 DEF Steps, Authority!Next

\* One that can still be taken lapses when it expires.
LEMMA ExpireRefines ==
  ASSUME BInv, NEW n \in 1..MaxReceipts, Expire(n)
  PROVE  Steps
<1>1. /\ n \in DOMAIN receipts /\ receipts' = [receipts EXCEPT ![n].expired = TRUE]
      /\ UNCHANGED <<operations, branch, reflog, outsideLeft>> /\ LedgerTyped
  BY DEF Expire, git, world, BInv, LedgerInv
<1>2. receipts[n] \in Receipt BY <1>1 DEF LedgerTyped
<1>3. PICK j \in Jobs : j = receipts[n].job BY <1>2 DEF Receipt
<1>4. /\ DOMAIN receipts' = DOMAIN receipts
      /\ \A m \in DOMAIN receipts : m # n => receipts'[m] = receipts[m]
      /\ receipts'[n].expired = TRUE
  BY <1>1, <1>2 DEF Receipt
<1>5. Ops' = Ops /\ \A m : Consumed(m)' <=> Consumed(m) BY <1>1 DEF Ops, Consumed
<1>6. \A k \in Jobs : Live(k)' = Live(k) \ {n}
  <2>1. ASSUME NEW k \in Jobs, NEW m \in DOMAIN receipts
        PROVE  Spendable(k, m)' <=> m # n /\ Spendable(k, m)
    BY <1>4, <1>5 DEF Spendable, Unspent
  <2>. QED BY <1>4, <2>1 DEF Live
<1>7. \A k \in Jobs : Cardinality(Live(k)') = IF n \in Live(k) THEN Cardinality(Live(k)) - 1
                                               ELSE Cardinality(Live(k))
  BY <1>1, <1>6, LiveFinite, FS_RemoveElement
<1>8. \A k \in Jobs : k # j => n \notin Live(k) BY <1>3 DEF Live, Spendable
<1>9. AbstractMandates' = [k \in Jobs |-> Cardinality(Live(k)')] BY DEF AbstractMandates, Live
<1>10. UNCHANGED <<AbstractHead, AbstractHolder, AbstractSpent, AbstractDone>>
  BY <1>1, <1>5 DEF AbstractHead, LabelJob, AbstractHolder, AbstractSpent, AbstractDone, Integrated, OpsOf,
     Unresolved
<1>11. (MaxOutside - outsideLeft)' = MaxOutside - outsideLeft BY <1>1
<1>12. CASE n \in Live(j)
  <2>1. AbstractMandates' = [AbstractMandates EXCEPT ![j] = @ - 1] BY <1>7, <1>8, <1>9, <1>12, View
  <2>2. AbstractMandates[j] > 0 BY <1>1, <1>12, LiveFinite, View, FS_EmptySet
  <2>3. Authority!Lapse(j) BY <1>10, <1>11, <2>1, <2>2 DEF Authority!Lapse
  <2>. QED BY <2>3 DEF Steps, Authority!Next
<1>13. CASE n \notin Live(j)
  <2>1. AbstractMandates' = AbstractMandates BY <1>7, <1>8, <1>9, <1>13, View
  <2>. QED BY <1>10, <1>11, <2>1 DEF Steps, Authority!vars
<1>. QED BY <1>12, <1>13
\* The head of the authority is the branch, also when operations are added or closed: what
\* is on a branch is an operation already, and of the same job for ever.
LEMMA HeadStays ==
  ASSUME BInv, UNCHANGED <<branch, reflog>>, \A o \in Ops : operations'[o].job = operations[o].job
  PROVE  AbstractHead' = AbstractHead
<1>1. ASSUME NEW p \in Projects, NEW i \in DOMAIN branch[p] PROVE LabelJob(branch[p][i])' = LabelJob(branch[p][i])
  <2>1. branch[p][i] \in Labels(branch[p]) BY DEF Labels
  <2>2. branch[p][i] # 0 => branch[p][i] \in Ops
    BY <2>1 DEF BInv, History, Traced, TypeOK
  <2>. QED BY <2>2 DEF LabelJob
<1>. QED BY <1>1 DEF AbstractHead

\* A claim takes a mandate and opens the integration of its job.
LEMMA ClaimRefines ==
  ASSUME BInv, BInv', NEW c \in Requests, NEW j \in Jobs, Claim(c, j)
  PROVE  Steps
<1>0. LedgerTyped BY DEF BInv, LedgerInv
<1>1. /\ UNCHANGED <<receipts, branch, reflog, outsideLeft>> /\ ~Integrated(j) /\ Unresolved = {}
  BY DEF Claim, git, world, MayStart
<1>2. PICK n \in DOMAIN receipts :
        /\ Spendable(j, n)
        /\ \E row \in Operation : /\ operations' = Append(operations, row)
                                  /\ row.job = j /\ row.receipt = n /\ row.outcome = "none"
  BY <1>0, ClaimedRow DEF Claim
<1>3. PICK new \in Nat : new = Len(operations) + 1 BY <1>0, LenProperties DEF LedgerTyped
<1>4. /\ Ops' = Ops \cup {new} /\ new \notin Ops
      /\ \A o \in Ops : operations'[o] = operations[o]
      /\ operations'[new].job = j /\ operations'[new].outcome = "none" /\ operations'[new].receipt = n
  BY <1>0, <1>2, <1>3, NewOperation
<1>5. \A m : Consumed(m)' <=> Consumed(m) \/ m = n BY <1>4 DEF Consumed
<1>6. \A k \in Jobs : Live(k)' = IF k = j THEN Live(k) \ {n} ELSE Live(k)
  <2>1. ASSUME NEW k \in Jobs, NEW m \in DOMAIN receipts
        PROVE  Spendable(k, m)' <=> m # n /\ Spendable(k, m)
    BY <1>1, <1>5 DEF Spendable, Unspent
  <2>2. \A k \in Jobs : k # j => n \notin Live(k) BY <1>2 DEF Live, Spendable
  <2>. QED BY <1>1, <2>1, <2>2 DEF Live
<1>7. n \in Live(j) BY <1>2 DEF Live
<1>8. \A k \in Jobs : Cardinality(Live(k)') = IF k = j THEN Cardinality(Live(k)) - 1
                                              ELSE Cardinality(Live(k))
  BY <1>0, <1>6, <1>7, LiveFinite, FS_RemoveElement
<1>9. AbstractMandates' = [AbstractMandates EXCEPT ![j] = @ - 1]
  <2>1. AbstractMandates' = [k \in Jobs |-> Cardinality(Live(k)')] BY DEF AbstractMandates, Live
  <2>. QED BY <1>8, <2>1, View
<1>10. AbstractMandates[j] > 0 BY <1>0, <1>7, LiveFinite, View, FS_EmptySet
<1>11. AbstractHead' = AbstractHead BY <1>1, <1>4, HeadStays
<1>12. AbstractHolder = None /\ ~AbstractSpent /\ j \notin AbstractDone BY <1>1, Holds
<1>13. Unresolved' = {new} BY <1>1, <1>4 DEF Unresolved
<1>14. AbstractHolder' = j BY <1>4, <1>13 DEF AbstractHolder
<1>15. new \notin reflog BY <1>4 DEF BInv, TypeOK
<1>16. AbstractSpent' = AbstractSpent
  <2>1. AbstractSpent' = FALSE BY <1>1, <1>13, <1>15 DEF AbstractSpent
  <2>2. AbstractSpent = FALSE BY <1>1 DEF AbstractSpent
  <2>. QED BY <2>1, <2>2
<1>17. \A k \in Jobs : Integrated(k)' <=> Integrated(k) BY <1>4 DEF Integrated, OpsOf
<1>18. AbstractDone' = AbstractDone BY <1>17 DEF AbstractDone
<1>19. (MaxOutside - outsideLeft)' = MaxOutside - outsideLeft BY <1>1
<1>20. Authority!Open(j) BY <1>9, <1>10, <1>11, <1>12, <1>14, <1>16, <1>18, <1>19 DEF Authority!Open
<1>. QED BY <1>20 DEF Steps, Authority!Next

\* A terminal record ends the integration of its job.
LEMMA RecordRefines ==
  ASSUME BInv, NEW c \in Requests, RecordSuccess(c) \/ RecordFailure(c)
  PROVE  Steps
<1>0. LedgerTyped BY DEF BInv, LedgerInv
<1>1. UNCHANGED <<receipts, branch, reflog, outsideLeft>>
  BY DEF RecordSuccess, RecordFailure, git, world
<1>2. CASE UNCHANGED operations BY <1>1, <1>2, Unseen
<1>3. CASE ~UNCHANGED operations
  <2>1. PICK o \in Ops, v \in {"SUCCEEDED", "FAILED"} :
          /\ operations' = [operations EXCEPT ![o].outcome = v] /\ Open(o)
          /\ v = "SUCCEEDED" => o \in reflog
          /\ v = "FAILED" => Off(o)
    BY <1>3 DEF RecordSuccess, RecordFailure, Resolve, At, BInv, RequestsOK, RequestOK, Fits, Runs
  <2>2. /\ Ops' = Ops
        /\ \A x \in Ops : /\ operations'[x].job = operations[x].job
                          /\ operations'[x].receipt = operations[x].receipt
                          /\ x # o => operations'[x] = operations[x]
        /\ operations'[o].outcome = v
    BY <1>0, <2>1, ClosedOperation
  <2>3. PICK j \in Jobs : j = operations[o].job BY Heads DEF BInv, History
  <2>4. AbstractHolder = j /\ (AbstractSpent <=> o \in reflog) BY <2>1, <2>3, Holds
  <2>5. Unresolved' = {}
    <3>1. \A x \in Ops : Open(x) => x = o
      BY <2>1 DEF BInv, LedgerInv, SerialIntegration, Unresolved, Open
    <3>. QED BY <2>1, <2>2, <3>1 DEF Unresolved, Open
  <2>6. AbstractHolder' = None BY <2>5 DEF AbstractHolder
  <2>7. AbstractSpent' = FALSE BY <2>5 DEF AbstractSpent
  <2>8. AbstractHead' = AbstractHead BY <1>1, <2>2, HeadStays
  <2>9. AbstractMandates' = AbstractMandates
    <3>1. \A m : Consumed(m)' <=> Consumed(m) BY <2>2 DEF Consumed
    <3>. QED BY <1>1, <3>1 DEF AbstractMandates, Spendable, Unspent
  <2>10. \A k \in Jobs : Integrated(k)' <=> Integrated(k) \/ (k = j /\ v = "SUCCEEDED")
    BY <2>1, <2>2, <2>3 DEF Integrated, OpsOf, Open
  <2>11. (MaxOutside - outsideLeft)' = MaxOutside - outsideLeft BY <1>1
  <2>12. CASE v = "SUCCEEDED"
    <3>1. AbstractDone' = AbstractDone \cup {j} BY <2>10, <2>12 DEF AbstractDone
    <3>2. AbstractSpent BY <2>1, <2>4, <2>12
    <3>3. Authority!Succeed(j)
      BY <2>4, <2>6, <2>7, <2>8, <2>9, <2>11, <3>1, <3>2 DEF Authority!Succeed
    <3>. QED BY <3>3 DEF Steps, Authority!Next
  <2>13. CASE v = "FAILED"
    <3>1. AbstractDone' = AbstractDone BY <2>10, <2>13 DEF AbstractDone
    <3>2. PICK p \in Projects : p = Project[j] BY IntegrationAssumption
    <3>3. ASSUME NEW i \in DOMAIN branch[p] PROVE LabelJob(branch[p][i]) # j
      <4>1. PICK l : l = branch[p][i] /\ l \in Labels(branch[p]) BY DEF Labels
      <4>2. CASE l = 0 BY <4>1, <4>2, IntegrationAssumption DEF LabelJob
      <4>3. CASE l # 0
        <5>1. l \in Ops /\ Project[operations[l].job] = p
          BY <4>1, <4>3 DEF BInv, History, Traced, TypeOK
        <5>2. ~Off(l) BY <4>1, <5>1 DEF Off
        <5>3. ~Failed(l) BY <5>1, <5>2 DEF BInv, History, OpOK
        <5>4. ~Failed(o) BY <2>1 DEF Open, Failed
        <5>5. l # o BY <2>1, <2>13, <5>2
        <5>6. operations[l].job # j BY <2>3, <5>1, <5>3, <5>4, <5>5 DEF BInv, History, OnePerJob
        <5>. QED BY <4>1, <4>3, <5>6 DEF LabelJob
      <4>. QED BY <4>2, <4>3
    <3>4. \A i \in DOMAIN AbstractHead[Project[j]] : AbstractHead[Project[j]][i] # j
      BY <3>2, <3>3 DEF AbstractHead
    <3>5. Authority!GiveUp(j)
      BY <2>4, <2>6, <2>7, <2>8, <2>9, <2>11, <3>1, <3>4 DEF Authority!GiveUp
    <3>. QED BY <3>5 DEF Steps, Authority!Next
  <2>. QED BY <2>12, <2>13
<1>. QED BY <1>2, <1>3
\* A push that moves the branch lands the open integration or takes one off that is done.
LEMMA PushRefines ==
  ASSUME BInv, NEW push \in pushes, PushEnds(push)
  PROVE  Steps
<1>1. UNCHANGED <<receipts, operations, outsideLeft>> BY DEF PushEnds, ledger, world
<1>2. PICK o \in Ops, p \in Projects :
        /\ p = Project[operations[o].job] /\ push.project = p
        /\ \/ UNCHANGED <<branch, reflog>> /\ (Advancing(push, o) \/ Undoing(push, o))
           \/ /\ Advancing(push, o) /\ branch[p] = Base(o)
              /\ branch' = [branch EXCEPT ![p] = NewHead(o)] /\ reflog' = reflog \cup {o}
           \/ /\ Undoing(push, o) /\ branch[p] = NewHead(o)
              /\ branch' = [branch EXCEPT ![p] = Base(o)] /\ reflog' = reflog
  BY PushMoves
<1>3. CASE UNCHANGED <<branch, reflog>> BY <1>1, <1>3, Unseen
<1>4. PICK j \in Jobs : j = operations[o].job /\ Project[j] = p BY <1>2, Heads DEF BInv, History
<1>5. Base(o) \in Commit /\ o \in OpIds \cup {0} /\ o # 0 BY Heads DEF BInv, History
<1>6. /\ Named(NewHead(o)) = Append(Named(Base(o)), j)
      /\ \E S : Named(Base(o)) \in Seq(S) /\ j \in S
  <2>1. NewHead(o) = Append(Base(o), o) BY DEF NewHead, Base
  <2>2. LabelJob(o) = j BY <1>4, <1>5 DEF LabelJob
  <2>3. j \in {LabelJob(l) : l \in OpIds \cup {0}} BY <1>5, <2>2
  <2>. QED BY <1>5, <2>1, <2>2, <2>3, NamedAppend
<1>7. /\ Ops' = Ops /\ Unresolved' = Unresolved
      /\ UNCHANGED <<AbstractMandates, AbstractHolder, AbstractDone>>
  BY <1>1 DEF AbstractMandates, Spendable, Unspent, Consumed, AbstractHolder, AbstractDone, Integrated, OpsOf,
     Unresolved, Ops
<1>8. (MaxOutside - outsideLeft)' = MaxOutside - outsideLeft BY <1>1
<1>9. ASSUME NEW new, branch' = [branch EXCEPT ![p] = new]
      PROVE  AbstractHead' = [AbstractHead EXCEPT ![p] = Named(new)]
  <2>1. \A l : LabelJob(l)' = LabelJob(l) BY <1>1 DEF LabelJob
  <2>2. AbstractHead' = [x \in Projects |-> Named(branch'[x])] BY <2>1 DEF AbstractHead, Named
  <2>3. \A x \in Projects : branch'[x] = IF x = p THEN new ELSE branch[x] BY <1>9 DEF BInv, TypeOK
  <2>. QED BY <2>2, <2>3, View
<1>10. AbstractHead[p] = Named(branch[p]) BY View
<1>11. CASE /\ Advancing(push, o) /\ branch[p] = Base(o)
            /\ branch' = [branch EXCEPT ![p] = NewHead(o)] /\ reflog' = reflog \cup {o}
  <2>1. Open(o) /\ o \notin reflog BY <1>11 DEF Advancing
  <2>2. AbstractHolder = j /\ ~AbstractSpent BY <1>4, <2>1, Holds
  <2>3. AbstractSpent' = TRUE BY <1>7, <1>11, <2>1 DEF AbstractSpent, Unresolved, Open
  <2>4. PICK new : new = NewHead(o) OBVIOUS
  <2>5. AbstractHead' = [AbstractHead EXCEPT ![p] = Named(new)] BY <1>9, <1>11, <2>4
  <2>6. AbstractHead' = [AbstractHead EXCEPT ![Project[j]] = Append(@, j)]
    BY <1>4, <1>6, <1>10, <1>11, <2>4, <2>5
  <2>7. Authority!Land(j) BY <1>7, <1>8, <2>2, <2>3, <2>6 DEF Authority!Land
  <2>. QED BY <2>7 DEF Steps, Authority!Next
<1>12. CASE /\ Undoing(push, o) /\ branch[p] = NewHead(o)
            /\ branch' = [branch EXCEPT ![p] = Base(o)] /\ reflog' = reflog
  <2>1. j \in AbstractDone
    BY <1>4, <1>12 DEF Undoing, Success, AbstractDone, Integrated, OpsOf
  <2>2. AbstractHead[p] = Append(Named(Base(o)), j) BY <1>6, <1>10, <1>12
  <2>3. /\ AbstractHead[p] # <<>> /\ Authority!Last(AbstractHead[p]) = j
        /\ Authority!Front(AbstractHead[p]) = Named(Base(o))
    BY <1>6, <2>2, FrontOfAppend
  <2>4. PICK new : new = Base(o) OBVIOUS
  <2>5. AbstractHead' = [AbstractHead EXCEPT ![p] = Named(new)] BY <1>9, <1>12, <2>4
  <2>6. AbstractHead' = [AbstractHead EXCEPT ![Project[j]] = Authority!Front(@)]
    BY <1>4, <2>3, <2>4, <2>5
  <2>7. AbstractSpent' = AbstractSpent BY <1>7, <1>12 DEF AbstractSpent
  <2>8. Authority!TakeOff(j) BY <1>4, <1>7, <1>8, <2>1, <2>3, <2>6, <2>7 DEF Authority!TakeOff
  <2>. QED BY <2>8 DEF Steps, Authority!Next
<1>. QED BY <1>2, <1>3, <1>11, <1>12

\* What a developer does is outside work on one branch.
LEMMA OutsideRefines ==
  ASSUME BInv, NEW p \in Projects, Outside(p)
  PROVE  Steps
<1>1. UNCHANGED <<receipts, operations, reflog>> BY DEF Outside, ledger
<1>2. (MaxOutside - outsideLeft)' = (MaxOutside - outsideLeft) + 1
  BY IntegrationAssumption DEF Outside, BInv, TypeOK
<1>3. Ops' = Ops /\ Unresolved' = Unresolved BY <1>1 DEF Ops, Unresolved
<1>4. UNCHANGED <<AbstractMandates, AbstractHolder, AbstractSpent, AbstractDone>>
  BY <1>1, <1>3 DEF AbstractMandates, Spendable, Unspent, Consumed, AbstractHolder, AbstractSpent,
     AbstractDone, Integrated, OpsOf
<1>5. \A q \in Projects \ {p} : branch'[q] = branch[q] BY DEF Outside, BInv, TypeOK
<1>6. \A q \in Projects \ {p} : AbstractHead'[q] = AbstractHead[q]
  BY <1>1, <1>5 DEF AbstractHead, LabelJob
<1>7. Authority!Outside BY <1>2, <1>4, <1>6 DEF Authority!Outside
<1>. QED BY <1>7 DEF Steps, Authority!Next

\* The other steps are none to the authority.
LEMMA OtherRefines ==
  ASSUME BInv,
         \/ \E c \in Requests : Reconcile(c) \/ (Advance(c) /\ ~RecordSuccess(c) /\ ~RecordFailure(c))
         \/ \E c \in Requests, j \in Jobs : Propose(c, j) \/ Rollback(c, j)
         \/ \E j \in Jobs : DeclineIntegration(j)
         \/ Crash \/ Restart \/ AttemptLost \/ UNCHANGED vars
  PROVE  Steps
<1>1. ASSUME NEW c \in Requests, Advance(c), ~RecordSuccess(c), ~RecordFailure(c)
      PROVE  UNCHANGED <<receipts, operations, branch, reflog, outsideLeft>>
  BY <1>1 DEF Advance, RecordProposal, Fail, ListWorktrees, CheckHead, PrepareCandidate, SendAdvance,
     InspectHead, SendRollback, RecordRollback, ReconcileRow, ReadHead, RepairReceipt, ledger, git, world
<1>2. ASSUME NEW c \in Requests, Reconcile(c)
      PROVE  UNCHANGED <<receipts, operations, branch, reflog, outsideLeft>>
  BY <1>2 DEF Reconcile, ledger, git
<1>3. ASSUME NEW c \in Requests, NEW j \in Jobs, Propose(c, j) \/ Rollback(c, j)
      PROVE  UNCHANGED <<receipts, operations, branch, reflog, outsideLeft>>
  BY <1>3 DEF Propose, Rollback, ledger, git, world
<1>4. ASSUME \/ \E j \in Jobs : DeclineIntegration(j)
             \/ Crash \/ Restart \/ AttemptLost \/ UNCHANGED vars
      PROVE  UNCHANGED <<receipts, operations, branch, reflog, outsideLeft>>
  BY <1>4 DEF DeclineIntegration, Crash, Restart, AttemptLost, ledger, git, world, vars
<1>. QED BY <1>1, <1>2, <1>3, <1>4, Unseen

\* The authority starts where the integrator does.
LEMMA InitRefines == Init => Authority!Init
<1>. SUFFICES ASSUME Init PROVE Authority!Init OBVIOUS
<1>1. Ops = {} /\ DOMAIN receipts = {} BY DEF Init, Ops
<1>2. AbstractHead = [p \in Projects |-> <<>>]
  <2>1. Named(<<>>) = <<>>
    <3>1. Named(<<>>) \in [1..0 -> {}] BY DEF Named
    <3>2. Named(<<>>) \in Seq({}) BY <3>1, SeqDef
    <3>3. Len(Named(<<>>)) = 0 BY <3>1, <3>2, LenProperties
    <3>. QED BY <3>2, <3>3, EmptySeq
  <2>. QED BY <2>1, View DEF Init
<1>3. AbstractMandates = [j \in Jobs |-> 0] BY <1>1, View, FS_EmptySet DEF Live
<1>4. AbstractHolder = None /\ AbstractSpent = FALSE /\ AbstractDone = {}
  BY <1>1 DEF AbstractHolder, AbstractSpent, AbstractDone, Unresolved, Integrated, OpsOf
<1>5. MaxOutside - outsideLeft = 0 BY IntegrationAssumption DEF Init
<1>. QED BY <1>2, <1>3, <1>4, <1>5 DEF Authority!Init

\* Apart from what developers do to it, an integration branch moves only to apply the
\* candidate of the one open integration, once per approval granted and never after it was
\* reported integrated, or to take an integrated candidate off again.
THEOREM Refines == Spec => AuthoritySpec
<1>1. BInv /\ BInv' /\ [Next]_vars => [Authority!Next]_Authority!vars
  <2>. SUFFICES ASSUME BInv, BInv', [Next]_vars PROVE Steps BY DEF Steps
  <2>1. ASSUME NEW c \in Requests, NEW j \in Jobs, Propose(c, j) \/ Claim(c, j) \/ Rollback(c, j)
        PROVE  Steps
    BY <2>1, ClaimRefines, OtherRefines
  <2>2. ASSUME NEW c \in Requests, Advance(c) \/ Reconcile(c) PROVE Steps
    BY <2>2, RecordRefines, OtherRefines
  <2>. QED BY <2>1, <2>2, GrantRefines, ExpireRefines, PushRefines, OutsideRefines, OtherRefines DEF Next
<1>. QED BY <1>1, InitRefines, BranchInvariant, PTL DEF Spec, AuthoritySpec, Authority!Spec
-----------------------------------------------------------------------------
(* The briefing                                                              *)

\* A job is closed, and a rollback recorded, for nothing but an integration that succeeded.
ClosedTruly ==
  \A j \in Jobs : jobs[j] = "SUCCEEDED" \/ rollbacks[j] > 0 => Integrated(j)

\* What succeeded has succeeded for ever.
LEMMA SuccessStays ==
  ASSUME BInv, [Next]_vars
  PROVE  /\ \A o \in Ops : Success(o) => /\ o \in Ops' /\ Success(o)'
                                        /\ operations'[o].job = operations[o].job
         /\ \A j \in Jobs : Integrated(j) => Integrated(j)'
<1>0. LedgerTyped BY DEF BInv, LedgerInv
<1>1. CASE operations' = operations BY <1>1 DEF Integrated, OpsOf, Ops, Success
<1>2. CASE Claimed
  <2>1. PICK row \in Operation : operations' = Append(operations, row)
    BY <1>0, <1>2, ClaimedRow DEF Claimed
  <2>2. Ops \subseteq Ops' /\ \A o \in Ops : operations'[o] = operations[o]
    BY <1>0, <2>1, NewOperation
  <2>. QED BY <2>2 DEF Integrated, OpsOf, Success
<1>3. CASE Judged /\ operations' # operations
  <2>1. PICK c \in Requests : RecordSuccess(c) \/ RecordFailure(c)
    <3>1. ASSUME NEW c \in Requests, Advance(c), ~RecordSuccess(c), ~RecordFailure(c)
          PROVE  operations' = operations
      BY <3>1 DEF Advance, RecordProposal, Fail, ListWorktrees, CheckHead, PrepareCandidate, SendAdvance,
         InspectHead, SendRollback, RecordRollback, ReconcileRow, ReadHead, RepairReceipt, ledger
    <3>2. ASSUME NEW c \in Requests, Reconcile(c) PROVE operations' = operations
      BY <3>2 DEF Reconcile, ledger
    <3>3. ASSUME NEW c \in Requests, NEW k \in Jobs, Propose(c, k) \/ Rollback(c, k)
          PROVE  operations' = operations
      BY <3>3 DEF Propose, Rollback, ledger
    <3>4. ASSUME NEW c \in Requests, NEW k \in Jobs, Claim(c, k) PROVE FALSE
      <4>1. Claimed BY <3>4 DEF Claim, Claimed
      <4>2. PICK row \in Operation : operations' = Append(operations, row)
        BY <1>0, <4>1, ClaimedRow DEF Claimed
      <4>3. Len(operations') = Len(operations) + 1 /\ Len(operations) \in Nat
        BY <1>0, <4>2, AppendProperties, LenProperties DEF LedgerTyped
      <4>4. Ops' = 1..Len(operations') /\ Ops = 1..Len(operations)
        BY <1>0, <4>2, AppendProperties, LenProperties DEF LedgerTyped, Ops
      <4>5. Ops' = Ops BY <1>0, <1>3, Resolving
      <4>. QED BY <4>3, <4>4, <4>5
    <3>5. ASSUME \/ \E k \in Jobs, h \in Principals : GrantApproval(k, h)
                 \/ \E k \in Jobs : DeclineIntegration(k)
                 \/ \E n \in 1..MaxReceipts : Expire(n)
                 \/ \E push \in pushes : PushEnds(push)
                 \/ \E p \in Projects : Outside(p)
                 \/ Crash \/ Restart \/ AttemptLost
          PROVE  operations' = operations
      BY <3>5 DEF GrantApproval, DeclineIntegration, Expire, PushEnds, Outside, Crash, Restart, AttemptLost, ledger
    <3>6. UNCHANGED vars => operations' = operations BY DEF vars
    <3>. QED BY <1>3, <3>1, <3>2, <3>3, <3>4, <3>5, <3>6 DEF Next
  <2>2. PICK o \in Ops, v \in {"SUCCEEDED", "FAILED"} :
          operations' = [operations EXCEPT ![o].outcome = v] /\ Open(o)
    BY <1>3, <2>1 DEF RecordSuccess, RecordFailure, Resolve, At, BInv, RequestsOK, RequestOK, Fits, Runs
  <2>3. /\ Ops' = Ops
        /\ \A x \in Ops : /\ operations'[x].job = operations[x].job
                          /\ operations'[x].receipt = operations[x].receipt
                          /\ x # o => operations'[x] = operations[x]
    BY <1>0, <2>2, ClosedOperation
  <2>4. \A x \in Ops : operations[x].outcome = "SUCCEEDED" => x # o BY <2>2 DEF Open
  <2>. QED BY <2>3, <2>4 DEF Integrated, OpsOf, Success
<1>. QED BY <1>0, <1>1, <1>2, <1>3, LedgerStep DEF Granted, Expired

\* A step that closes a job has recorded its integration, or declines it.
LEMMA ClosedStep ==
  ASSUME BInv, ClosedTruly, [Next]_vars
  PROVE  ClosedTruly'
<1>0. LedgerTyped /\ TypeOK BY DEF BInv, LedgerInv
<1>1. CASE UNCHANGED <<jobs, rollbacks>> BY <1>1, SuccessStays DEF ClosedTruly
<1>2. ASSUME NEW c \in Requests, RecordSuccess(c), ~UNCHANGED <<jobs, rollbacks>> PROVE ClosedTruly'
  <2>1. PICK o \in Ops : /\ operations' = [operations EXCEPT ![o].outcome = "SUCCEEDED"]
                         /\ operations[o].job = requests[c].job
    BY <1>2 DEF RecordSuccess, Resolve, At, BInv, RequestsOK, RequestOK, Fits, Runs
  <2>2. /\ Ops' = Ops /\ operations'[o].outcome = "SUCCEEDED"
        /\ \A x \in Ops : operations'[x].job = operations[x].job
    BY <1>0, <2>1, ClosedOperation
  <2>3. PICK k \in Jobs : k = operations[o].job BY Heads DEF BInv, History
  <2>4. Integrated(k)' BY <2>2, <2>3 DEF Integrated, OpsOf
  <2>5. \A j \in Jobs : j # k => jobs'[j] = jobs[j]
    BY <1>0, <1>2, <2>1, <2>3 DEF RecordSuccess, TypeOK
  <2>6. rollbacks' = rollbacks BY <1>2 DEF RecordSuccess
  <2>. QED BY <2>4, <2>5, <2>6, SuccessStays DEF ClosedTruly
<1>3. ASSUME NEW c \in Requests, RecordRollback(c) \/ RepairReceipt(c) PROVE ClosedTruly'
  <2>1. PICK k \in Jobs : k = requests[c].job /\ Integrated(k)
    BY <1>3 DEF RecordRollback, RepairReceipt, At, BInv, RequestsOK, RequestOK, Fits, Undoes
  <2>2. \A j \in Jobs : j # k => rollbacks'[j] = rollbacks[j]
    BY <1>0, <1>3, <2>1 DEF RecordRollback, RepairReceipt, TypeOK
  <2>3. jobs' = jobs BY <1>3 DEF RecordRollback, RepairReceipt
  <2>. QED BY <2>1, <2>2, <2>3, SuccessStays DEF ClosedTruly
<1>4. ASSUME NEW k \in Jobs, DeclineIntegration(k) PROVE ClosedTruly'
  <2>1. \A j \in Jobs : jobs'[j] = "SUCCEEDED" => jobs[j] = "SUCCEEDED"
    BY <1>0, <1>4 DEF DeclineIntegration, TypeOK
  <2>2. rollbacks' = rollbacks BY <1>4 DEF DeclineIntegration
  <2>. QED BY <2>1, <2>2, SuccessStays DEF ClosedTruly
<1>5. ASSUME NEW c \in Requests, Advance(c), ~RecordSuccess(c), ~RecordRollback(c), ~RepairReceipt(c)
      PROVE  UNCHANGED <<jobs, rollbacks>>
  BY <1>5 DEF Advance, RecordProposal, Fail, ListWorktrees, CheckHead, PrepareCandidate, SendAdvance,
     InspectHead, RecordFailure, SendRollback, ReconcileRow, ReadHead, ledger
<1>6. ASSUME NEW c \in Requests, Reconcile(c) PROVE UNCHANGED <<jobs, rollbacks>>
  BY <1>6 DEF Reconcile, ledger
<1>7. ASSUME NEW c \in Requests, NEW k \in Jobs, Propose(c, k) \/ Claim(c, k) \/ Rollback(c, k)
      PROVE  UNCHANGED <<jobs, rollbacks>>
  BY <1>7 DEF Propose, Claim, Rollback, ledger
<1>8. ASSUME \/ \E k \in Jobs, h \in Principals : GrantApproval(k, h)
             \/ \E n \in 1..MaxReceipts : Expire(n)
             \/ \E push \in pushes : PushEnds(push)
             \/ \E p \in Projects : Outside(p)
             \/ Crash \/ Restart \/ AttemptLost \/ UNCHANGED vars
      PROVE  UNCHANGED <<jobs, rollbacks>>
  BY <1>8 DEF GrantApproval, Expire, PushEnds, Outside, Crash, Restart, AttemptLost, ledger, vars
<1>. QED BY <1>1, <1>2, <1>3, <1>4, <1>5, <1>6, <1>7, <1>8 DEF Next

\* A change whose rollback is recorded is off its branch.
TakenBack == \A o \in Ops : Success(o) /\ rollbacks[operations[o].job] > 0 => Off(o)

\* Pushes and developers move branches, and write no record.
LEMMA Movers ==
  ASSUME [Next]_vars, branch' # branch
  PROVE  /\ UNCHANGED <<jobs, expected, operations, rollbacks>>
         /\ (\E push \in pushes : PushEnds(push)) \/ (\E p \in Projects : Outside(p))
<1>1. ASSUME NEW c \in Requests, Advance(c) PROVE branch' = branch
  BY <1>1 DEF Advance, RecordProposal, Fail, ListWorktrees, CheckHead, PrepareCandidate, SendAdvance,
     RecordSuccess, InspectHead, RecordFailure, SendRollback, RecordRollback, ReconcileRow, ReadHead,
     RepairReceipt, git
<1>2. ASSUME NEW c \in Requests, Reconcile(c) PROVE branch' = branch
  BY <1>2 DEF Reconcile, git
<1>3. ASSUME NEW c \in Requests, NEW k \in Jobs, Propose(c, k) \/ Claim(c, k) \/ Rollback(c, k)
      PROVE  branch' = branch
  BY <1>3 DEF Propose, Claim, Rollback, git
<1>4. ASSUME \/ \E k \in Jobs, h \in Principals : GrantApproval(k, h)
             \/ \E k \in Jobs : DeclineIntegration(k)
             \/ \E n \in 1..MaxReceipts : Expire(n)
             \/ Crash \/ Restart \/ AttemptLost \/ UNCHANGED vars
      PROVE  branch' = branch
  BY <1>4 DEF GrantApproval, DeclineIntegration, Expire, Crash, Restart, AttemptLost, git, vars
<1>5. (\E push \in pushes : PushEnds(push)) \/ (\E p \in Projects : Outside(p))
  BY <1>1, <1>2, <1>3, <1>4 DEF Next
<1>. QED BY <1>5 DEF PushEnds, Outside, ledger

\* What a push does to the labels of a branch: it adds an open operation, or takes off the one on top.
LEMMA PushLabels ==
  ASSUME BInv, NEW push \in pushes, PushEnds(push), NEW q \in Projects
  PROVE  \E x \in Ops :
           \/ branch'[q] = branch[q]
           \/ Open(x) /\ Labels(branch'[q]) = Labels(branch[q]) \cup {x}
           \/ /\ Project[operations[x].job] = q /\ branch[q] = NewHead(x) /\ branch'[q] = Base(x)
              /\ Labels(branch[q]) = Labels(branch'[q]) \cup {x}
<1>0. TypeOK /\ \A x \in Ops : OpOK(x) BY DEF BInv, History
<1>1. PICK x \in Ops, p \in Projects :
        /\ p = Project[operations[x].job] /\ push.project = p
        /\ \/ UNCHANGED <<branch, reflog>> /\ (Advancing(push, x) \/ Undoing(push, x))
           \/ /\ Advancing(push, x) /\ branch[p] = Base(x)
              /\ branch' = [branch EXCEPT ![p] = NewHead(x)] /\ reflog' = reflog \cup {x}
           \/ /\ Undoing(push, x) /\ branch[p] = NewHead(x)
              /\ branch' = [branch EXCEPT ![p] = Base(x)] /\ reflog' = reflog
  BY PushMoves
<1>2. Labels(NewHead(x)) = Labels(Base(x)) \cup {x} BY <1>0, Heads
<1>3. CASE q # p BY <1>0, <1>1, <1>3 DEF TypeOK
<1>4. CASE q = p /\ branch' # branch
  <2>1. CASE Advancing(push, x) /\ branch[p] = Base(x) /\ branch' = [branch EXCEPT ![p] = NewHead(x)]
    <3>1. branch'[q] = NewHead(x) /\ branch[q] = Base(x) BY <1>0, <1>4, <2>1 DEF TypeOK
    <3>. QED BY <1>2, <2>1, <3>1 DEF Advancing
  <2>2. CASE branch[p] = NewHead(x) /\ branch' = [branch EXCEPT ![p] = Base(x)]
    <3>1. branch'[q] = Base(x) /\ branch[q] = NewHead(x) BY <1>0, <1>4, <2>2 DEF TypeOK
    <3>. QED BY <1>1, <1>2, <1>4, <3>1
  <2>. QED BY <1>1, <1>4, <2>1, <2>2
<1>. QED BY <1>3, <1>4

\* What is off its branch after it succeeded does not come back.
LEMMA OffIsKept ==
  ASSUME BInv, [Next]_vars, branch' # branch, NEW o \in Ops, Success(o), Off(o)
  PROVE  Off(o)'
<1>0. TypeOK /\ (\A x \in Ops : OpOK(x)) BY DEF BInv, History
<1>1. PICK q \in Projects : q = Project[operations[o].job] BY <1>0, Heads
<1>2. o # 0 /\ o \notin Labels(branch[q]) BY <1>0, <1>1, Heads DEF Off
<1>3. o \notin Labels(branch'[q])
  <2>1. ASSUME NEW push \in pushes, PushEnds(push) PROVE o \notin Labels(branch'[q])
    <3>1. PICK x \in Ops :
            \/ branch'[q] = branch[q]
            \/ Open(x) /\ Labels(branch'[q]) = Labels(branch[q]) \cup {x}
            \/ Labels(branch[q]) = Labels(branch'[q]) \cup {x}
      BY <2>1, PushLabels
    <3>2. Open(x) => x # o BY DEF Open, Success
    <3>. QED BY <1>2, <3>1, <3>2
  <2>2. ASSUME NEW p \in Projects, Outside(p) PROVE o \notin Labels(branch'[q])
    BY <1>0, <1>2, <2>2, OutsideLabels
  <2>. QED BY <2>1, <2>2, Movers
<1>4. operations' = operations BY Movers
<1>. QED BY <1>1, <1>3, <1>4 DEF Off, Labels

\* One operation of a job succeeds, and nothing of the others is on a branch.
LEMMA OneSucceeds ==
  ASSUME BInv, NEW j \in Jobs, Integrated(j), NEW o \in OpsOf(j), ~Success(o)
  PROVE  Failed(o) /\ Off(o)
<1>1. PICK s \in Ops : operations[s].job = j /\ Success(s) BY DEF Integrated, OpsOf, Success
<1>2. o \in Ops /\ operations[o].job = j BY DEF OpsOf
<1>3. ~Failed(s) BY <1>1 DEF Failed, Success
<1>4. Failed(o) BY <1>1, <1>2, <1>3 DEF BInv, History, OnePerJob
<1>. QED BY <1>2, <1>4 DEF BInv, History, OpOK

\* A receipt of a rollback is written when the change is off, and no step brings it back.
LEMMA TakenBackStep ==
  ASSUME BInv, BInv', ClosedTruly, TakenBack, [Next]_vars
  PROVE  TakenBack'
<1>1. CASE branch' # branch
  <2>1. UNCHANGED <<operations, rollbacks>> BY <1>1, Movers
  <2>. QED BY <1>1, <2>1, OffIsKept DEF TakenBack, Ops, Success
<1>2. CASE branch' = branch /\ rollbacks' # rollbacks
  <2>1. PICK c \in Requests : RecordRollback(c) \/ RepairReceipt(c) BY <1>2, RollbackWriter
  <2>2. operations' = operations /\ \A j \in Jobs : j # requests[c].job => rollbacks'[j] = rollbacks[j]
    BY <2>1 DEF RecordRollback, RepairReceipt, BInv, TypeOK
  <2>3. \A o \in Ops : Success(o) /\ operations[o].job = requests[c].job => Off(o)
    BY <2>1 DEF RecordRollback, RepairReceipt, At, BInv, RequestsOK, RequestOK, Fits
  <2>4. \A o \in Ops : operations[o].job \in Jobs BY Heads DEF BInv, History
  <2>5. \A o : (Off(o)' <=> Off(o)) /\ (Success(o)' <=> Success(o)) /\ Ops' = Ops
    BY <1>2, <2>2 DEF Off, Success, Ops
  <2>. QED BY <2>2, <2>3, <2>4, <2>5 DEF TakenBack
<1>3. CASE branch' = branch /\ rollbacks' = rollbacks
  <2>. SUFFICES ASSUME NEW o \in Ops', Success(o)', rollbacks'[operations'[o].job] > 0
                PROVE  Off(o)'
    BY DEF TakenBack
  <2>1. o \in Ops /\ operations'[o].job = operations[o].job
    <3>0. LedgerTyped BY DEF BInv, LedgerInv
    <3>1. CASE operations' = operations BY <3>1 DEF Ops
    <3>2. CASE Claimed
      <4>1. PICK row \in Operation : operations' = Append(operations, row) /\ row.outcome = "none"
        BY <3>0, <3>2, ClaimedRow DEF Claimed
      <4>2. PICK new : new = Len(operations) + 1 OBVIOUS
      <4>3. /\ Ops' = Ops \cup {new} /\ operations'[new].outcome = "none"
            /\ \A x \in Ops : operations'[x] = operations[x]
        BY <3>0, <4>1, <4>2, NewOperation
      <4>4. o # new BY <4>3 DEF Success
      <4>. QED BY <4>3, <4>4
    <3>3. CASE Judged BY <3>0, <3>3, Resolving
    <3>. QED BY <3>0, <3>1, <3>2, <3>3, LedgerStep DEF Granted, Expired
  <2>2. PICK j \in Jobs : j = operations[o].job BY <2>1, Heads DEF BInv, History
  <2>3. Success(o)
    <3>1. Integrated(j) BY <1>3, <2>1, <2>2 DEF ClosedTruly
    <3>2. PICK s \in Ops : operations[s].job = j /\ Success(s) BY <3>1 DEF Integrated, OpsOf, Success
    <3>3. s \in Ops' /\ Success(s)' /\ operations'[s].job = j BY <3>2, SuccessStays
    <3>4. ~Failed(s)' /\ ~Failed(o)' BY <3>3 DEF Failed, Success
    <3>5. s = o BY <2>1, <2>2, <3>3, <3>4 DEF BInv, History, OnePerJob
    <3>. QED BY <3>2, <3>5
  <2>4. Off(o) BY <1>3, <2>1, <2>3 DEF TakenBack
  <2>. QED BY <1>3, <2>1, <2>4 DEF Off, Labels
<1>. QED BY <1>1, <1>2, <1>3

\* briefing: a candidate that awaits a decision in a briefing that says all is well is not on the
\* branch; the change of a job that is done has moved it, and leaves it only by a rollback of that job,
\* which takes off nothing else, or by a developer; a change taken back is not on it.
THEOREM Briefed == Spec => ToldTruly
<1>1. Init => ClosedTruly /\ TakenBack BY DEF Init, ClosedTruly, TakenBack, Ops
<1>2. BInv /\ ClosedTruly /\ [Next]_vars => ClosedTruly' BY ClosedStep
<1>3. BInv /\ BInv' /\ ClosedTruly /\ TakenBack /\ [Next]_vars => TakenBack' BY TakenBackStep
<1>4. BInv /\ ClosedTruly /\ TakenBack => AskedHasNotLanded /\ AccountIsTrue
  <2>. SUFFICES ASSUME BInv, ClosedTruly, TakenBack PROVE AskedHasNotLanded /\ AccountIsTrue OBVIOUS
  <2>1. ASSUME Healthy, NEW j \in Awaiting, NEW o \in OpsOf(j) PROVE ~OnBranch(o)
    <3>1. o \in Ops /\ ~Success(o) /\ ~Open(o)
      BY <2>1 DEF Awaiting, Integrated, Healthy, Unresolved, OpsOf, Success, Open
    <3>2. operations[o] \in Operation BY <3>1 DEF BInv, TypeOK, Ops
    <3>3. Failed(o) BY <3>1, <3>2 DEF Failed, Success, Open, Operation
    <3>4. Off(o) BY <3>1, <3>3 DEF BInv, History, OpOK
    <3>. QED BY <3>4 DEF Off, OnBranch, Labels
  <2>2. ASSUME NEW j \in Done PROVE Landed(j)
    <3>1. j \in Jobs /\ Integrated(j) BY DEF Done, ClosedTruly
    <3>2. PICK s \in OpsOf(j) : Success(s) BY <3>1 DEF Integrated, Success
    <3>3. s \in reflog BY <3>2 DEF BInv, History, OpOK, OpsOf
    <3>. QED BY <3>3 DEF Landed
  <2>3. ASSUME NEW j \in Reverted, NEW o \in OpsOf(j) PROVE ~OnBranch(o)
    <3>1. j \in Jobs /\ rollbacks[j] > 0 /\ Integrated(j) BY DEF Reverted, ClosedTruly
    <3>2. CASE Success(o)
      <4>1. Off(o) BY <3>1, <3>2 DEF TakenBack, OpsOf
      <4>. QED BY <4>1 DEF Off, OnBranch, Labels
    <3>3. CASE ~Success(o)
      <4>1. Off(o) BY <3>1, <3>3, OneSucceeds
      <4>. QED BY <4>1 DEF Off, OnBranch, Labels
    <3>. QED BY <3>2, <3>3
  <2>. QED BY <2>1, <2>2, <2>3 DEF AskedHasNotLanded, AccountIsTrue
<1>5. BInv /\ ClosedTruly /\ [Next]_vars =>
        [\A j \in Done : \A o \in OpsOf(j) :
            OnBranch(o) /\ ~OnBranch(o)' => TakesBack(j, o) \/ outsideLeft' < outsideLeft]_vars
  <2>. SUFFICES ASSUME BInv, ClosedTruly, [Next]_vars, NEW j \in Done, NEW o \in OpsOf(j),
                       OnBranch(o), ~OnBranch(o)'
                PROVE  TakesBack(j, o) \/ outsideLeft' < outsideLeft
    OBVIOUS
  <2>1. j \in Jobs /\ Integrated(j) /\ o \in Ops /\ operations[o].job = j
    BY DEF Done, ClosedTruly, OpsOf
  <2>2. ~Off(o) BY DEF Off, OnBranch, Labels
  <2>3. Success(o) BY <2>1, <2>2, OneSucceeds
  <2>4. operations'[o].job = j BY <2>1, <2>3, SuccessStays
  <2>5. branch' # branch BY <2>1, <2>4 DEF OnBranch
  <2>6. PICK q \in Projects : q = Project[j] BY <2>1, IntegrationAssumption
  <2>7. o \in Labels(branch[q]) /\ o \notin Labels(branch'[q])
    BY <2>1, <2>4, <2>6 DEF OnBranch, Labels
  <2>8. ASSUME NEW push \in pushes, PushEnds(push) PROVE TakesBack(j, o)
    <3>1. PICK x \in Ops :
            \/ branch'[q] = branch[q]
            \/ Open(x) /\ Labels(branch'[q]) = Labels(branch[q]) \cup {x}
            \/ /\ branch[q] = NewHead(x) /\ branch'[q] = Base(x)
               /\ Labels(branch[q]) = Labels(branch'[q]) \cup {x}
      BY <2>8, PushLabels
    <3>2. x = o /\ branch[q] = NewHead(x) /\ branch'[q] = Base(x) BY <2>7, <3>1
    <3>. QED BY <2>1, <2>6, <3>2 DEF TakesBack, Base
  <2>9. ASSUME NEW p \in Projects, Outside(p) PROVE outsideLeft' < outsideLeft
    BY <2>9 DEF Outside, BInv, TypeOK
  <2>. QED BY <2>5, <2>8, <2>9, Movers
<1>. QED BY <1>1, <1>2, <1>3, <1>4, <1>5, BranchInvariant, PTL DEF Spec, ToldTruly, DoneIsKept
=============================================================================
