--------------------------- MODULE BranchAuthority ---------------------------
(***************************************************************************)
(* What a project owner is promised about an integration branch: apart     *)
(* from what outsiders do to it, it moves only to apply the candidate of    *)
(* the one open integration, once per approval granted for that candidate  *)
(* and never after it was reported integrated; or to take an integrated    *)
(* candidate that is the last thing on it off again.                       *)
(***************************************************************************)
EXTENDS Integers, SequencesExt

CONSTANTS Jobs, Projects, Project, None

VARIABLES
  head,      \* what each branch is made of: jobs, and None for outside work
  mandates,  \* approvals of each job not yet taken
  holder,    \* the job whose integration is open, or None
  spent,     \* whether the open integration has moved the branch
  done,      \* jobs reported integrated
  outsiders  \* number of outside moves

vars == <<head, mandates, holder, spent, done, outsiders>>

Init ==
  /\ head = [p \in Projects |-> <<>>] /\ mandates = [j \in Jobs |-> 0]
  /\ holder = None /\ spent = FALSE /\ done = {} /\ outsiders = 0

Grant(j) ==
  /\ mandates' = [mandates EXCEPT ![j] = @ + 1]
  /\ UNCHANGED <<head, holder, spent, done, outsiders>>

Lapse(j) ==
  /\ mandates[j] > 0
  /\ mandates' = [mandates EXCEPT ![j] = @ - 1]
  /\ UNCHANGED <<head, holder, spent, done, outsiders>>

Open(j) ==
  /\ holder = None /\ mandates[j] > 0 /\ j \notin done
  /\ holder' = j /\ mandates' = [mandates EXCEPT ![j] = @ - 1]
  /\ UNCHANGED <<head, spent, done, outsiders>>

Land(j) ==
  /\ holder = j /\ ~spent
  /\ head' = [head EXCEPT ![Project[j]] = Append(@, j)]
  /\ spent' = TRUE
  /\ UNCHANGED <<mandates, holder, done, outsiders>>

Succeed(j) ==
  /\ holder = j /\ spent
  /\ holder' = None /\ spent' = FALSE /\ done' = done \cup {j}
  /\ UNCHANGED <<head, mandates, outsiders>>

\* An integration is called failed only when the branch does not have its candidate.
GiveUp(j) ==
  /\ holder = j /\ \A i \in DOMAIN head[Project[j]] : head[Project[j]][i] # j
  /\ holder' = None /\ spent' = FALSE
  /\ UNCHANGED <<head, mandates, done, outsiders>>

TakeOff(j) ==
  /\ j \in done /\ head[Project[j]] # <<>> /\ Last(head[Project[j]]) = j
  /\ head' = [head EXCEPT ![Project[j]] = Front(@)]
  /\ UNCHANGED <<mandates, holder, spent, done, outsiders>>

Outside ==
  /\ outsiders' = outsiders + 1
  /\ \E p \in Projects : \A q \in Projects \ {p} : head'[q] = head[q]
  /\ UNCHANGED <<mandates, holder, spent, done>>

Next ==
  \/ \E j \in Jobs : Grant(j) \/ Lapse(j) \/ Open(j) \/ Land(j) \/ Succeed(j) \/ GiveUp(j) \/ TakeOff(j)
  \/ Outside

Spec == Init /\ [][Next]_vars
=============================================================================
