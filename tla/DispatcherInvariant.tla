------------------------ MODULE DispatcherInvariant -------------------------
(***************************************************************************)
(* The inductive invariant of Dispatcher: what the row of an attempt, the  *)
(* stage of the call that drives it and its two children say of each other. *)
(***************************************************************************)
EXTENDS Dispatcher

\* A child process that may still be doing something.
Running == {"running", "dying"}

\* Stages of a call whose attempt has no verdict on its executor yet.
Executing == {"claimed", "launching", "spawned", "running", "aborted", "metered",
              "captured", "failingSetup"}
\* Stages with a check command under way.
InCheck   == {"checkLaunching", "checkSpawned", "checkRunning", "checkOver"}
Ended     == {"idle", "done", "dead"}

\* A row nobody claimed yet has not been touched.
Untouched(a) ==
  ~Exists(a) => /\ attempts[a] = Blank /\ stage[a] = "idle"
                /\ executor[a] = "none" /\ validator[a] = "none"

\* Who works on the attempt, and which generation it belongs to.
Driven(a) ==
  /\ Exists(a) => stage[a] # "idle"
  /\ stage[a] \notin Ended => attempts[a].scheduler \in alive
  /\ stage[a] = "dead" => attempts[a].scheduler \notin alive \cup fresh
  /\ stage[a] = "done" => ~Live(a)
  /\ Live(a) => attempts[a].epoch = generation

\* What the row says at each stage of the call.
Tracked(a) ==
  /\ attempts[a].terminal = "null" => attempts[a].validation = "NOT_RUN"
  /\ stage[a] \in Executing => attempts[a].terminal \in {"null", "CANCELLED"}
  /\ stage[a] \in {"claimed", "failingSetup"} /\ attempts[a].terminal = "null"
       => ~attempts[a].executorIntent
  /\ stage[a] \in (Executing \ {"claimed", "failingSetup"}) \cup {"failing"}
       /\ attempts[a].terminal = "null" => attempts[a].executorIntent
  /\ stage[a] \in {"checking", "settled", "overspent", "failingUnrun"} \cup InCheck
       => attempts[a].terminal = "SUCCEEDED"
  /\ stage[a] \in InCheck => left[a] > 0
  /\ stage[a] \in InCheck /\ Validating(a) => attempts[a].validationIntent
  /\ stage[a] # "done" => attempts[a].validation \notin {"PASSED", "FAILED"}

\* Where the row and the stage leave room for a running child.
Contained(a) ==
  /\ executor[a] \in Running /\ attempts[a].terminal = "null" => attempts[a].executorIntent
  /\ attempts[a].terminal \in {"SUCCEEDED", "FAILED", "ORPHANED"} => executor[a] \notin Running
  /\ stage[a] \in {"claimed", "failingSetup", "launching", "metered", "captured"}
       => executor[a] \notin Running
  /\ stage[a] \in {"aborted", "failing"} /\ attempts[a].terminal = "null"
       => executor[a] \notin Running
  /\ attempts[a].terminal # "SUCCEEDED" => validator[a] = "none"
  /\ validator[a] \in Running /\ Validating(a) => attempts[a].validationIntent
  /\ stage[a] \in {"checking", "checkOver", "settled", "overspent", "failing", "failingUnrun"}
       /\ Validating(a) => validator[a] \notin Running
  /\ attempts[a].validation \in {"PASSED", "FAILED"} => validator[a] \notin Running

AttemptOK(a) == Untouched(a) /\ Driven(a) /\ Tracked(a) /\ Contained(a)

ProcsOK == alive \cap fresh = {}

\* The rows a cancel goes by exist, and it is about a job.
CancelOK ==
  /\ cancel.stage # "idle" => cancel.job \in Jobs
  /\ cancel.stage = "intend" => cancel.current = cancel.subject
  /\ (cancel.stage = "intend" /\ cancel.subject # None) \/ cancel.stage \in {"kill", "mark"}
       => cancel.current \in AttemptIds /\ Exists(cancel.current)
  /\ \A a \in cancel.todo : Exists(a)

\* The inductive invariant.
IInv == TypeOK /\ ProcsOK /\ CancelOK /\ \A a \in AttemptIds : AttemptOK(a)
=============================================================================
