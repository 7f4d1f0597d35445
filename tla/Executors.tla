------------------------------ MODULE Executors ------------------------------
(***************************************************************************)
(* Executors and what is known of their usage: the choice of an executor   *)
(* (src/src/harness/select.js), its run (backend.js, harness/backend.js,    *)
(* process.js), the log it leaves and the receipt and the verdict that are  *)
(* read from it (usage.js, harness/usage.js, and the end of runJob and      *)
(* recordAttemptUsage in service.js).  The executors are external: they buy *)
(* calls from a provider and write one record of each, in order, and they   *)
(* may fail, stop or be killed between any two steps.                       *)
(***************************************************************************)
EXTENDS Sequences, Totals

CONSTANTS
    Attempts,   \* attempts, one after the other
    Supported,  \* those whose model the Harness adapter can run
    Tariffed,   \* those whose model has a price in the basis
    Costs,      \* the tokens of a call: [visible, reasoning]
    MaxCalls,   \* bound: calls of an attempt
    MaxLog,     \* bound: records in a log
    None

ExecutorsAssumption ==
    /\ Supported \subseteq Attempts /\ Tariffed \subseteq Attempts /\ {MaxCalls, MaxLog} \subseteq Nat
    /\ Costs \subseteq [visible : Nat, reasoning : Nat]

VARIABLES
    disabled,  \* harnessDisabled, in BackendRouter
    run,       \* the attempt that is run, and what its executor does
    ledger     \* the attempts that are over: their receipts and verdicts

vars == <<disabled, run, ledger>>

Tokens(c) == c.visible + c.reasoning

Idle == [of |-> None, on |-> None, pc |-> "idle", calls |-> <<>>, log |-> <<>>, written |-> 0,
         stderr |-> "", exit |-> None, timedOut |-> FALSE, error |-> None]

At(pc) == run.pc = pc

(***************************************************************************)
(* BackendRouter.select, and what may go wrong before there is a process.  *)
(***************************************************************************)
Select ==
    /\ At("idle")
    /\ \E a \in Attempts :
          /\ ledger[a] = None
          /\ \E ready \in BOOLEAN :
                run' = [Idle EXCEPT !.of = a, !.pc = "selected",
                                    !.on = IF ~disabled /\ a \in Supported /\ ready THEN "harness" ELSE "opencode"]
    /\ UNCHANGED <<disabled, ledger>>

Throws(error) == run' = [run EXCEPT !.pc = "closed", !.error = error] /\ UNCHANGED <<disabled, ledger>>

\* assertFenceComposed, and the other refusals of HarnessBackend.run.
ComposeFails == At("selected") /\ run.on = "harness" /\ Throws("configuration")

\* onSpawn: the attempt is no longer accepted; the process is killed.
SpawnRefused == At("selected") /\ Throws("refused")

Spawn == At("selected") /\ run' = [run EXCEPT !.pc = "running"] /\ UNCHANGED <<disabled, ledger>>

(***************************************************************************)
(* The executor: external.                                                 *)
(***************************************************************************)
Executes(next) == At("running") /\ run' = next /\ UNCHANGED <<disabled, ledger>>

\* OpenCode cannot open its own database.
InitFails ==
    /\ run.on = "opencode" /\ run.calls = <<>> /\ run.log = <<>>
    /\ Executes([run EXCEPT !.pc = "closed", !.stderr = "signature", !.exit = "nonzero"])

Finished == \E i \in DOMAIN run.log : run.log[i].last

Calls ==
    /\ Len(run.calls) < MaxCalls /\ ~Finished
    /\ \E c \in Costs : Executes([run EXCEPT !.calls = Append(@, c)])

Puts(record, written) ==
    /\ Len(run.log) < MaxLog /\ ~Finished
    /\ Executes([run EXCEPT !.log = Append(@, record), !.written = written])

\* The wire: Harness counts reasoning inside its output.
Wire(on, c) == [output |-> IF on = "harness" THEN Tokens(c) ELSE c.visible, reasoning |-> c.reasoning]

Record(kind, call, usage, last) == [kind |-> kind, call |-> call, usage |-> usage, last |-> last]

\* The record of the next call, with its usage or without.  The last one of OpenCode says "stop".
WritesStep ==
    /\ run.written < Len(run.calls)
    /\ \E usage \in {None, Wire(run.on, run.calls[run.written + 1])} :
       \E last \in BOOLEAN :
          /\ last => run.on = "opencode" /\ run.written + 1 = Len(run.calls)
          /\ Puts(Record("step", run.written + 1, usage, last), run.written + 1)

\* A record that was written is written again, and maybe not alike.
Replays ==
    /\ run.on = "opencode" /\ run.written > 0
    /\ \E usage \in {None, Wire(run.on, run.calls[run.written])} :
          Puts(Record("step", run.written, usage, FALSE), run.written)

\* A line that does not parse: the record of a call was cut, or is not of this version.
WritesJunk ==
    /\ run.written < Len(run.calls)
    /\ Puts(Record("junk", None, None, FALSE), run.written + 1)

WritesError == run.on = "opencode" /\ Puts(Record("error", None, None, FALSE), run.written)

\* Harness marks the end of the turn.
WritesEnd ==
    /\ run.on = "harness" /\ run.written = Len(run.calls)
    /\ Puts(Record("end", None, None, TRUE), run.written)

Exits == \E exit \in {"zero", "nonzero"} : Executes([run EXCEPT !.pc = "closed", !.exit = exit])

Executor ==
    \/ InitFails \/ Calls \/ WritesStep \/ Replays \/ WritesJunk \/ WritesError \/ WritesEnd \/ Exits

\* runProcess: the timer of the process.
TimesOut == Executes([run EXCEPT !.pc = "closed", !.exit = "nonzero", !.timedOut = TRUE])

(***************************************************************************)
(* The observation: parseOpenCodeUsage, parseHarnessUsage.                 *)
(***************************************************************************)
Canonical(on, w) == IF on = "harness" THEN w.output - w.reasoning ELSE w.output

Steps == {i \in DOMAIN run.log : run.log[i].kind = "step"}

\* Mutant: a record that is replayed is another call.
Undeduplicated == Steps

First(i) == \A j \in Steps : run.log[j].call = run.log[i].call => i <= j

\* OpenCode's records have an identity: one that is replayed counts once.
Counted == {i \in Steps : run.on = "opencode" => First(i)}

Conflicts ==
    {i \in Steps \ Counted : \E j \in Counted : run.log[j].call = run.log[i].call /\ run.log[j].usage # run.log[i].usage}

Usable == {i \in Counted : run.log[i].usage # None}
Malformed == Cardinality({i \in DOMAIN run.log : run.log[i].kind = "junk"} \cup Conflicts \cup (Counted \ Usable))

\* The tokens of a record, reasoning apart from the answer.
Share(i) == Canonical(run.on, run.log[i].usage) + run.log[i].usage.reasoning

Observed == Total([i \in Usable |-> Share(i)], Usable)

\* Mutant: a log without parse errors is whole.
NoMarker == TRUE

Terminated == run.on = "harness" => \E i \in DOMAIN run.log : run.log[i].kind = "end"

Unknown == [status |-> "UNKNOWN", tokens |-> None, reference |-> None]

\* referenceCostUsd.
Reference == IF run.of \in Tariffed THEN Observed ELSE None

Parsed ==
    IF Usable = {} THEN Unknown
    ELSE [status |-> IF Malformed > 0 \/ ~Terminated THEN "PARTIAL" ELSE "COMPLETE",
          tokens |-> Observed, reference |-> Reference]

\* Mutant: an executor that failed with an empty log has bought nothing.
EmptyIsFree == run.on = "opencode" /\ run.error = None /\ run.exit # "zero" /\ run.log = <<>>

\* classifyPreProviderFailure.
PreProvider ==
    /\ run.on = "opencode" /\ run.error = None
    /\ run.exit # "zero" /\ run.log = <<>> /\ run.stderr = "signature"

\* recordAttemptUsage, finalizeUsageReceipt: the observation, priced.
Receipt ==
    IF PreProvider THEN [status |-> "NO_PROVIDER_CONTACT", tokens |-> 0, reference |-> 0] ELSE Parsed

(***************************************************************************)
(* The verdict: assessOpenCodeTranscript, and the end of the run in runJob. *)
(***************************************************************************)
\* Mutant: a clean exit is enough.
CleanExit == "SUCCEEDED"

Transcript ==
    IF /\ \E i \in Steps : run.log[i].last
       /\ \A i \in DOMAIN run.log : run.log[i].kind # "error"
    THEN "SUCCEEDED" ELSE "FAILED"

Verdict ==
    CASE run.error # None \/ run.timedOut \/ run.exit # "zero" -> "FAILED"
      [] run.error = None /\ ~run.timedOut /\ run.exit = "zero" ->
            IF run.on = "opencode" THEN Transcript ELSE "SUCCEEDED"

\* What the attempt has bought.
Spent == Total([i \in DOMAIN run.calls |-> Tokens(run.calls[i])], DOMAIN run.calls)

\* The receipt and the verdict, which are written on every path; an error of Harness disables it.
Judge ==
    /\ At("closed")
    /\ \E receipt \in {Receipt, None} :   \* None: the receipt cannot be written
          ledger' = [ledger EXCEPT ![run.of] =
              [on |-> run.on, error |-> run.error, receipt |-> receipt, verdict |-> Verdict, finished |-> Finished,
               spent |-> Spent]]
    /\ disabled' = (disabled \/ (run.error # None /\ run.on = "harness"))
    /\ run' = Idle

Init == disabled = FALSE /\ run = Idle /\ ledger = [a \in Attempts |-> None]

Next == Select \/ ComposeFails \/ SpawnRefused \/ Spawn \/ Executor \/ TimesOut \/ Judge

Spec == Init /\ [][Next]_vars

(***************************************************************************)
(* Properties.                                                             *)
(***************************************************************************)
Over == {a \in Attempts : ledger[a] # None}
Receipted == {a \in Over : ledger[a].receipt # None}

\* The CHECKs of attempt_usage_receipts: numbers where there was evidence of them, zeroes where none were bought.
TypeOK ==
    /\ disabled \in BOOLEAN /\ run.of \in Attempts \cup {None} /\ run.on \in {None, "harness", "opencode"}
    /\ \A a \in Receipted :
          LET r == ledger[a].receipt IN
          CASE r.status = "UNKNOWN" -> r.tokens = None /\ r.reference = None
            [] r.status = "NO_PROVIDER_CONTACT" -> r.tokens = 0 /\ r.reference = 0
            [] OTHER -> r.status \in {"COMPLETE", "PARTIAL"} /\ r.tokens \in Nat

\* usage.js: whatever is replayed, cut or nested, no token is counted twice.
NeverOverstated ==
    \A a \in Receipted : ledger[a].receipt.tokens # None => ledger[a].receipt.tokens <= ledger[a].spent

\* classifyPreProviderFailure: "the consequence of a false positive is recording real spend as zero".
FreeIsUnspent == \A a \in Receipted : ledger[a].receipt.status = "NO_PROVIDER_CONTACT" => ledger[a].spent = 0

\* parseHarnessUsage: "a clean prefix of a larger bill must never be reported as the whole bill"; runJob: "A clean
\* exit is necessary and NOT sufficient": a receipt that says COMPLETE has all that was bought if Harness ran the
\* attempt, or if the attempt succeeded, whoever ran it.  (The receipt of an attempt of OpenCode that did not
\* succeed may say it of less: CompleteIsWhole.  One of Harness that stopped in mid-turn may have succeeded:
\* CleanExitIsNotEnough.)
BillIsWhole ==
    \A a \in Receipted :
        (ledger[a].receipt.status = "COMPLETE" /\ (ledger[a].on = "harness" \/ ledger[a].verdict = "SUCCEEDED")) =>
            ledger[a].receipt.tokens = ledger[a].spent
-----------------------------------------------------------------------------
(* Promises of the repository that the code does not keep: section 8 of the  *)
(* README has the behaviour that contradicts each.                           *)

\* WRK-007: "Usage observed alongside a malformed or truncated accounting is PARTIAL": a receipt that says
\* COMPLETE has all that was bought, whoever ran the attempt.
CompleteIsWhole ==
    \A a \in Receipted : ledger[a].receipt.status = "COMPLETE" => ledger[a].receipt.tokens = ledger[a].spent

\* runJob: "A clean exit is necessary and NOT sufficient", whoever ran the attempt.
CleanExitIsNotEnough == \A a \in Over : ledger[a].verdict = "SUCCEEDED" => ledger[a].finished

\* BackendRouter.disableHarness: "Called when a Harness attempt failed for a reason that will recur."
DisabledWillRecur == disabled => \E a \in Over : ledger[a].error = "configuration"
=============================================================================
