------------------------------ MODULE CodexUsage ------------------------------
(***************************************************************************)
(* observeCodexUsage (src/src/manager/usage.js), finishTurn and report     *)
(* (src/src/manager/service.js): what the turns of a managed run used.  The *)
(* provider reports four counts and a total, and does not say whether       *)
(* cached tokens are counted inside the input and reasoning tokens inside   *)
(* the output.  The reading is determined by the total, or not at all.  A   *)
(* turn that was lost has no receipt, and the report sums the receipts.     *)
(***************************************************************************)
EXTENDS Sequences, Totals

CONSTANTS
    Counts,    \* counts of tokens
    MaxTurns,  \* bound: turns of a run
    None

CodexAssumption == Counts \subseteq Nat /\ None \notin Nat

VARIABLE turns  \* the turns of a run: what each used (history), and its receipt or None

vars == <<turns>>

Kinds == {"input", "cached", "output", "reasoning"}

(***************************************************************************)
(* The provider, which is external: what a turn used is reported in one of *)
(* four ways, and the total may be missing.                                *)
(***************************************************************************)
Usage == [Kinds -> Counts]

Whole(used) == used["input"] + used["cached"] + used["output"] + used["reasoning"]

\* inside: which of "cached" and "reasoning" are counted inside another.
Report(used, inside, total) ==
    [input |-> used["input"] + (IF "cached" \in inside THEN used["cached"] ELSE 0),
     cached |-> used["cached"],
     output |-> used["output"] + (IF "reasoning" \in inside THEN used["reasoning"] ELSE 0),
     reasoning |-> used["reasoning"],
     total |-> IF total THEN Whole(used) ELSE None]

(***************************************************************************)
(* observeCodexUsage.                                                      *)
(***************************************************************************)
Readings == SUBSET {"cached", "reasoning"}

\* A split of the report; it may be negative, which the guard of Viable excludes.
Fits(u, inside) ==
    /\ "cached" \in inside => u.cached <= u.input
    /\ "reasoning" \in inside => u.reasoning <= u.output

Split(u, inside) ==
    [input |-> IF "cached" \in inside THEN u.input - u.cached ELSE u.input,
     cached |-> u.cached,
     output |-> IF "reasoning" \in inside THEN u.output - u.reasoning ELSE u.output,
     reasoning |-> u.reasoning]

Predict(u, inside) ==
    u.input + u.output + (IF "cached" \in inside THEN 0 ELSE u.cached) + (IF "reasoning" \in inside THEN 0 ELSE u.reasoning)

Viable(u) == {r \in Readings : Fits(u, r) /\ u.total # None /\ Predict(u, r) = u.total}

\* Mutant: the first reading that fits is taken.
TakesFirst(u) == Viable(u) # {}

Agree(u) == \A r, s \in Viable(u) : Split(u, r) = Split(u, s)

Raw(u) == [input |-> u.input, cached |-> u.cached, output |-> u.output, reasoning |-> u.reasoning]

\* What a receipt keeps of a split that is not known is one that fits, or what was reported.
Observe(u) ==
    IF Viable(u) = {} THEN [status |-> "PARTIAL", split |-> Raw(u), total |-> u.total]
    ELSE [status |-> IF Agree(u) THEN "COMPLETE" ELSE "PARTIAL",
          split |-> Split(u, CHOOSE r \in Viable(u) : TRUE), total |-> u.total]

\* A report that lacks one of the four counts is no report.
UnknownUsage == [status |-> "UNKNOWN", split |-> None, total |-> None]

\* finishTurn: an answered turn has its receipt; one that failed, was lost or was interrupted has none, and may
\* have been paid for.
Turn ==
    /\ Len(turns) < MaxTurns
    /\ \E used \in Usage :
       \E receipt \in {Observe(Report(used, inside, total)) : inside \in Readings, total \in BOOLEAN}
                      \cup {UnknownUsage, None} :
          turns' = Append(turns, [used |-> used, receipt |-> receipt])

Init == turns = <<>>

Next == Turn

Spec == Init /\ [][Next]_vars

(***************************************************************************)
(* report and summarize: the turns that have a receipt.                    *)
(***************************************************************************)
Receipted == {i \in DOMAIN turns : turns[i].receipt # None}

\* Mutant: the counts of every receipt are added.
EveryReceipt == {i \in Receipted : turns[i].receipt.split # None}

Measured == {i \in Receipted : turns[i].receipt.status = "COMPLETE"}
Totalled == {i \in Receipted : turns[i].receipt.total # None}

\* The components that are summed; cached tokens are not.
Summed == {"input", "output", "reasoning"}

Components(kind) == Total([i \in Measured |-> turns[i].receipt.split[kind]], Measured)
TotalTokens == Total([i \in Totalled |-> turns[i].receipt.total], Totalled)

\* Mutant: it is never cleared.
AnyTotal == TRUE

\* total_complete: no receipt lacks a total.
TotalComplete == Totalled = Receipted

(***************************************************************************)
(* Properties.                                                             *)
(***************************************************************************)
\* Type invariant; unknownManagerUsage: a receipt of usage that is not known has no total, and none that is zero.
TypeOK ==
    /\ \A i \in DOMAIN turns : turns[i].used \in Usage
    /\ \A i \in Receipted :
          /\ turns[i].receipt.status \in {"COMPLETE", "PARTIAL", "UNKNOWN"}
          /\ turns[i].receipt.status = "UNKNOWN" => turns[i].receipt.total = None

\* observeCodexUsage: "a plausible-but-unverified split is worse than an admitted gap": a receipt that is
\* COMPLETE has the counts that were used, however they were reported.
CompleteIsTrue ==
    \A i \in Receipted : turns[i].receipt.status = "COMPLETE" =>
        \A kind \in Kinds : turns[i].receipt.split[kind] = turns[i].used[kind]

Used(kind) == Total([i \in DOMAIN turns |-> turns[i].used[kind]], DOMAIN turns)

\* summarize: figures that overlap are not added: no count of a run is more than was used.
ComponentsDoNotOverlap == \A kind \in Summed : Components(kind) <= Used(kind)

WholeOf(S) == Total([i \in S |-> Whole(turns[i].used)], S)

\* report: the total of a run is never more than it used, and when it is complete it is all that the turns with a
\* receipt used, whatever is known of their splits.  Of a turn with no receipt it says nothing: TotalCoversEveryTurn.
TotalIsExact == TotalTokens <= WholeOf(DOMAIN turns) /\ (TotalComplete => TotalTokens = WholeOf(Receipted))
-----------------------------------------------------------------------------
(* A promise of the repository that the code does not keep: section 8 of the *)
(* README has the behaviour that contradicts it.                             *)

\* summarizeManagerUsage, test/manager-usage.test.js:123: "a turn with no total makes the run's total incomplete":
\* a total that is complete has every turn that used anything.
TotalCoversEveryTurn == TotalComplete => TotalTokens = WholeOf(DOMAIN turns)
=============================================================================
