-------------------------- MODULE ControlRequests --------------------------
(***************************************************************************)
(* The request ledger of the control API: ControlService.mutate and what   *)
(* it calls (src/src/control/service.js).  A client sends a mutation with a *)
(* request id of its own and sends it again when it did not hear; the       *)
(* server writes an intent, runs the command, and writes a receipt.  The    *)
(* server can die, its writes can fail, and one of the commands replaces    *)
(* the database the ledger is in (Recovery.tla).  HTTP, tokens and scopes   *)
(* only decide whether mutate is called at all and are left out.            *)
(***************************************************************************)
EXTENDS Naturals, Sequences

CONSTANTS
    Requests,    \* request ids clients make up
    Bindings,    \* command, arguments and identity: what an id is bound to
    Restore,     \* the binding of a backup.restore, or None
    Calls,       \* HTTP calls; a retry is another one with the same id
    Crashing,    \* the server may die
    Failing,     \* a receipt may fail to be written
    None

RequestsAssumption == None \notin Bindings \cup {"SUCCEEDED", "FAILED"} /\ {Crashing, Failing} \subseteq BOOLEAN

VARIABLES
    up,          \* the server runs
    open,        \* its database handle is open
    intents,     \* control_request_intents
    results,     \* control_request_results
    saved,       \* the two tables in the newest backup
    inFlight,    \* ControlService.inFlight
    call,        \* the calls
    effects      \* history: how often the work of a request was done, by whom it was asked

vars == <<up, open, intents, results, saved, inFlight, call, effects>>
ledger == <<intents, results>>

Terminal == {"SUCCEEDED", "FAILED"}
Answers == Terminal \cup {"CONFLICT", "IN_PROGRESS", "UNCERTAIN", "ERROR", "LOST"}
Unsent == [pc |-> "unsent", id |-> None, binding |-> None, answer |-> None]

At(c, pc) == up /\ call[c].pc = pc
Answered(c, a) == [call EXCEPT ![c].pc = "answered", ![c].answer = a]
(***************************************************************************)
(* mutate: the claim.                                                      *)
(***************************************************************************)
\* Mutant: an id that died without a receipt is claimed again.
ClaimableAgain(r) == intents[r] = None \/ (results[r] = None /\ r \notin inFlight)

Claimable(r) == intents[r] = None

Received(c, r, b, pc, a) == call' = [call EXCEPT ![c] = [pc |-> pc, id |-> r, binding |-> b, answer |-> a]]

Execute(c, r, b) ==
    /\ Claimable(r)
    /\ intents' = [intents EXCEPT ![r] = b]
    /\ inFlight' = inFlight \cup {r}
    /\ Received(c, r, b, "executing", None)

\* Mutant: an id is only compared with the ids of the same operation.
ReplyToAny(c, r, b) ==
    /\ ~Claimable(r)
    /\ IF results[r] # None THEN Received(c, r, b, "answered", results[r])
       ELSE Received(c, r, b, "waiting", None)
    /\ UNCHANGED <<intents, inFlight>>

Reply(c, r, b) ==
    /\ ~Claimable(r)
    /\ \/ intents[r] # b /\ Received(c, r, b, "answered", "CONFLICT")
       \/ intents[r] = b /\ results[r] # None /\ Received(c, r, b, "answered", results[r])
       \/ intents[r] = b /\ results[r] = None /\ Received(c, r, b, "waiting", None)
    /\ UNCHANGED <<intents, inFlight>>

Mutate(c) ==
    /\ At(c, "unsent") /\ open
    /\ \E r \in Requests, b \in Bindings : Execute(c, r, b) \/ Reply(c, r, b)
    /\ UNCHANGED <<up, open, results, saved, effects>>

\* Every statement on a closed handle throws.
MutateClosed(c) ==
    /\ At(c, "unsent") /\ ~open
    /\ \E r \in Requests, b \in Bindings : Received(c, r, b, "answered", "ERROR")
    /\ UNCHANGED <<up, open, ledger, saved, inFlight, effects>>

(***************************************************************************)
(* executeClaimed: the command, then its receipt.                          *)
(***************************************************************************)
\* The command does what cannot be taken back; a restore has actions of its own.
Effect(c) ==
    /\ At(c, "executing") /\ call[c].binding # Restore
    /\ call' = [call EXCEPT ![c].pc = "ran"]
    /\ effects' = [effects EXCEPT ![call[c].id] = Append(@, call[c].binding)]
    /\ UNCHANGED <<up, open, ledger, saved, inFlight>>

\* Mutant: the intent is taken to be where it was left.
NotReinstated(c) == intents

\* reinstateIntent: the receipt refers to the intent, which a restore may have taken away.
Reinstated(c) == IF intents[call[c].id] = None THEN [intents EXCEPT ![call[c].id] = call[c].binding] ELSE intents

\* The foreign key and the primary key of control_request_results.
Recordable(c, to) == to[call[c].id] # None /\ results[call[c].id] = None

Record(c, outcome) ==
    IF Recordable(c, Reinstated(c))
    THEN /\ intents' = Reinstated(c)
         /\ results' = [results EXCEPT ![call[c].id] = outcome]
         /\ call' = Answered(c, outcome)
    ELSE UNCHANGED ledger /\ call' = Answered(c, "UNCERTAIN")

RecordFails(c) == UNCHANGED ledger /\ call' = Answered(c, "UNCERTAIN")

\* A command that does not know what it did says so, and then there is no receipt.
Finish(c, outcome) ==
    /\ inFlight' = inFlight \ {call[c].id}
    /\ \/ outcome \in Terminal /\ open /\ Record(c, outcome)
       \/ (outcome = "UNCERTAIN" \/ ~open \/ Failing) /\ RecordFails(c)
    /\ UNCHANGED <<up, open, saved, effects>>

\* Having done its work a command may still fail; having done nothing it cannot succeed.
CommandEnds(c) ==
    \/ /\ At(c, "ran")
       /\ \E outcome \in Terminal \cup {"UNCERTAIN"} : Finish(c, outcome)
    \/ /\ At(c, "executing")
       /\ \E outcome \in {"FAILED", "UNCERTAIN"} : Finish(c, outcome)

(***************************************************************************)
(* waitForResult: look, sleep, look again; then say what is known.         *)
(***************************************************************************)
WaitFinds(c) ==
    /\ call[c].pc \in {"waiting", "slept"} /\ up /\ open /\ results[call[c].id] # None
    /\ call' = Answered(c, results[call[c].id])
    /\ UNCHANGED <<up, open, ledger, saved, inFlight, effects>>

WaitSleeps(c) ==
    /\ At(c, "waiting") /\ open /\ results[call[c].id] = None
    /\ call' = [call EXCEPT ![c].pc = "slept"]
    /\ UNCHANGED <<up, open, ledger, saved, inFlight, effects>>

WaitThrows(c) ==
    /\ call[c].pc \in {"waiting", "slept"} /\ up /\ ~open
    /\ call' = Answered(c, "ERROR")
    /\ UNCHANGED <<up, open, ledger, saved, inFlight, effects>>

\* Mutant: a call waits as long as there is no receipt.
WaitEndsNever(c) == FALSE

\* The deadline passes during a sleep, and the table is not looked at again.
WaitEnds(c) ==
    /\ At(c, "slept")
    /\ call' = Answered(c, IF call[c].id \in inFlight THEN "IN_PROGRESS" ELSE "UNCERTAIN")
    /\ UNCHANGED <<up, open, ledger, saved, inFlight, effects>>

(***************************************************************************)
(* Backup and restore, as the ledger sees them.                            *)
(***************************************************************************)
TakeBackup ==
    /\ up /\ open
    /\ saved' = [intents |-> intents, results |-> results]
    /\ UNCHANGED <<up, open, ledger, inFlight, call, effects>>

RestoreCloses(c) ==
    /\ At(c, "executing") /\ call[c].binding = Restore /\ open
    /\ open' = FALSE
    /\ call' = [call EXCEPT ![c].pc = "closed"]
    /\ UNCHANGED <<up, ledger, saved, inFlight, effects>>

RestoreReplaces(c) ==
    /\ At(c, "closed")
    /\ intents' = saved.intents /\ results' = saved.results
    /\ call' = [call EXCEPT ![c].pc = "replaced"]
    /\ UNCHANGED <<up, open, saved, inFlight, effects>>

\* The handle is opened again, and the receipt written in the same turn of the event loop.
Reopens(c, outcome) ==
    /\ open' = TRUE
    /\ inFlight' = inFlight \ {call[c].id}
    /\ Record(c, outcome) \/ (Failing /\ RecordFails(c))
    /\ UNCHANGED <<up, saved, effects>>

RestoreEnds(c) ==
    \/ At(c, "replaced") /\ \E outcome \in Terminal : Reopens(c, outcome)
    \/ At(c, "closed") /\ Reopens(c, "FAILED")

(***************************************************************************)
(* The server dies; whoever was waiting hears nothing.                     *)
(***************************************************************************)
Crash ==
    /\ Crashing /\ up
    /\ up' = FALSE /\ inFlight' = {}
    /\ call' = [c \in Calls |-> IF call[c].pc \in {"unsent", "answered"} THEN call[c]
                               ELSE [call[c] EXCEPT !.pc = "answered", !.answer = "LOST"]]
    /\ UNCHANGED <<open, ledger, saved, effects>>

Restart ==
    /\ ~up /\ up' = TRUE /\ open' = TRUE
    /\ UNCHANGED <<ledger, saved, inFlight, call, effects>>

Empty == [r \in Requests |-> None]

Init ==
    /\ up = TRUE /\ open = TRUE /\ intents = Empty /\ results = Empty
    /\ saved = [intents |-> Empty, results |-> Empty]
    /\ inFlight = {} /\ call = [c \in Calls |-> Unsent] /\ effects = [r \in Requests |-> <<>>]

Serve(c) ==
    \/ Effect(c) \/ CommandEnds(c) \/ WaitFinds(c) \/ WaitSleeps(c) \/ WaitThrows(c) \/ WaitEnds(c)
    \/ RestoreCloses(c) \/ RestoreReplaces(c) \/ RestoreEnds(c)

Next ==
    \/ \E c \in Calls : Mutate(c) \/ MutateClosed(c) \/ Serve(c)
    \/ TakeBackup \/ Crash \/ Restart

Spec == Init /\ [][Next]_vars
FairSpec == Spec /\ \A c \in Calls : WF_vars(Serve(c))

(***************************************************************************)
(* Properties.                                                             *)
(***************************************************************************)
\* The rows are of their tables, and no receipt is without its intent.
TypeOK ==
    /\ {up, open} \subseteq BOOLEAN
    /\ intents \in [Requests -> Bindings \cup {None}] /\ results \in [Requests -> Terminal \cup {None}]
    /\ \A r \in Requests : results[r] # None => intents[r] # None
    /\ inFlight \subseteq Requests
    /\ \A c \in Calls : call[c].answer \in Answers \cup {None}

\* CTL-REQ-003, CTL-REQ-004, CTL-REQ-006: whatever is retried, by whom, and whenever the server dies, the
\* work of a request is done once at most, and only as it was bound.
EffectOnce ==
    \A r \in Requests : Len(effects[r]) <= 1 /\ (effects[r] # <<>> => effects[r][1] = intents[r])

Told(c, a) == call[c].answer = a

\* CTL-REQ-004, CTL-REQ-007: calls of one request and one binding that are told an outcome are told the
\* same, success is only told of work that was done, and a receipt is never made up for an unknown one.
AnswersAgree ==
    \A c \in Calls : call[c].answer \in Terminal =>
        /\ results[call[c].id] = call[c].answer
        /\ intents[call[c].id] = call[c].binding
        /\ Told(c, "SUCCEEDED") => effects[call[c].id] # <<>>

\* mutate, executeClaimed and waitForResult together.
AtMostOnce == TypeOK /\ EffectOnce /\ AnswersAgree

\* control/service.js:53 "a fully successful restore would be reported to the caller as REQUEST_UNCERTAIN": that
\* must not happen, although the restore takes the request's own intent away.  (An id with a receipt in the
\* restored database had been used before.)
RestoreIsReported ==
    [][\A c \in Calls : (At(c, "replaced") /\ results[call[c].id] = None /\ call'[c].pc = "answered" /\ up')
          => call'[c].answer \in Terminal]_vars

\* waitForResult: a call is answered, also when whoever executed its request is gone.
CallsAreAnswered == \A c \in Calls : call[c].pc # "unsent" ~> call[c].pc = "answered"
-----------------------------------------------------------------------------
(* Promises of the repository that the code does not keep: section 8 of the  *)
(* README has the behaviour that contradicts each.                           *)

\* control/service.js:203 (CTL-REQ-005): REQUEST_UNCERTAIN says of a request that it "has durable intent but no
\* terminal receipt".
UncertainIsTrue ==
    [][\A c \in Calls : (At(c, "slept") /\ call'[c].answer = "UNCERTAIN") => results[call[c].id] = None]_vars

Executing(c, r) == call[c].id = r /\ call[c].pc \in {"executing", "ran", "closed", "replaced"}

\* CTL-REQ-005: "Concurrent exact retries MAY wait for the first owner [...]; they MUST NOT redispatch."
OneOwner == \A c, d \in Calls, r \in Requests : (Executing(c, r) /\ Executing(d, r)) => c = d
=============================================================================
