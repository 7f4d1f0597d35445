------------------------ MODULE ControlRequestsProofs ------------------------
(***************************************************************************)
(* Proofs about ControlRequests for every set of calls, request ids and    *)
(* bindings, with crashes and receipts that fail to be written: without a  *)
(* restore among the commands, the work of a request is done once at most  *)
(* and answered once.  (A restore takes the ledger back to an earlier      *)
(* state, and the answers with it: section 8 of the README.)  With one,    *)
(* the ledger keeps its form, and a restore that is over is reported.      *)
(***************************************************************************)
EXTENDS ControlRequests, SequenceTheorems, TLAPS

Places == {"unsent", "executing", "ran", "waiting", "slept", "answered", "closed", "replaced"}
Frame  == [pc : Places, id : Requests \cup {None}, binding : Bindings \cup {None}, answer : Answers \cup {None}]

\* The rows, and the calls: one that was sent has an id and a binding, one that is under way no answer.
Typed ==
    /\ up \in BOOLEAN /\ inFlight \subseteq Requests
    /\ intents \in [Requests -> Bindings \cup {None}] /\ results \in [Requests -> Terminal \cup {None}]
    /\ effects \in [Requests -> Seq(Bindings)]
    /\ call \in [Calls -> Frame]
    /\ \A c \in Calls :
         /\ call[c].pc # "unsent" => call[c].id \in Requests /\ call[c].binding \in Bindings
         /\ call[c].pc # "answered" => call[c].answer = None

\* A request: nothing comes of it without an intent, its work is done at most once and as it was bound, and it
\* is only said to have succeeded when it was done.
RequestOK(r) ==
    /\ intents[r] = None => results[r] = None /\ effects[r] = <<>>
    /\ effects[r] = <<>> \/ effects[r] = <<intents[r]>>
    /\ results[r] = "SUCCEEDED" => effects[r] # <<>>

Owns(c) == call[c].pc \in {"executing", "ran"}

\* A call: the one that executes a request has its intent and no receipt; the ones that wait are for the same.
CallOK(c) ==
    /\ Owns(c) => intents[call[c].id] = call[c].binding /\ results[call[c].id] = None
    /\ call[c].pc = "executing" => effects[call[c].id] = <<>>
    /\ call[c].pc = "ran" => effects[call[c].id] # <<>>
    /\ call[c].pc \in {"waiting", "slept"} => intents[call[c].id] = call[c].binding
    /\ call[c].answer \in Terminal =>
         results[call[c].id] = call[c].answer /\ intents[call[c].id] = call[c].binding

OneOwnerEach == \A c, d \in Calls : Owns(c) /\ Owns(d) /\ call[c].id = call[d].id => c = d

\* Nothing closes the database or replaces it.
Steady == open = TRUE /\ \A c \in Calls : call[c].pc \notin {"closed", "replaced"}

LedgerOK == Steady /\ (\A r \in Requests : RequestOK(r)) /\ (\A c \in Calls : CallOK(c)) /\ OneOwnerEach

RInv == Typed /\ LedgerOK
-----------------------------------------------------------------------------
\* A call that is answered, or waits, without a word to the ledger.
LEMMA CallMoves ==
  ASSUME RInv, NEW c \in Calls, NEW f \in Frame, call' = [call EXCEPT ![c] = f],
         UNCHANGED <<up, open, intents, results, effects>>, inFlight' \subseteq inFlight,
         f.pc \in {"answered", "waiting", "slept"}, f.id \in Requests, f.binding \in Bindings,
         f.pc # "answered" => f.answer = None /\ intents[f.id] = f.binding,
         f.answer \in Terminal => results[f.id] = f.answer /\ intents[f.id] = f.binding
  PROVE  RInv'
<1>. USE DEF RInv
<1>1. call'[c] = f /\ \A d \in Calls : d # c => call'[d] = call[d] BY DEF Typed
<1>2. Typed' BY <1>1 DEF Typed
<1>3. Steady' BY <1>1 DEF LedgerOK, Steady
<1>4. \A r \in Requests : RequestOK(r)' BY DEF LedgerOK, RequestOK
<1>5. ASSUME NEW d \in Calls PROVE CallOK(d)'
  <2>1. CASE d = c BY <1>1, <2>1 DEF CallOK, Owns
  <2>2. CASE d # c
    <3>1. call'[d] = call[d] BY <1>1, <2>2
    <3>2. CallOK(d) BY DEF LedgerOK
    <3>. QED BY <3>1, <3>2 DEF CallOK, Owns
  <2>. QED BY <2>1, <2>2
<1>6. OneOwnerEach' BY <1>1 DEF LedgerOK, OneOwnerEach, Owns
<1>. QED BY <1>2, <1>3, <1>4, <1>5, <1>6 DEF LedgerOK

\* mutate: an id that is not claimed yet is claimed, and any other answered or waited for.
LEMMA MutateStep ==
  ASSUME RequestsAssumption, RInv, NEW c \in Calls, Mutate(c)
  PROVE  RInv'
<1>. USE DEF RInv
<1>1. PICK r \in Requests, b \in Bindings : Execute(c, r, b) \/ Reply(c, r, b) BY DEF Mutate
<1>2. UNCHANGED <<up, open, results, effects>> BY DEF Mutate
<1>3. None \notin Bindings /\ None \notin Terminal BY DEF RequestsAssumption, Terminal
<1>4. CASE Reply(c, r, b)
  <2>1. PICK pc \in {"answered", "waiting"}, a \in Answers \cup {None} :
          /\ Received(c, r, b, pc, a)
          /\ pc # "answered" => a = None /\ intents[r] = b
          /\ a \in Terminal => results[r] = a /\ intents[r] = b
    <3>1. CASE intents[r] # b
      <4>1. Received(c, r, b, "answered", "CONFLICT") BY <1>4, <3>1 DEF Reply
      <4>. QED BY <4>1 DEF Answers, Terminal
    <3>2. CASE intents[r] = b /\ results[r] # None
      <4>1. Received(c, r, b, "answered", results[r]) BY <1>4, <3>2 DEF Reply
      <4>2. results[r] \in Terminal BY <3>2 DEF Typed
      <4>. QED BY <3>2, <4>1, <4>2 DEF Answers
    <3>3. CASE intents[r] = b /\ results[r] = None
      <4>1. Received(c, r, b, "waiting", None) BY <1>4, <3>3 DEF Reply
      <4>. QED BY <1>3, <3>3, <4>1
    <3>. QED BY <3>1, <3>2, <3>3
  <2>2. PICK f \in Frame : /\ call' = [call EXCEPT ![c] = f]
                           /\ f.pc = pc /\ f.id = r /\ f.binding = b /\ f.answer = a
    <3>1. [pc |-> pc, id |-> r, binding |-> b, answer |-> a] \in Frame BY DEF Frame, Places
    <3>. QED BY <2>1, <3>1 DEF Received
  <2>3. UNCHANGED <<intents, inFlight>> BY <1>4 DEF Reply
  <2>. QED BY <1>2, <2>1, <2>2, <2>3, CallMoves
<1>5. CASE Execute(c, r, b)
  <2>1. /\ intents[r] = None /\ intents' = [intents EXCEPT ![r] = b] /\ inFlight' = inFlight \cup {r}
    BY <1>5 DEF Execute, Claimable
  <2>2. PICK f \in Frame : /\ call' = [call EXCEPT ![c] = f]
                           /\ f.pc = "executing" /\ f.id = r /\ f.binding = b /\ f.answer = None
    <3>1. [pc |-> "executing", id |-> r, binding |-> b, answer |-> None] \in Frame BY DEF Frame, Places
    <3>. QED BY <1>5, <3>1 DEF Execute, Received
  <2>3. call'[c] = f /\ \A d \in Calls : d # c => call'[d] = call[d] BY <2>2 DEF Typed
  <2>4. intents'[r] = b /\ \A q \in Requests : q # r => intents'[q] = intents[q] BY <2>1 DEF Typed
  <2>5. Typed' BY <1>2, <2>1, <2>2, <2>3, <2>4 DEF Typed
  <2>6. results[r] = None /\ effects[r] = <<>> BY <2>1 DEF LedgerOK, RequestOK
  <2>7. ASSUME NEW q \in Requests PROVE RequestOK(q)'
    <3>1. RequestOK(q) BY DEF LedgerOK
    <3>. QED BY <1>2, <1>3, <2>4, <2>6, <3>1 DEF RequestOK, Terminal
  <2>8. ASSUME NEW d \in Calls, d # c
        PROVE  CallOK(d)' /\ (Owns(d) => call[d].id # r)
    <3>1. CallOK(d) /\ call'[d] = call[d] BY <2>3, <2>8 DEF LedgerOK
    <3>2. call[d].pc # "unsent" => call[d].binding # None /\ call[d].id \in Requests BY <1>3 DEF Typed
    <3>3. (Owns(d) \/ call[d].pc \in {"waiting", "slept"}) => call[d].id # r
      BY <2>1, <3>1, <3>2 DEF CallOK, Owns
    <3>4. call[d].answer \in Terminal => call[d].id # r
      BY <1>3, <2>6, <3>1 DEF CallOK
    <3>5. call[d].answer \in Terminal => call[d].pc # "unsent" BY <1>3 DEF Typed
    <3>. QED BY <1>2, <2>4, <3>1, <3>2, <3>3, <3>4, <3>5 DEF CallOK, Owns
  <2>9. CallOK(c)' BY <1>2, <1>3, <2>2, <2>3, <2>4, <2>6 DEF CallOK, Owns
  <2>10. OneOwnerEach' BY <2>2, <2>3, <2>8 DEF LedgerOK, OneOwnerEach, Owns
  <2>11. Steady' BY <1>2, <2>2, <2>3 DEF LedgerOK, Steady
  <2>. QED BY <2>5, <2>7, <2>8, <2>9, <2>10, <2>11 DEF LedgerOK
<1>. QED BY <1>1, <1>4, <1>5

\* The work of a request that is executed is done by its only owner.
LEMMA EffectStep ==
  ASSUME RequestsAssumption, RInv, NEW c \in Calls, Effect(c)
  PROVE  RInv'
<1>. USE DEF RInv
<1>1. PICK r \in Requests, b \in Bindings : r = call[c].id /\ b = call[c].binding
  BY DEF Effect, At, Typed
<1>2. /\ call[c].pc = "executing" /\ UNCHANGED <<up, open, intents, results, inFlight>>
      /\ effects' = [effects EXCEPT ![r] = Append(effects[r], b)]
      /\ call' = [call EXCEPT ![c].pc = "ran"]
  BY <1>1 DEF Effect, At, ledger
<1>3. intents[r] = b /\ results[r] = None /\ effects[r] = <<>>
  BY <1>1, <1>2 DEF LedgerOK, CallOK, Owns
<1>4. Append(effects[r], b) = <<b>> /\ <<b>> \in Seq(Bindings) /\ <<b>> # <<>> BY <1>3
<1>5. effects'[r] = <<b>> /\ \A q \in Requests : q # r => effects'[q] = effects[q]
  BY <1>2, <1>4 DEF Typed
<1>6. /\ call'[c] \in Frame /\ call'[c].pc = "ran" /\ call'[c].id = r /\ call'[c].binding = b
      /\ call'[c].answer = None
      /\ \A d \in Calls : d # c => call'[d] = call[d]
  BY <1>1, <1>2 DEF Typed, Frame, Places
<1>7. Typed'
  <2>1. effects' \in [Requests -> Seq(Bindings)] BY <1>2, <1>4, <1>5 DEF Typed
  <2>. QED BY <1>2, <1>6, <2>1 DEF Typed
<1>8. ASSUME NEW q \in Requests PROVE RequestOK(q)'
  <2>1. RequestOK(q) /\ b # None BY DEF LedgerOK, RequestsAssumption
  <2>. QED BY <1>2, <1>3, <1>4, <1>5, <2>1 DEF RequestOK
<1>9. ASSUME NEW d \in Calls PROVE CallOK(d)'
  <2>1. CASE d = c BY <1>2, <1>3, <1>4, <1>5, <1>6, <2>1 DEF CallOK, Owns, RequestsAssumption, Terminal
  <2>2. CASE d # c
    <3>1. CallOK(d) /\ call'[d] = call[d] BY <1>6, <2>2 DEF LedgerOK
    <3>2. Owns(d) => call[d].id # r BY <1>1, <1>2, <2>2 DEF LedgerOK, OneOwnerEach, Owns
    <3>3. Owns(d) => call[d].id \in Requests BY DEF Owns, Typed
    <3>. QED BY <1>2, <1>5, <3>1, <3>2, <3>3 DEF CallOK, Owns
  <2>. QED BY <2>1, <2>2
<1>10. OneOwnerEach' BY <1>1, <1>2, <1>6 DEF LedgerOK, OneOwnerEach, Owns
<1>11. Steady' BY <1>2, <1>6 DEF LedgerOK, Steady
<1>. QED BY <1>7, <1>8, <1>9, <1>10, <1>11 DEF LedgerOK

\* The receipt is written by the only owner, and nobody was told another answer.
LEMMA RecordStep ==
  ASSUME RequestsAssumption, RInv, NEW c \in Calls, Owns(c), NEW outcome \in Terminal,
         outcome = "SUCCEEDED" => call[c].pc = "ran",
         inFlight' \subseteq inFlight, UNCHANGED <<up, open, effects>>, Record(c, outcome)
  PROVE  RInv'
<1>. USE DEF RInv
<1>1. PICK r \in Requests, b \in Bindings : r = call[c].id /\ b = call[c].binding
  BY DEF Owns, Typed
<1>2. intents[r] = b /\ results[r] = None /\ b # None
  BY <1>1 DEF LedgerOK, CallOK, RequestsAssumption
<1>3. Reinstated(c) = intents BY <1>1, <1>2 DEF Reinstated
<1>4. /\ intents' = intents /\ results' = [results EXCEPT ![r] = outcome]
      /\ call' = [call EXCEPT ![c].pc = "answered", ![c].answer = outcome]
  BY <1>1, <1>2, <1>3 DEF Record, Recordable, Answered
<1>5. results'[r] = outcome /\ \A q \in Requests : q # r => results'[q] = results[q]
  BY <1>4 DEF Typed
<1>6. /\ call'[c] \in Frame /\ call'[c].pc = "answered" /\ call'[c].id = r /\ call'[c].binding = b
      /\ call'[c].answer = outcome
      /\ \A d \in Calls : d # c => call'[d] = call[d]
  <2>1. call[c] \in Frame BY DEF Typed
  <2>2. call' = [call EXCEPT ![c] = [call[c] EXCEPT !.pc = "answered", !.answer = outcome]]
    BY <1>4, <2>1 DEF Typed
  <2>3. outcome \in Answers BY DEF Answers
  <2>. QED BY <1>1, <2>1, <2>2, <2>3 DEF Typed, Frame, Places
<1>7. Typed' BY <1>4, <1>5, <1>6 DEF Typed
<1>8. ASSUME NEW q \in Requests PROVE RequestOK(q)'
  <2>1. RequestOK(q) BY DEF LedgerOK
  <2>2. outcome = "SUCCEEDED" => effects[r] # <<>> BY <1>1 DEF LedgerOK, CallOK
  <2>. QED BY <1>2, <1>4, <1>5, <2>1, <2>2 DEF RequestOK
<1>9. ASSUME NEW d \in Calls PROVE CallOK(d)'
  <2>1. CASE d = c BY <1>2, <1>4, <1>5, <1>6, <2>1 DEF CallOK, Owns
  <2>2. CASE d # c
    <3>1. CallOK(d) /\ call'[d] = call[d] BY <1>6, <2>2 DEF LedgerOK
    <3>2. Owns(d) => call[d].id # r /\ call[d].id \in Requests
      BY <1>1, <2>2 DEF LedgerOK, OneOwnerEach, Owns, Typed
    <3>3. None \notin Terminal BY DEF RequestsAssumption, Terminal
    <3>4. call[d].answer \in Terminal => call[d].id # r /\ call[d].id \in Requests
      BY <1>2, <3>1, <3>3 DEF CallOK, Typed
    <3>. QED BY <1>4, <1>5, <3>1, <3>2, <3>4 DEF CallOK, Owns
  <2>. QED BY <2>1, <2>2
<1>10. OneOwnerEach' BY <1>6 DEF LedgerOK, OneOwnerEach, Owns
<1>11. Steady' BY <1>6 DEF LedgerOK, Steady
<1>. QED BY <1>7, <1>8, <1>9, <1>10, <1>11 DEF LedgerOK

\* A call that is told something that is no outcome.
LEMMA Untold ==
  ASSUME RequestsAssumption, RInv, NEW c \in Calls, call[c].pc # "unsent",
         NEW a \in Answers \ Terminal, call' = Answered(c, a),
         UNCHANGED <<up, open, intents, results, effects>>, inFlight' \subseteq inFlight
  PROVE  RInv'
<1>1. call[c] \in Frame /\ call[c].id \in Requests /\ call[c].binding \in Bindings BY DEF RInv, Typed
<1>2. PICK f \in Frame : /\ call' = [call EXCEPT ![c] = f] /\ f.pc = "answered" /\ f.answer = a
                         /\ f.id = call[c].id /\ f.binding = call[c].binding
  <2>. DEFINE f == [call[c] EXCEPT !.pc = "answered", !.answer = a]
  <2>1. f \in Frame /\ f.pc = "answered" /\ f.answer = a /\ f.id = call[c].id /\ f.binding = call[c].binding
    BY <1>1 DEF Frame, Places
  <2>2. call' = [call EXCEPT ![c] = f] BY DEF Answered, RInv, Typed
  <2>. HIDE DEF f
  <2>. QED BY <2>1, <2>2
<1>. QED BY <1>1, <1>2, CallMoves

\* The end of a command, with its receipt or without.
LEMMA CommandStep ==
  ASSUME RequestsAssumption, RInv, NEW c \in Calls, CommandEnds(c)
  PROVE  RInv'
<1>1. PICK outcome \in Terminal \cup {"UNCERTAIN"} :
        Finish(c, outcome) /\ (outcome = "SUCCEEDED" => call[c].pc = "ran")
  BY DEF CommandEnds, At, Terminal
<1>2. Owns(c) BY DEF CommandEnds, At, Owns
<1>3. inFlight' \subseteq inFlight /\ UNCHANGED <<up, open, effects>> BY <1>1 DEF Finish
<1>4. CASE outcome \in Terminal /\ Record(c, outcome) BY <1>1, <1>2, <1>3, <1>4, RecordStep
<1>5. CASE RecordFails(c)
  <2>1. "UNCERTAIN" \in Answers \ Terminal BY DEF Answers, Terminal
  <2>2. UNCHANGED <<intents, results>> /\ call' = Answered(c, "UNCERTAIN") BY <1>5 DEF RecordFails, ledger
  <2>. QED BY <1>2, <1>3, <2>1, <2>2, Untold DEF Owns
<1>. QED BY <1>1, <1>4, <1>5 DEF Finish

\* waitForResult.
LEMMA WaitStep ==
  ASSUME RequestsAssumption, RInv, NEW c \in Calls, WaitFinds(c) \/ WaitSleeps(c) \/ WaitEnds(c)
  PROVE  RInv'
<1>1. call[c] \in Frame /\ call[c].pc \in {"waiting", "slept"}
  BY DEF WaitFinds, WaitSleeps, WaitEnds, At, RInv, Typed
<1>2. PICK r \in Requests : r = call[c].id /\ call[c].binding \in Bindings /\ intents[r] = call[c].binding
  BY <1>1 DEF RInv, Typed, LedgerOK, CallOK
<1>3. UNCHANGED <<up, open, intents, results, inFlight, effects>>
  BY DEF WaitFinds, WaitSleeps, WaitEnds, ledger
<1>4. CASE WaitFinds(c)
  <2>1. results[r] \in Terminal /\ call' = Answered(c, results[r]) BY <1>2, <1>4 DEF WaitFinds, RInv, Typed
  <2>2. PICK f \in Frame : /\ call' = [call EXCEPT ![c] = f] /\ f.pc = "answered" /\ f.answer = results[r]
                           /\ f.id = r /\ f.binding = call[c].binding
    <3>. DEFINE f == [call[c] EXCEPT !.pc = "answered", !.answer = results[r]]
    <3>1. f \in Frame /\ f.pc = "answered" /\ f.answer = results[r] /\ f.id = r /\ f.binding = call[c].binding
      BY <1>1, <1>2, <2>1 DEF Frame, Places, Answers
    <3>2. call' = [call EXCEPT ![c] = f] BY <2>1 DEF Answered, RInv, Typed
    <3>. HIDE DEF f
    <3>. QED BY <3>1, <3>2
  <2>. QED BY <1>2, <1>3, <2>2, CallMoves
<1>5. CASE WaitSleeps(c)
  <2>1. PICK f \in Frame : /\ call' = [call EXCEPT ![c] = f] /\ f.pc = "slept" /\ f.answer = None
                           /\ f.id = r /\ f.binding = call[c].binding
    <3>. DEFINE f == [call[c] EXCEPT !.pc = "slept"]
    <3>1. call[c].answer = None BY <1>1 DEF RInv, Typed
    <3>2. f \in Frame /\ f.pc = "slept" /\ f.answer = None /\ f.id = r /\ f.binding = call[c].binding
      BY <1>1, <1>2, <3>1 DEF Frame, Places
    <3>3. call' = [call EXCEPT ![c] = f] BY <1>5 DEF WaitSleeps, RInv, Typed
    <3>. HIDE DEF f
    <3>. QED BY <3>2, <3>3
  <2>2. None \notin Terminal BY DEF RequestsAssumption, Terminal
  <2>. QED BY <1>2, <1>3, <2>1, <2>2, CallMoves
<1>6. CASE WaitEnds(c)
  <2>1. PICK a \in {"IN_PROGRESS", "UNCERTAIN"} : call' = Answered(c, a) BY <1>6 DEF WaitEnds
  <2>2. a \in Answers \ Terminal BY DEF Answers, Terminal
  <2>. QED BY <1>1, <1>3, <2>1, <2>2, Untold
<1>. QED BY <1>4, <1>5, <1>6

\* A server that dies takes its calls with it, and leaves the ledger.
LEMMA CrashStep ==
  ASSUME RequestsAssumption, RInv, Crash
  PROVE  RInv'
<1>. USE DEF RInv
<1>1. UNCHANGED <<open, intents, results, effects>> /\ up' = FALSE /\ inFlight' = {} BY DEF Crash, ledger
<1>2. ASSUME NEW d \in Calls
      PROVE  /\ call'[d] \in Frame /\ call'[d].pc \in {"unsent", "answered"}
             /\ call'[d].id = call[d].id /\ call'[d].binding = call[d].binding
             /\ call'[d].answer \in Terminal => call'[d].answer = call[d].answer
             /\ call'[d].pc # "answered" => call'[d] = call[d]
             /\ call'[d].pc # "unsent" => call[d].pc # "unsent"
  <2>1. call[d] \in Frame BY DEF Typed
  <2>2. call'[d] = IF call[d].pc \in {"unsent", "answered"} THEN call[d]
                   ELSE [call[d] EXCEPT !.pc = "answered", !.answer = "LOST"]
    BY DEF Crash
  <2>3. "LOST" \in Answers /\ "LOST" \notin Terminal BY DEF Answers, Terminal
  <2>4. CASE call[d].pc \in {"unsent", "answered"} BY <2>1, <2>2, <2>4
  <2>5. CASE call[d].pc \notin {"unsent", "answered"}
    BY <2>1, <2>2, <2>3, <2>5 DEF Frame, Places
  <2>. QED BY <2>4, <2>5
<1>3. call' \in [Calls -> Frame] BY <1>2 DEF Crash
<1>4. Typed' BY <1>1, <1>2, <1>3 DEF Typed
<1>5. \A r \in Requests : RequestOK(r)' BY <1>1 DEF LedgerOK, RequestOK
<1>6. ASSUME NEW d \in Calls PROVE CallOK(d)'
  <2>1. CallOK(d) BY DEF LedgerOK
  <2>. QED BY <1>1, <1>2, <2>1 DEF CallOK, Owns
<1>7. OneOwnerEach' BY <1>2 DEF OneOwnerEach, Owns
<1>8. Steady' BY <1>1, <1>2 DEF LedgerOK, Steady
<1>. QED BY <1>4, <1>5, <1>6, <1>7, <1>8 DEF LedgerOK

\* What is left changes nothing of a ledger without restores.
LEMMA IdleStep ==
  ASSUME RInv, UNCHANGED <<intents, results, inFlight, call, effects>>, up' \in BOOLEAN, open' = open
  PROVE  RInv'
BY DEF RInv, Typed, LedgerOK, Steady, RequestOK, CallOK, OneOwnerEach, Owns

\* An empty ledger, and no call yet.
LEMMA RequestsInit == RequestsAssumption /\ Init => RInv
<1>. SUFFICES ASSUME RequestsAssumption, Init PROVE RInv OBVIOUS
<1>1. Unsent \in Frame BY DEF Unsent, Frame, Places
<1>2. <<>> \in Seq(Bindings) BY EmptySeq
<1>3. Typed BY <1>1, <1>2 DEF Init, Typed, Empty, Unsent
<1>4. LedgerOK
  BY DEF Init, LedgerOK, Steady, RequestOK, CallOK, OneOwnerEach, Owns, Empty, Unsent, RequestsAssumption, Terminal
<1>. QED BY <1>3, <1>4 DEF RInv

\* Without a restore every step is one of the lemmas above, or impossible.
LEMMA RequestsStep ==
  ASSUME RequestsAssumption, Restore = None, RInv, [Next]_vars
  PROVE  RInv'
<1>1. Steady BY DEF RInv, LedgerOK
<1>2. ASSUME NEW c \in Calls, Serve(c) PROVE RInv'
  <2>1. ~WaitThrows(c) /\ ~RestoreReplaces(c) /\ ~RestoreEnds(c)
    BY <1>1 DEF Steady, WaitThrows, RestoreReplaces, RestoreEnds, At
  <2>2. ~RestoreCloses(c)
    <3>1. call[c].pc = "executing" => call[c].binding # None BY DEF RInv, Typed, RequestsAssumption
    <3>. QED BY <3>1 DEF RestoreCloses, At
  <2>. QED BY <1>2, <2>1, <2>2, EffectStep, CommandStep, WaitStep DEF Serve
<1>3. ASSUME NEW c \in Calls, Mutate(c) PROVE RInv' BY <1>3, MutateStep
<1>4. ASSUME NEW c \in Calls PROVE ~MutateClosed(c) BY <1>1 DEF Steady, MutateClosed
<1>5. CASE TakeBackup BY <1>5, IdleStep DEF TakeBackup, ledger, RInv, Typed
<1>6. CASE Restart BY <1>1, <1>6, IdleStep DEF Restart, ledger, Steady
<1>7. CASE UNCHANGED vars BY <1>7, IdleStep DEF vars, RInv, Typed
<1>. QED BY <1>2, <1>3, <1>4, <1>5, <1>6, <1>7, CrashStep DEF Next

\* The calls, the ledger and the work that was done agree.
THEOREM RequestsInvariant ==
  ASSUME RequestsAssumption, Restore = None
  PROVE  Spec => []RInv
<1>1. Init => RInv BY RequestsInit
<1>2. RInv /\ [Next]_vars => RInv' BY RequestsStep
<1>. QED BY <1>1, <1>2, PTL DEF Spec

\* mutate, executeClaimed and waitForResult: whatever is retried, by whom, and whenever the server dies or a
\* receipt cannot be written, the work of a request is done once at most and only as it was bound, and the calls
\* of one request that are told an outcome are told the same, and a true one.
THEOREM DoneOnce ==
  ASSUME RequestsAssumption, Restore = None
  PROVE  Spec => []AtMostOnce
<1>1. RInv => AtMostOnce
  <2>. SUFFICES ASSUME RInv PROVE AtMostOnce OBVIOUS
  <2>1. None \notin Terminal BY DEF RequestsAssumption, Terminal
  <2>2. TypeOK
    <3>1. \A r \in Requests : results[r] # None => intents[r] # None BY DEF RInv, LedgerOK, RequestOK
    <3>2. \A c \in Calls : call[c].answer \in Answers \cup {None} BY DEF RInv, Typed, Frame
    <3>3. open \in BOOLEAN BY DEF RInv, LedgerOK, Steady
    <3>. QED BY <3>1, <3>2, <3>3 DEF RInv, Typed, TypeOK
  <2>3. EffectOnce
    <3>. SUFFICES ASSUME NEW r \in Requests
                  PROVE  Len(effects[r]) <= 1 /\ (effects[r] # <<>> => effects[r][1] = intents[r])
      BY DEF EffectOnce
    <3>1. effects[r] = <<>> \/ effects[r] = <<intents[r]>> BY DEF RInv, LedgerOK, RequestOK
    <3>2. CASE effects[r] = <<>> BY <3>2
    <3>3. CASE effects[r] = <<intents[r]>>
      <4>1. Len(<<intents[r]>>) = 1 /\ <<intents[r]>>[1] = intents[r] OBVIOUS
      <4>. QED BY <3>3, <4>1
    <3>. QED BY <3>1, <3>2, <3>3
  <2>4. AnswersAgree
    <3>. SUFFICES ASSUME NEW c \in Calls, call[c].answer \in Terminal
                  PROVE  /\ results[call[c].id] = call[c].answer
                         /\ intents[call[c].id] = call[c].binding
                         /\ Told(c, "SUCCEEDED") => effects[call[c].id] # <<>>
      BY DEF AnswersAgree
    <3>1. CallOK(c) BY DEF RInv, LedgerOK
    <3>2. call[c].id \in Requests BY <2>1 DEF RInv, Typed
    <3>3. RequestOK(call[c].id) BY <3>2 DEF RInv, LedgerOK
    <3>. QED BY <3>1, <3>3 DEF CallOK, RequestOK, Told
  <2>. QED BY <2>2, <2>3, <2>4 DEF AtMostOnce
<1>. QED BY <1>1, RequestsInvariant, PTL
-----------------------------------------------------------------------------
(* With restores                                                             *)

Receipted(i, s) == \A r \in Requests : s[r] # None => i[r] # None

\* The ledger, and its copy in the newest backup, whatever replaces the one by the other.
GInv ==
    /\ Typed /\ open \in BOOLEAN /\ Receipted(intents, results)
    /\ saved \in [intents : [Requests -> Bindings \cup {None}], results : [Requests -> Terminal \cup {None}]]
    /\ Receipted(saved.intents, saved.results)

\* A call that takes a step has its id and binding, and an answer only at its end.
LEMMA CallGoes ==
  ASSUME GInv, NEW c \in Calls, NEW f \in Frame, call' = [call EXCEPT ![c] = f],
         f.id \in Requests, f.binding \in Bindings, f.pc # "answered" => f.answer = None,
         up' \in BOOLEAN, open' \in BOOLEAN, inFlight' \subseteq Requests,
         intents' \in [Requests -> Bindings \cup {None}], results' \in [Requests -> Terminal \cup {None}],
         effects' \in [Requests -> Seq(Bindings)], saved' = saved, Receipted(intents', results')
  PROVE  GInv'
<1>1. call'[c] = f /\ \A d \in Calls : d # c => call'[d] = call[d] BY DEF GInv, Typed
<1>2. call' \in [Calls -> Frame] BY DEF GInv, Typed
<1>3. Typed' BY <1>1, <1>2 DEF GInv, Typed
<1>. QED BY <1>3 DEF GInv, Receipted

\* mutate.
LEMMA MutateTyped ==
  ASSUME RequestsAssumption, GInv, NEW c \in Calls, Mutate(c) \/ MutateClosed(c)
  PROVE  GInv'
<1>. DEFINE F(pc, r, b, a) == [pc |-> pc, id |-> r, binding |-> b, answer |-> a]
<1>0. UNCHANGED <<up, open, results, saved, effects>> /\ Typed /\ open \in BOOLEAN
  BY DEF Mutate, MutateClosed, ledger, GInv
<1>1. PICK r \in Requests, b \in Bindings, f \in Frame :
        /\ call' = [call EXCEPT ![c] = f] /\ f.id = r /\ f.binding = b /\ (f.pc # "answered" => f.answer = None)
        /\ intents' = intents \/ intents' = [intents EXCEPT ![r] = b]
        /\ inFlight' \subseteq inFlight \cup {r}
  <2>1. PICK r \in Requests, b \in Bindings, pc \in {"executing", "answered", "waiting"}, a \in Answers \cup {None} :
          /\ Received(c, r, b, pc, a) /\ (pc # "answered" => a = None)
          /\ intents' = intents \/ intents' = [intents EXCEPT ![r] = b]
          /\ inFlight' \subseteq inFlight \cup {r}
    <3>1. CASE MutateClosed(c)
      <4>1. "ERROR" \in Answers BY DEF Answers
      <4>. QED BY <3>1, <4>1 DEF MutateClosed, ledger
    <3>2. CASE Mutate(c)
      <4>1. PICK r \in Requests, b \in Bindings : Execute(c, r, b) \/ Reply(c, r, b) BY <3>2 DEF Mutate
      <4>2. CASE Execute(c, r, b) BY <4>2 DEF Execute
      <4>3. CASE Reply(c, r, b)
        <5>1. "CONFLICT" \in Answers /\ results[r] \in Answers \cup {None} BY <1>0 DEF Typed, Answers
        <5>. QED BY <4>3, <5>1 DEF Reply
      <4>. QED BY <4>1, <4>2, <4>3
    <3>. QED BY <3>1, <3>2
  <2>2. F(pc, r, b, a) \in Frame BY DEF Frame, Places
  <2>3. /\ F(pc, r, b, a).id = r /\ F(pc, r, b, a).binding = b /\ F(pc, r, b, a).pc = pc
        /\ F(pc, r, b, a).answer = a /\ call' = [call EXCEPT ![c] = F(pc, r, b, a)]
    BY <2>1 DEF Received
  <2>. HIDE DEF F
  <2>. QED BY <2>1, <2>2, <2>3
<1>2. intents' \in [Requests -> Bindings \cup {None}] /\ inFlight' \subseteq Requests BY <1>0, <1>1 DEF Typed
<1>3. Receipted(intents', results')
  <2>1. \A q \in Requests : intents'[q] = intents[q] \/ intents'[q] = b BY <1>0, <1>1 DEF Typed
  <2>. QED BY <1>0, <2>1 DEF GInv, Receipted, RequestsAssumption
<1>. QED BY <1>0, <1>1, <1>2, <1>3, CallGoes DEF Typed

\* A call goes to another place, and the ledger is what it was.
LEMMA CallTyped ==
  ASSUME GInv, NEW c \in Calls, call[c].pc # "unsent", NEW pc \in Places, NEW a \in Answers \cup {None},
         pc # "answered" => a = None,
         call' = [call EXCEPT ![c].pc = pc, ![c].answer = a],
         up' \in BOOLEAN, open' \in BOOLEAN, inFlight' \subseteq Requests,
         intents' \in [Requests -> Bindings \cup {None}], results' \in [Requests -> Terminal \cup {None}],
         effects' \in [Requests -> Seq(Bindings)], saved' = saved, Receipted(intents', results')
  PROVE  GInv'
<1>1. call[c] \in Frame /\ call[c].id \in Requests /\ call[c].binding \in Bindings BY DEF GInv, Typed
<1>. DEFINE f == [call[c] EXCEPT !.pc = pc, !.answer = a]
<1>2. /\ f \in Frame /\ f.id \in Requests /\ f.binding \in Bindings /\ f.pc = pc /\ f.answer = a
  BY <1>1 DEF Frame
<1>3. call' = [call EXCEPT ![c] = f] BY DEF GInv, Typed
<1>. HIDE DEF f
<1>. QED BY <1>2, <1>3, CallGoes

\* The same, for a call that has no answer yet.
LEMMA PlaceTyped ==
  ASSUME GInv, NEW c \in Calls, call[c].pc \notin {"unsent", "answered"}, NEW pc \in Places,
         call' = [call EXCEPT ![c].pc = pc],
         up' \in BOOLEAN, open' \in BOOLEAN, inFlight' \subseteq Requests,
         intents' \in [Requests -> Bindings \cup {None}], results' \in [Requests -> Terminal \cup {None}],
         effects' \in [Requests -> Seq(Bindings)], saved' = saved, Receipted(intents', results')
  PROVE  GInv'
<1>1. call[c] \in Frame /\ call[c].id \in Requests /\ call[c].binding \in Bindings /\ call[c].answer = None
  BY DEF GInv, Typed
<1>. DEFINE f == [call[c] EXCEPT !.pc = pc]
<1>2. /\ f \in Frame /\ f.id \in Requests /\ f.binding \in Bindings /\ f.pc = pc /\ f.answer = None
  BY <1>1 DEF Frame
<1>3. call' = [call EXCEPT ![c] = f] BY DEF GInv, Typed
<1>. HIDE DEF f
<1>. QED BY <1>2, <1>3, CallGoes

\* Record and RecordFails, of the end of a command and of a restore.
LEMMA RecordTyped ==
  ASSUME RequestsAssumption, GInv, NEW c \in Calls, call[c].pc # "unsent", NEW outcome \in Terminal,
         Record(c, outcome) \/ RecordFails(c),
         up' = up, open' \in BOOLEAN, saved' = saved, effects' = effects, inFlight' \subseteq inFlight
  PROVE  GInv'
<1>1. PICK r \in Requests, b \in Bindings : r = call[c].id /\ b = call[c].binding /\ b # None
  BY DEF GInv, Typed, RequestsAssumption
<1>2. /\ intents \in [Requests -> Bindings \cup {None}] /\ results \in [Requests -> Terminal \cup {None}]
      /\ up \in BOOLEAN /\ inFlight \subseteq Requests /\ effects \in [Requests -> Seq(Bindings)]
      /\ Receipted(intents, results)
  BY DEF GInv, Typed
<1>3. CASE /\ intents' = Reinstated(c) /\ results' = [results EXCEPT ![r] = outcome]
           /\ call' = [call EXCEPT ![c].pc = "answered", ![c].answer = outcome]
  <2>1. /\ intents' \in [Requests -> Bindings \cup {None}] /\ intents'[r] # None
        /\ \A q \in Requests : intents[q] # None => intents'[q] # None
    BY <1>1, <1>2, <1>3 DEF Reinstated
  <2>2. /\ results' \in [Requests -> Terminal \cup {None}]
        /\ \A q \in Requests : q # r => results'[q] = results[q]
    BY <1>2, <1>3
  <2>3. Receipted(intents', results') BY <1>2, <2>1, <2>2 DEF Receipted
  <2>4. outcome \in Answers /\ "answered" \in Places BY DEF Answers, Places
  <2>. QED BY <1>2, <1>3, <2>1, <2>2, <2>3, <2>4, CallTyped
<1>4. CASE UNCHANGED ledger /\ call' = Answered(c, "UNCERTAIN")
  <2>1. "UNCERTAIN" \in Answers /\ "answered" \in Places BY DEF Answers, Places
  <2>2. intents' = intents /\ results' = results BY <1>4 DEF ledger
  <2>. QED BY <1>2, <1>4, <2>1, <2>2, CallTyped DEF Answered
<1>. QED BY <1>1, <1>3, <1>4 DEF Record, RecordFails, Answered

\* Everything the server does on behalf of a call.
LEMMA ServeTyped ==
  ASSUME RequestsAssumption, GInv, NEW c \in Calls, Serve(c)
  PROVE  GInv'
<1>1. /\ intents \in [Requests -> Bindings \cup {None}] /\ results \in [Requests -> Terminal \cup {None}]
      /\ up \in BOOLEAN /\ open \in BOOLEAN /\ inFlight \subseteq Requests /\ effects \in [Requests -> Seq(Bindings)]
      /\ Receipted(intents, results)
  BY DEF GInv, Typed
<1>2. "SUCCEEDED" \in Terminal /\ {"ran", "slept", "closed", "replaced", "answered"} \subseteq Places
  BY DEF Terminal, Places
<1>3. CASE Effect(c)
  <2>1. /\ call[c].pc = "executing" /\ call' = [call EXCEPT ![c].pc = "ran"]
        /\ UNCHANGED <<up, open, intents, results, saved, inFlight>>
    BY <1>3 DEF Effect, At, ledger
  <2>2. PICK r \in Requests, b \in Bindings : r = call[c].id /\ b = call[c].binding BY <2>1 DEF GInv, Typed
  <2>3. effects' = [effects EXCEPT ![r] = Append(effects[r], b)] BY <1>3, <2>2 DEF Effect
  <2>4. effects' \in [Requests -> Seq(Bindings)] BY <1>1, <2>3
  <2>. QED BY <1>1, <1>2, <2>1, <2>4, PlaceTyped
<1>4. CASE CommandEnds(c)
  <2>1. PICK outcome \in Terminal \cup {"UNCERTAIN"} : Finish(c, outcome) /\ call[c].pc # "unsent"
    BY <1>4 DEF CommandEnds, At, Terminal
  <2>2. UNCHANGED <<up, open, saved, effects>> /\ inFlight' \subseteq inFlight BY <2>1 DEF Finish
  <2>3. CASE outcome \in Terminal /\ Record(c, outcome) BY <1>1, <2>1, <2>2, <2>3, RecordTyped
  <2>4. CASE RecordFails(c) BY <1>1, <1>2, <2>1, <2>2, <2>4, RecordTyped
  <2>. QED BY <2>1, <2>3, <2>4 DEF Finish
<1>5. CASE WaitFinds(c) \/ WaitThrows(c) \/ WaitEnds(c)
  <2>1. UNCHANGED <<up, open, intents, results, saved, inFlight, effects>> /\ call[c].pc \in {"waiting", "slept"}
    BY <1>5 DEF WaitFinds, WaitThrows, WaitEnds, At, ledger
  <2>2. PICK r \in Requests : r = call[c].id BY <2>1 DEF GInv, Typed
  <2>3. PICK a \in Answers \cup {None} : call' = [call EXCEPT ![c].pc = "answered", ![c].answer = a]
    <3>1. {"ERROR", "IN_PROGRESS", "UNCERTAIN"} \subseteq Answers BY DEF Answers
    <3>2. results[r] \in Answers \cup {None} BY <1>1, <2>2 DEF Answers
    <3>. QED BY <1>5, <2>2, <3>1, <3>2 DEF WaitFinds, WaitThrows, WaitEnds, Answered
  <2>. QED BY <1>1, <1>2, <2>1, <2>3, CallTyped
<1>6. CASE WaitSleeps(c)
  <2>1. /\ UNCHANGED <<up, open, intents, results, saved, inFlight, effects>> /\ call[c].pc = "waiting"
        /\ call' = [call EXCEPT ![c].pc = "slept"]
    BY <1>6 DEF WaitSleeps, At, ledger
  <2>. QED BY <1>1, <1>2, <2>1, PlaceTyped
<1>7. CASE RestoreCloses(c)
  <2>1. /\ UNCHANGED <<up, intents, results, saved, inFlight, effects>> /\ call[c].pc = "executing"
        /\ open' = FALSE /\ call' = [call EXCEPT ![c].pc = "closed"]
    BY <1>7 DEF RestoreCloses, At, ledger
  <2>. QED BY <1>1, <1>2, <2>1, PlaceTyped
<1>8. CASE RestoreReplaces(c)
  <2>1. /\ UNCHANGED <<up, open, saved, inFlight, effects>> /\ call[c].pc = "closed"
        /\ intents' = saved.intents /\ results' = saved.results /\ call' = [call EXCEPT ![c].pc = "replaced"]
    BY <1>8 DEF RestoreReplaces, At
  <2>2. /\ saved.intents \in [Requests -> Bindings \cup {None}] /\ saved.results \in [Requests -> Terminal \cup {None}]
        /\ Receipted(saved.intents, saved.results)
    BY DEF GInv
  <2>3. Receipted(intents', results') BY <2>1, <2>2
  <2>. QED BY <1>1, <1>2, <2>1, <2>2, <2>3, PlaceTyped
<1>9. CASE RestoreEnds(c)
  <2>1. PICK outcome \in Terminal : Reopens(c, outcome) /\ call[c].pc # "unsent"
    BY <1>9 DEF RestoreEnds, At, Terminal
  <2>2. /\ UNCHANGED <<up, saved, effects>> /\ inFlight' \subseteq inFlight /\ open' \in BOOLEAN
        /\ Record(c, outcome) \/ RecordFails(c)
    BY <2>1 DEF Reopens
  <2>. QED BY <2>1, <2>2, RecordTyped
<1>. QED BY <1>3, <1>4, <1>5, <1>6, <1>7, <1>8, <1>9 DEF Serve

\* What the server does of itself.
LEMMA ServerTyped ==
  ASSUME RequestsAssumption, GInv, TakeBackup \/ Crash \/ Restart \/ UNCHANGED vars
  PROVE  GInv'
<1>1. CASE TakeBackup
  <2>1. /\ UNCHANGED <<up, open, intents, results, inFlight, call, effects>>
        /\ saved' = [intents |-> intents, results |-> results]
    BY <1>1 DEF TakeBackup, ledger
  <2>2. saved'.intents = intents /\ saved'.results = results BY <2>1
  <2>3. Typed' BY <2>1 DEF GInv, Typed
  <2>4. saved' \in [intents : [Requests -> Bindings \cup {None}], results : [Requests -> Terminal \cup {None}]]
    BY <2>1 DEF GInv, Typed
  <2>. QED BY <2>1, <2>2, <2>3, <2>4 DEF GInv, Receipted
<1>2. CASE Restart BY <1>2 DEF Restart, GInv, Typed, ledger, Receipted
<1>3. CASE UNCHANGED vars BY <1>3 DEF vars, GInv, Typed, Receipted
<1>4. CASE Crash
  <2>1. UNCHANGED <<open, intents, results, saved, effects>> /\ up' = FALSE /\ inFlight' = {}
    BY <1>4 DEF Crash, ledger
  <2>2. ASSUME NEW d \in Calls
        PROVE  /\ call'[d] \in Frame /\ call'[d].id = call[d].id /\ call'[d].binding = call[d].binding
               /\ (call'[d].pc # "unsent" => call[d].pc # "unsent")
               /\ (call'[d].pc # "answered" => call'[d].answer = None)
    <3>1. call[d] \in Frame /\ (call[d].pc # "answered" => call[d].answer = None) BY DEF GInv, Typed
    <3>2. call'[d] = IF call[d].pc \in {"unsent", "answered"} THEN call[d]
                     ELSE [call[d] EXCEPT !.pc = "answered", !.answer = "LOST"]
      BY <1>4 DEF Crash
    <3>3. CASE call[d].pc \in {"unsent", "answered"} BY <3>1, <3>2, <3>3
    <3>4. CASE call[d].pc \notin {"unsent", "answered"}
      <4>1. "LOST" \in Answers BY DEF Answers
      <4>. QED BY <3>1, <3>2, <3>4, <4>1 DEF Frame, Places
    <3>. QED BY <3>3, <3>4
  <2>3. call' \in [Calls -> Frame] BY <1>4, <2>2 DEF Crash
  <2>4. Typed' BY <2>1, <2>2, <2>3 DEF GInv, Typed
  <2>. QED BY <2>1, <2>4 DEF GInv, Receipted
<1>. QED BY <1>1, <1>2, <1>3, <1>4

\* An empty ledger, and a backup of it.
LEMMA TypedInit == RequestsAssumption /\ Init => GInv
<1>. SUFFICES ASSUME RequestsAssumption, Init PROVE GInv OBVIOUS
<1>1. RInv BY RequestsInit
<1>2. Empty \in [Requests -> Bindings \cup {None}] /\ Empty \in [Requests -> Terminal \cup {None}] BY DEF Empty
<1>3. saved.intents = Empty /\ saved.results = Empty BY DEF Init
<1>4. saved \in [intents : [Requests -> Bindings \cup {None}], results : [Requests -> Terminal \cup {None}]]
  BY <1>2 DEF Init
<1>5. Receipted(Empty, Empty) BY DEF Receipted, Empty
<1>. QED BY <1>1, <1>3, <1>4, <1>5 DEF GInv, RInv, Init

\* Every step keeps the form of the ledger.
LEMMA TypedStep ==
  ASSUME RequestsAssumption, GInv, [Next]_vars
  PROVE  GInv'
BY MutateTyped, ServeTyped, ServerTyped DEF Next

\* Whatever is backed up and restored when, the rows are of their tables and no receipt is without its intent.
THEOREM TypeCorrect ==
  ASSUME RequestsAssumption
  PROVE  Spec => [](GInv /\ TypeOK)
<1>1. Init => GInv BY TypedInit
<1>2. GInv /\ [Next]_vars => GInv' BY TypedStep
<1>3. GInv => TypeOK
  <2>. SUFFICES ASSUME GInv PROVE TypeOK OBVIOUS
  <2>1. \A c \in Calls : call[c].answer \in Answers \cup {None} BY DEF GInv, Typed, Frame
  <2>. QED BY <2>1 DEF GInv, Typed, TypeOK, Receipted
<1>. QED BY <1>1, <1>2, <1>3, PTL DEF Spec

\* A restore that has replaced the database is answered by its own receipt, or by the death of the server.
LEMMA ReportedStep ==
  ASSUME RequestsAssumption, Failing = FALSE, GInv, [Next]_vars, NEW c \in Calls, At(c, "replaced"),
         results[call[c].id] = None, call'[c].pc = "answered", up'
  PROVE  call'[c].answer \in Terminal
<1>1. PICK r \in Requests, b \in Bindings : /\ r = call[c].id /\ b = call[c].binding /\ b # None
                                            /\ call[c].pc = "replaced" /\ call[c] \in Frame
  BY DEF At, GInv, Typed, RequestsAssumption
<1>2. call \in [Calls -> Frame] /\ intents \in [Requests -> Bindings \cup {None}] BY DEF GInv, Typed
<1>3. CASE RestoreEnds(c)
  <2>1. PICK outcome \in Terminal : Record(c, outcome) BY <1>1, <1>3 DEF RestoreEnds, At, Reopens, Terminal
  <2>2. Reinstated(c)[r] # None BY <1>1, <1>2 DEF Reinstated
  <2>3. Recordable(c, Reinstated(c)) BY <1>1, <2>2 DEF Recordable
  <2>4. call' = [call EXCEPT ![c].pc = "answered", ![c].answer = outcome] BY <2>1, <2>3 DEF Record, Answered
  <2>. QED BY <1>1, <1>2, <2>4 DEF Frame
<1>4. ASSUME NEW d \in Calls, d # c, Serve(d) PROVE call'[c] = call[c]
  BY <1>2, <1>4 DEF Serve, Effect, CommandEnds, Finish, Record, RecordFails, Answered, WaitFinds, WaitSleeps, WaitThrows,
       WaitEnds, RestoreCloses, RestoreReplaces, RestoreEnds, Reopens
<1>5. ASSUME NEW d \in Calls, Mutate(d) \/ MutateClosed(d) PROVE call'[c] = call[c]
  <2>1. d # c BY <1>1, <1>5 DEF Mutate, MutateClosed, At
  <2>. QED BY <1>2, <1>5, <2>1 DEF Mutate, MutateClosed, Execute, Reply, Received
<1>6. CASE Serve(c)
  BY <1>1, <1>3, <1>6 DEF Serve, Effect, CommandEnds, WaitFinds, WaitSleeps, WaitThrows, WaitEnds, RestoreCloses,
       RestoreReplaces, At
<1>7. CASE TakeBackup \/ Restart \/ UNCHANGED vars BY <1>1, <1>7 DEF TakeBackup, Restart, vars
<1>8. CASE Crash BY <1>8 DEF Crash
<1>. QED BY <1>1, <1>3, <1>4, <1>5, <1>6, <1>7, <1>8 DEF Next

\* reinstateIntent: a restore that was carried out is reported as what it was, although it takes the intent of its
\* own request away.
THEOREM Reported ==
  ASSUME RequestsAssumption, Failing = FALSE
  PROVE  Spec => RestoreIsReported
<1>1. GInv /\ [Next]_vars =>
        [\A c \in Calls : (At(c, "replaced") /\ results[call[c].id] = None /\ call'[c].pc = "answered" /\ up')
            => call'[c].answer \in Terminal]_vars
  BY ReportedStep
<1>. QED BY <1>1, TypeCorrect, PTL DEF Spec, RestoreIsReported
=============================================================================
