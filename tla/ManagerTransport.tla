-------------------------- MODULE ManagerTransport --------------------------
(***************************************************************************)
(* CodexAppServer (src/src/manager/codex-app-server.js): turns put to the  *)
(* manager's app server over one pipe.  A turn is asked, accepted or        *)
(* refused, and ends with a notification that names its thread and not the *)
(* turn.  The server is external: it answers in any order, late or never,   *)
(* and it may exit.  What a caller must know of a turn that failed is       *)
(* whether it may have run: only then was it paid for.                      *)
(***************************************************************************)
EXTENDS Naturals, Sequences

CONSTANTS
    Turns,     \* calls of runTurn
    Threads,   \* conversations
    Errors,    \* it may send error notifications
    MaxWire,   \* bound: messages under way from the server
    None

Outcomes == {"COMPLETED", "REFUSED", "FAILED", "STALE", "UNCERTAIN"}

TransportAssumption ==
    /\ None \notin Turns \cup Threads \cup Outcomes
    /\ Errors \in BOOLEAN /\ MaxWire \in Nat

VARIABLES
    server,   \* the app server: "up" or "gone"
    process,  \* the process of the manager: "up" or "crashed"
    active,   \* activeTurnByThread
    turn,     \* the turns, as the client knows them
    work,     \* the turns, as the server knows them
    wire      \* what the server has written and the client has not read

vars == <<server, process, active, turn, work, wire>>

Unasked == [thread |-> None, pc |-> "idle", text |-> None, settled |-> None, outcome |-> None]

InPlay(t) == turn[t].pc \in {"asked", "accepted"}
OnThread(th) == {t \in Turns : InPlay(t) /\ turn[t].thread = th}

Over(t, outcome) == [turn[t] EXCEPT !.pc = "over", !.outcome = outcome]
\* A turn ends, and its thread is free for another (the finally of runTurn).
Ends(t, outcome) ==
    /\ turn' = [turn EXCEPT ![t] = Over(t, outcome)]
    /\ active' = active \ {turn[t].thread}

(***************************************************************************)
(* runTurn: the door, and the request.                                     *)
(***************************************************************************)
\* A managed run stops at a turn that did not complete, and does not use its thread again.
Usable(th) == \A t \in Turns : turn[t].thread = th => turn[t].outcome \in {None, "COMPLETED", "REFUSED"}

\* Mutant: notifications are trusted to tell turns apart.
OpenDoor(th) == TRUE

Door(th) == th \notin active

Ask(t) ==
    /\ process = "up" /\ turn[t].pc = "idle"
    /\ \E th \in Threads :
          /\ Usable(th)
          /\ CASE ~Door(th) ->
                    /\ turn' = [turn EXCEPT ![t] = [Unasked EXCEPT !.thread = th, !.pc = "over", !.outcome = "REFUSED"]]
                    /\ UNCHANGED <<active, work>>
               [] Door(th) /\ server = "gone" ->
                    /\ turn' = [turn EXCEPT ![t] = [Unasked EXCEPT !.thread = th, !.pc = "over", !.outcome = "FAILED"]]
                    /\ UNCHANGED <<active, work>>
               [] OTHER ->
                    /\ turn' = [turn EXCEPT ![t] = [Unasked EXCEPT !.thread = th, !.pc = "asked"]]
                    /\ active' = active \cup {th}
                    /\ work' = [work EXCEPT ![t] = "sent"]
    /\ UNCHANGED <<server, process, wire>>

(***************************************************************************)
(* The app server.                                                         *)
(***************************************************************************)
Writes(t, from, to, kind) ==
    /\ server = "up" /\ work[t] = from /\ Len(wire) < MaxWire
    /\ work' = [work EXCEPT ![t] = to]
    /\ wire' = Append(wire, [kind |-> kind, of |-> t, thread |-> turn[t].thread])
    /\ UNCHANGED <<server, process, active, turn>>

Serve(t) ==
    \/ Writes(t, "sent", "refused", "reject")
    \/ Writes(t, "sent", "refused", "stale")
    \/ Writes(t, "sent", "running", "accept")
    \/ Writes(t, "sent", "ran", "inline")
    \/ Writes(t, "running", "answered", "item")
    \/ \E from \in {"running", "answered"} : Writes(t, from, "ran", "completed")

ServerErrors ==
    /\ Errors /\ server = "up" /\ Len(wire) < MaxWire
    /\ \E th \in Threads : wire' = Append(wire, [kind |-> "error", of |-> None, thread |-> th])
    /\ UNCHANGED <<server, process, active, turn, work>>

(***************************************************************************)
(* route and the listener of runTurn.                                      *)
(***************************************************************************)
\* The response to turn/start; one that was given up is not waited for.
ReadsResponse(m) ==
    LET t == m.of IN
    CASE turn[t].pc # "asked" -> UNCHANGED <<turn, active>>
      [] turn[t].pc = "asked" /\ m.kind = "reject" -> Ends(t, "FAILED")
      [] turn[t].pc = "asked" /\ m.kind = "stale" -> Ends(t, "STALE")
      [] turn[t].pc = "asked" /\ m.kind = "accept" ->
            IF turn[t].settled # None THEN Ends(t, turn[t].settled)
            ELSE turn' = [turn EXCEPT ![t].pc = "accepted"] /\ UNCHANGED active
      \* Some versions answer with the completed turn.
      [] turn[t].pc = "asked" /\ m.kind = "inline" ->
            /\ turn' = [turn EXCEPT ![t] =
                           [Over(t, IF turn[t].settled # None THEN turn[t].settled ELSE "COMPLETED")
                               EXCEPT !.text = IF turn[t].text = None THEN t ELSE turn[t].text]]
            /\ active' = active \ {m.thread}

\* Later messages overwrite earlier ones.
ReadsItem(m) ==
    /\ turn' = [t \in Turns |-> IF t \in OnThread(m.thread) THEN [turn[t] EXCEPT !.text = m.of] ELSE turn[t]]
    /\ UNCHANGED active

\* Settled: at once for a turn that was accepted, with its response for one that was not.
Settle(th, outcome) ==
    /\ turn' = [t \in Turns |->
                  CASE t \notin OnThread(th) -> turn[t]
                    [] t \in OnThread(th) /\ turn[t].pc = "accepted" -> Over(t, outcome)
                    [] OTHER -> [turn[t] EXCEPT !.settled = IF @ = None THEN outcome ELSE @]]
    /\ active' = IF \E t \in OnThread(th) : turn[t].pc = "accepted" THEN active \ {th} ELSE active

\* A rejection that nobody waits for yet ends the process.
Unhandled == {t \in Turns : turn[t].pc = "asked" /\ turn[t].settled = None}

ReadsError(m) == IF Unhandled \cap OnThread(m.thread) # {} THEN process' = "crashed" ELSE UNCHANGED process

Read ==
    /\ process = "up" /\ wire # <<>>
    /\ wire' = Tail(wire)
    /\ LET m == Head(wire) IN
       \/ m.kind \in {"reject", "stale", "accept", "inline"} /\ ReadsResponse(m) /\ UNCHANGED process
       \/ m.kind = "item" /\ ReadsItem(m) /\ UNCHANGED process
       \/ m.kind = "completed" /\ Settle(m.thread, "COMPLETED") /\ UNCHANGED process
       \/ m.kind = "error" /\ Settle(m.thread, "UNCERTAIN") /\ ReadsError(m)
    /\ UNCHANGED <<server, work>>

\* Mutant: a request that timed out is a request that failed.
CertainTimeout == "FAILED"

TimedOut == "UNCERTAIN"

\* The timer of the request.
RequestTimesOut(t) ==
    /\ process = "up" /\ turn[t].pc = "asked" /\ Ends(t, TimedOut)
    /\ UNCHANGED <<server, process, work, wire>>

\* Mutant: an accepted turn is waited for as long as it takes.
WaitsForEver(t) == FALSE

\* The timer of an accepted turn.
TurnTimesOut(t) ==
    /\ process = "up" /\ turn[t].pc = "accepted" /\ Ends(t, "UNCERTAIN")
    /\ UNCHANGED <<server, process, work, wire>>

\* The app server exits: requests are rejected, accepted turns are uncertain.
Exit ==
    /\ server = "up" /\ server' = "gone"
    /\ turn' = [t \in Turns |-> CASE turn[t].pc = "asked" -> Over(t, "FAILED")
                                  [] turn[t].pc = "accepted" -> Over(t, "UNCERTAIN")
                                  [] OTHER -> turn[t]]
    /\ active' = {}
    \* The turn that was being asked is settled too, and nobody waits for that.
    /\ process' = IF Unhandled # {} THEN "crashed" ELSE process
    /\ UNCHANGED <<work, wire>>

Init ==
    /\ server = "up" /\ process = "up" /\ active = {} /\ wire = <<>>
    /\ turn = [t \in Turns |-> Unasked] /\ work = [t \in Turns |-> "no"]

Timers(t) == RequestTimesOut(t) \/ TurnTimesOut(t)

Next ==
    \/ \E t \in Turns : Ask(t) \/ Serve(t) \/ Timers(t)
    \/ ServerErrors \/ Read \/ Exit

Spec == Init /\ [][Next]_vars

\* A timer that is set goes off.
FairSpec == Spec /\ \A t \in Turns : WF_vars(Timers(t))

(***************************************************************************)
(* Properties.                                                             *)
(***************************************************************************)
\* A thread is taken by nothing but a turn that is in play on it.
TypeOK ==
    /\ active \subseteq {turn[t].thread : t \in {u \in Turns : InPlay(u)}}
    /\ \A t \in Turns : turn[t].outcome \in Outcomes \cup {None}
    /\ \A t \in Turns : (turn[t].outcome # None) = (turn[t].pc = "over")

\* activeTurnByThread: whatever turns are asked for side by side, and whatever is refused or comes late, a
\* completed turn has run to its end and its text is its own.
AnswerIsOwn ==
    \A t \in Turns : turn[t].outcome = "COMPLETED" => (work[t] = "ran" /\ turn[t].text \in {None, t})

Ran(t) == work[t] \in {"running", "answered", "ran"}

\* runTurn: a turn that is replayed on a new thread, and one that was refused at the door, has not run and will not:
\* "Settling it as a plain failure would invite a retry that pays twice."  One that is reported as failed, and not
\* as uncertain, has not either, unless the app server exited before its response was read.
FailedIsUnpaid ==
    /\ \A t \in Turns : turn[t].outcome \in {"REFUSED", "STALE"} => ~Ran(t) /\ work[t] # "sent"
    /\ \A t \in Turns : turn[t].outcome = "FAILED" /\ server = "up" => ~Ran(t) /\ work[t] # "sent"

\* A turn that was asked ends, whatever the server does, unless the process of the manager does.
TurnsEnd == \A t \in Turns : InPlay(t) ~> (~InPlay(t) \/ process = "crashed")
-----------------------------------------------------------------------------
(* A promise of the repository that the code does not keep: section 8 of the *)
(* README has the behaviour that contradicts it.                             *)

\* codex-app-server.js:172, of every turn that is reported as failed.
FailedNeverRan == \A t \in Turns : turn[t].outcome = "FAILED" => ~Ran(t)
=============================================================================
