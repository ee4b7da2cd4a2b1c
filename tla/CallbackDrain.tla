---------------------------- MODULE CallbackDrain ----------------------------
(***************************************************************************)
(* Proving from outside that a running game stands still: the observation  *)
(* of qa_callback_drain.py.  A gate (external) keeps the native game from   *)
(* beginning callbacks; it counts how often it was closed, and begins anew *)
(* with every boot.  The observer reads the gate's status, then the        *)
(* recording, then the status again, and holds no lock meanwhile.  After   *)
(* the recorder was restarted it must find what it found before.           *)
(***************************************************************************)
EXTENDS CaptureEvidence

VARIABLES
  gate,     \* external: [paused, generation]
  drain     \* the observer: [at, first, now]; an observation: [boot, generation, ...]

drainVars == <<gate, drain>>

Nothing == [boot |-> 0, generation |-> 0, asked |-> 0, seen |-> {}, native |-> 0, rows |-> 0]

DrainInit ==
  /\ gate = [paused |-> FALSE, generation |-> 0]
  /\ drain = [at |-> "idle", first |-> Nothing, now |-> Nothing]

-----------------------------------------------------------------------------
(* The gate and the recorder (external).                                   *)

\* (Assumed: the rows of a restored game are on disk before its gate is closed.)
Pauses ==
  /\ native.up /\ ~\E i \in 1..Len(native.queue) : native.queue[i].kind = "callback_resume_state"
  /\ ~gate.paused /\ gate.generation < recording.pauses
  /\ gate' = [paused |-> TRUE, generation |-> gate.generation + 1]
  /\ UNCHANGED <<captureVars, drain>>
Reopens ==
  /\ gate.paused /\ gate' = [gate EXCEPT !.paused = FALSE]
  /\ UNCHANGED <<captureVars, drain>>

\* The recorder starts again on the same journal.
RecorderRestarts ==
  /\ gate.paused /\ Unsealed /\ CountOf("resume") = 0
  /\ gym' = gym \o [i \in 1..2 |-> [kind |-> <<"resume", "runtime_context">>[i], cid |-> 0, choice |-> None]]
  /\ UNCHANGED <<recording, native, source, imported, calls, evidence, drainVars>>

-----------------------------------------------------------------------------
(* The observer.                                                           *)

Paused == native.up /\ gate.paused /\ Asked = {}
Goes(place) == drain' = [drain EXCEPT !.at = place]

\* asked is history: how many callbacks there had been.
ReadsStatus ==
  /\ drain.at \in {"idle", "done"} /\ Paused /\ Unsealed
  /\ drain' = [at |-> "reading", first |-> IF drain.at = "done" THEN drain.now ELSE Nothing,
               now |-> [Nothing EXCEPT !.boot = native.boot, !.generation = gate.generation,
                          !.asked = Len(calls)]]
  /\ UNCHANGED <<captureVars, gate>>

\* What was accepted is what was submitted: of a decision the response is compared,
\* and not the channel.
Agreed(k, ch, accepted) ==
  /\ accepted.channel \in {"action", "decision"} /\ ch.pick = accepted.pick
  /\ accepted.channel = "action" =>
       IF k = "decideMulligan" THEN accepted.params = "none" ELSE ch = accepted

\* Every callback begun is finished, answered, applied and recorded, in one source
\* that is wholly imported.  (The journal is read before the source, which only grows:
\* that they agree is as if both had been read at the first moment.)
Whole ==
  /\ imported = Len(source) /\ native.gaps = 0 /\ 1 \in At("initialization")
  /\ Continuous /\ Authenticated /\ Covered /\ Completed # {}
  /\ \A c \in Completed :
       /\ Joined(c) /\ InOrder(c) /\ SeenBySeat(c) /\ Applied(c)
       /\ Agreed(calls[c].kind, ChoiceOf(c), AcceptedOf(c))
ReadsRecording ==
  /\ drain.at = "reading"
  /\ IF Whole
       THEN drain' = [drain EXCEPT !.at = "read", !.now.seen = Completed, !.now.native = imported,
                        !.now.rows = Len(gym)]
       ELSE Goes("refused")
  /\ UNCHANGED <<captureVars, gate>>

\* Variant: the boot is not compared.
SameGeneration == gate.generation = drain.now.generation
SameEpoch == native.boot = drain.now.boot /\ gate.generation = drain.now.generation
ReadsStatusAgain ==
  /\ drain.at = "read"
  /\ Goes(IF ~(Paused /\ SameEpoch) THEN "refused" ELSE IF drain.first = Nothing THEN "done" ELSE "again")
  /\ UNCHANGED <<captureVars, gate>>

\* The second observation is the first; the rows since are those of one restart.
Unchanged ==
  \A f \in {"boot", "generation", "seen", "native"} : drain.now[f] = drain.first[f]
Since == [i \in 1..(Len(gym) - drain.first.rows) |-> gym[drain.first.rows + i].kind]
Verifies ==
  /\ drain.at = "again"
  /\ Goes(IF Unchanged /\ Since \in {<<>>, <<"resume", "runtime_context">>} THEN "verified" ELSE "refused")
  /\ UNCHANGED <<captureVars, gate>>

-----------------------------------------------------------------------------
\* Bound: what happens after the observer's verdict is not followed.
Watching == drain.at \notin {"refused", "verified"}

DrainNext ==
  \/ Watching /\ (CaptureStep \/ (~gate.paused /\ Asks)) /\ UNCHANGED drainVars
  \/ drain.at = "reading" /\ (\E n \in 0..Len(native.queue) : Imports(n)) /\ UNCHANGED drainVars
  \/ Watching /\ GoesDown /\ gate' = [paused |-> FALSE, generation |-> 0] /\ UNCHANGED drain
  \/ Watching /\ (Pauses \/ Reopens \/ RecorderRestarts)
  \/ ReadsStatus \/ ReadsRecording \/ ReadsStatusAgain \/ Verifies

\* An observation is of a game at rest: from the first status to the last no callback
\* was begun, and those it names are the ones that were played and kept.
ObservedAtRest ==
  drain.at = "read" /\ drain'.at \in {"done", "again"} =>
    /\ Len(calls) = drain.now.asked /\ Asked = {}
    /\ drain.now.seen = TakenAndKept

\* A restarted recorder has kept the recording: between the two observations nothing
\* was asked and no row of a callback was added.
ReopenedAtRest ==
  drain.at # "verified" /\ drain'.at = "verified" =>
    /\ drain.now.asked = drain.first.asked
    /\ \A i \in (drain.first.rows + 1)..Len(gym) : gym[i].cid = 0

DrainedMeansAtRest == [][ObservedAtRest /\ ReopenedAtRest]_<<captureVars, drainVars>>
DrainSpec == CaptureInit /\ DrainInit /\ [][DrainNext]_<<captureVars, drainVars>>
=============================================================================
