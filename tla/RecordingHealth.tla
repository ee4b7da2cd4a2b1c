--------------------------- MODULE RecordingHealth ---------------------------
(***************************************************************************)
(* The heartbeat of the recorder (recording_health.py).  A tick reads what *)
(* the native runtime says of itself over a socket, the proof its writers  *)
(* leave in a file, and the capture's own counters, and sends the sum;     *)
(* what was sent last is shown to the host.  A stop may come at any        *)
(* moment, from a signal handler, and only latches.  The native runtime    *)
(* (external) plays, writes, drains, is resumed and boots again meanwhile; *)
(* every drain has a name of its own (drainId), which a report carries.    *)
(***************************************************************************)
EXTENDS Integers

CONSTANTS
  Beats,        \* bound: the ticks of the reporter in a behaviour; -1: there is no recorder
  MaxAge,       \* units of time a proof is good for
  MaxBoots, MaxDrains, MaxTime

VARIABLES
  beats,        \* the ticks this behaviour has
  runtime,      \* external: [boot, games, pending, drain, quiet, drains]: drain is 0, or
                \* its name; quiet when it is acknowledged; drains counts them
  proof,        \* .native-health.json: [boot, pending, age]
  own,          \* the capture's counters: rows it has not imported
  reporter,     \* [at, status, report]
  stopping,     \* request_stop was called
  shown,        \* the last successful disposition: {} or {report}
  late          \* history: messages exchanged since the stop

healthVars == <<beats, runtime, proof, own, reporter, stopping, shown, late>>

NoStatus == [boot |-> 0, games |-> 0, drain |-> 0, quiet |-> FALSE]
HealthInit ==
  /\ beats \in Beats
  /\ runtime = [boot |-> 1, games |-> 1, pending |-> 1, drain |-> 0, quiet |-> FALSE, drains |-> 0]
  /\ proof = [boot |-> 1, pending |-> 1, age |-> 0]
  /\ own = 0 /\ reporter = [at |-> "rest", status |-> NoStatus, report |-> {}]
  /\ stopping = FALSE /\ shown = {} /\ late = 0

-----------------------------------------------------------------------------
(* The native runtime (external).                                          *)

\* A drain begins; once it is acknowledged no game starts until it ends.
Drains == /\ runtime.drain = 0 /\ runtime.drains < MaxDrains
          /\ runtime' = [runtime EXCEPT !.drain = runtime.drains + 1, !.drains = @ + 1]
          /\ UNCHANGED <<proof, own>>
DrainIsAcknowledged == /\ runtime.drain # 0 /\ ~runtime.quiet
                       /\ runtime' = [runtime EXCEPT !.quiet = TRUE]
                       /\ UNCHANGED <<proof, own>>
Resumes == /\ runtime.drain # 0 /\ runtime' = [runtime EXCEPT !.drain = 0, !.quiet = FALSE]
           /\ UNCHANGED <<proof, own>>
GameStarts == /\ ~runtime.quiet /\ runtime.games = 0 /\ runtime' = [runtime EXCEPT !.games = 1]
              /\ UNCHANGED <<proof, own>>
GameWrites == /\ runtime.games = 1 /\ runtime.pending = 0 /\ runtime' = [runtime EXCEPT !.pending = 1]
              /\ UNCHANGED <<proof, own>>
GameLeaves == /\ runtime.games = 1 /\ runtime' = [runtime EXCEPT !.games = 0]
              /\ UNCHANGED <<proof, own>>
RowLands == /\ runtime.pending = 1 /\ runtime' = [runtime EXCEPT !.pending = 0] /\ own' = 1
            /\ UNCHANGED proof
ProofIsMade == /\ proof' = [boot |-> runtime.boot, pending |-> runtime.pending, age |-> 0]
               /\ proof' # proof /\ UNCHANGED <<runtime, own>>
Boots == /\ runtime.boot < MaxBoots
         /\ runtime' = [runtime EXCEPT !.boot = @ + 1, !.games = 1, !.pending = 0,
                                       !.drain = 0, !.quiet = FALSE]
         /\ UNCHANGED <<proof, own>>
Ages == /\ proof.age < MaxTime /\ proof' = [proof EXCEPT !.age = @ + 1] /\ UNCHANGED <<runtime, own>>

Runtime ==
  /\ beats >= 0
  /\ \/ Drains \/ DrainIsAcknowledged \/ Resumes
     \/ GameStarts \/ GameWrites \/ GameLeaves \/ RowLands \/ ProofIsMade \/ Boots \/ Ages
  /\ UNCHANGED <<beats, reporter, stopping, shown, late>>

-----------------------------------------------------------------------------
(* A tick.                                                                 *)

AtPoint(place) == reporter.at = place
Goes(place) == reporter' = [reporter EXCEPT !.at = place]
Rests == [at |-> "rest", status |-> NoStatus, report |-> {}]
Exchanges == late' = IF stopping THEN late + 1 ELSE late
OfReporter == UNCHANGED <<runtime, proof, stopping>>

\* Nothing is shown while a new heartbeat is on its way.  The capture is scanned first.
Scans ==
  /\ AtPoint("rest") /\ ~stopping /\ beats > 0
  /\ beats' = beats - 1 /\ shown' = {} /\ own' = 0 /\ Goes("scanned")
  /\ UNCHANGED late /\ OfReporter

\* Before each further step the tick looks for a stop.  One that comes after the look
\* does not call the step back.
LooksForStop(next) == IF stopping THEN reporter' = Rests ELSE Goes(next)
Looks ==
  /\ \/ AtPoint("scanned") /\ LooksForStop("asking")
     \/ AtPoint("built") /\ LooksForStop("sending")
     \/ AtPoint("taken") /\ LooksForStop("showing")
  /\ UNCHANGED <<beats, own, shown, late>> /\ OfReporter
IsTold ==
  /\ AtPoint("asking") /\ Exchanges
  /\ reporter' = [reporter EXCEPT !.at = "told", !.status =
                    [boot |-> runtime.boot, games |-> runtime.games,
                     drain |-> runtime.drain, quiet |-> runtime.quiet]]
  /\ UNCHANGED <<beats, own, shown>> /\ OfReporter

\* The proof must be of the boot that answered, and fresh.
Report ==
  [boot |-> proof.boot, drain |-> reporter.status.drain, pending |-> proof.pending + own,
   complete |-> /\ reporter.status.drain # 0 /\ reporter.status.quiet
                /\ reporter.status.games = 0 /\ proof.pending + own = 0]
GoodProof == proof.boot = reporter.status.boot /\ proof.age <= MaxAge
Builds ==
  /\ AtPoint("told")
  /\ reporter' = IF stopping \/ ~GoodProof THEN Rests
                 ELSE [reporter EXCEPT !.at = "built", !.report = {Report}]
  /\ UNCHANGED <<beats, own, shown, late>> /\ OfReporter
\* The native runtime takes reports of its own boot only; one it refuses is not shown.
IsTaken ==
  /\ AtPoint("sending") /\ Exchanges
  /\ IF \E r \in reporter.report : r.boot = runtime.boot THEN Goes("taken") ELSE reporter' = Rests
  /\ UNCHANGED <<beats, own, shown>> /\ OfReporter
Shows ==
  /\ AtPoint("showing")
  /\ shown' = reporter.report /\ reporter' = Rests
  /\ UNCHANGED <<beats, own, late>> /\ OfReporter
Fails ==
  /\ AtPoint("asking") \/ AtPoint("sending")
  /\ reporter' = Rests /\ UNCHANGED <<beats, own, shown, late>> /\ OfReporter

Beat == Scans \/ Looks \/ IsTold \/ Builds \/ IsTaken \/ Shows \/ Fails

RequestsStop ==
  /\ beats >= 0 /\ ~stopping
  /\ stopping' = TRUE /\ shown' = {}
  /\ UNCHANGED <<beats, runtime, proof, own, reporter, late>>

HealthNext == Runtime \/ Beat \/ RequestsStop

HealthSpec == HealthInit /\ [][HealthNext]_healthVars

-----------------------------------------------------------------------------
\* What the host may read: a heartbeat may still be put there after the stop.
Disposition == IF stopping THEN {} ELSE shown

\* A heartbeat that can be read was taken by the boot it is of.  A complete drain has a
\* name, and for as long as the drain of that name lasts, its boot has no games; it says
\* nothing of what is played once the same boot is resumed, nor of its next drain.  Once
\* a stop is asked for, at most one more message is exchanged.
\* (Not that the native queue is empty: the proof may be older than the status.)
HeartbeatsAreSound ==
  /\ late <= 1
  /\ \A r \in Disposition :
       /\ r.boot <= runtime.boot
       /\ r.complete => r.drain # 0
       /\ r.complete /\ r.boot = runtime.boot /\ r.drain = runtime.drain =>
            runtime.quiet /\ runtime.games = 0
=============================================================================
