--------------------------- MODULE ManualRollout ---------------------------
(***************************************************************************)
(* The activation of a manual runtime (commander_gym/manual_runtime_       *)
(* rollout.py, manual_runtime_host.py): one root process at a time, under  *)
(* the rollout lock, drains the running release, stops its services, puts  *)
(* the candidate's files in place, starts it closed, commits and admits    *)
(* games again; what fails before the commit is rolled back, and what      *)
(* cannot be proved safe is held for an operator.  The same transaction    *)
(* serves an update and an explicit rollback (runtime_release.py).  A      *)
(* timer (runtime_install.py) runs admit_current.                          *)
(*                                                                         *)
(* Every step of the transaction may fail before, in the middle of, or     *)
(* after its effects, the process may die between two of them, services    *)
(* may fail and be restarted by systemd, and the host may reboot.          *)
(*                                                                         *)
(* The native server's lifecycle socket and systemd are modelled as the    *)
(* code uses them.  Only manual releases are modelled: an installation     *)
(* that still runs the keyless profile delegates to other programs.        *)
(* Artifact seals, qualifications and inventories are kept as one bit:     *)
(* they hold, or something was changed.                                    *)
(*                                                                         *)
(* Some operators are preceded by a variant of theirs with a bug this code *)
(* could have.  No definition uses it: PROJECT.json names the property     *)
(* that TLC finds violated when the variant takes the operator's place.    *)
(***************************************************************************)
EXTENDS Naturals

CONSTANTS
  Runtimes,     (* runtime ids                                             *)
  First,        (* the installed one                                       *)
  Nothing,      (* no runtime: a stopped unit, an absent gate or approval  *)
  MaxCommands,  (* bound: updates and rollbacks an operator asks for       *)
  MaxFaults     (* bound: what goes wrong                                  *)

ASSUME RolloutAssumption ==
  /\ First \in Runtimes /\ Nothing \notin Runtimes
  /\ MaxCommands \in Nat /\ MaxFaults \in Nat

(* The units of a release that hold state, in the order they are stopped:  *)
(* the recorder stands for the sidecars too, and the proxy is left out.    *)
Units == {"play", "recorder"}

VARIABLES
  (* durable *)
  selector,    (* current.json: id, sequence, previous                     *)
  files,       (* whose unit and profile files are installed, or "mixed"   *)
  phase,       (* of transaction.json                                      *)
  banks,       (* rollback banks: candidate and sequence                   *)
  approval,    (* approval.json of each staged runtime: previous, sequence *)
  (* until the next reboot *)
  gate,        (* precredential.json: id and sequence, or Nothing          *)
  wanted,      (* units systemd is to keep running                         *)
  run,         (* what each unit runs                                      *)
  native,      (* what the native server says of itself: see Fresh         *)
  changed,     (* whether recordings changed since the stop inventory      *)
  job,         (* the process that holds the rollout lock: see NoJob       *)
  (* history and bounds *)
  begun,       (* attempts that became durable: candidate and sequence     *)
  opened,      (* the selected sequence when games were last admitted      *)
  commands, faults

disk == <<selector, files, phase, banks, approval>>
services == <<gate, wanted, run, native, changed>>
bounds == <<begun, opened, commands, faults>>
vars == <<disk, services, job, bounds>>

(* drain: "asked" until every game and every recording of it is finished;  *)
(* healthy: recovery is complete and recording works.                      *)
Fresh(boot) ==
  [boot |-> boot, accepting |-> FALSE, drain |-> "none", games |-> 0, healthy |-> FALSE]

(* at: the next step; sequence: the attempt's number; boot: of the server  *)
(* to be drained or opened; back: the transaction is being rolled back;    *)
(* latched: the stop context and inventory were taken.                     *)
NoJob == [at |-> "none", candidate |-> First, previous |-> First, boot |-> 0,
          sequence |-> 1, back |-> FALSE, latched |-> FALSE]

Steps == {"none", "drain", "drained", "begin", "stop", "halt", "quiet", "select",
          "start", "ready", "commit", "resume", "held", "admit"}

Unfinished == {"intent", "review"}

TypeOK ==
  /\ selector \in [id : Runtimes, sequence : Nat \ {0}, previous : Runtimes]
  /\ files \in Runtimes \cup {"mixed"}
  /\ phase \in {"finished"} \cup Unfinished
  /\ banks \subseteq Runtimes \X Nat
  /\ approval \in [Runtimes -> (Runtimes \X Nat) \cup {Nothing}]
  /\ gate \in (Runtimes \X Nat) \cup {Nothing}
  /\ wanted \subseteq Units /\ run \in [Units -> Runtimes \cup {Nothing}]
  /\ native \in [boot : Nat, accepting : BOOLEAN, drain : {"none", "asked", "complete"},
                 games : 0..1, healthy : BOOLEAN]
  /\ changed \in BOOLEAN
  /\ job \in [at : Steps, candidate : Runtimes, previous : Runtimes, boot : Nat,
              sequence : Nat, back : BOOLEAN, latched : BOOLEAN]
  /\ begun \subseteq Runtimes \X Nat /\ opened \in 0..selector.sequence
  /\ commands \in 0..MaxCommands /\ faults \in 0..MaxFaults

(* A completed installation, before its first admission.                   *)
Init ==
  /\ selector = [id |-> First, sequence |-> 1, previous |-> First]
  /\ files = First /\ phase = "finished" /\ banks = {}
  /\ approval = [r \in Runtimes |-> IF r = First THEN <<First, 1>> ELSE Nothing]
  /\ gate = <<First, 1>> /\ wanted = Units /\ run = [u \in Units |-> First]
  /\ native = [Fresh(1) EXCEPT !.drain = "complete", !.healthy = TRUE]
  /\ changed = FALSE /\ job = NoJob
  /\ begun = {} /\ opened = 0 /\ commands = 0 /\ faults = 0

-----------------------------------------------------------------------------
(***************************************************************************)
(* What the process reads.                                                 *)
(***************************************************************************)

Reachable == run["play"] # Nothing

(* ready_state: the selected release, recovered and recording.             *)
Ready == run["play"] = selector.id /\ native.healthy

(* idle_state, without and with the drain barrier.                         *)
Idle == Ready /\ native.games = 0

ClosedIdle == Idle /\ ~native.accepting /\ native.drain = "complete"

Finished == phase \notin Unfinished

Sequence == selector.sequence + 1

Attested == <<selector.id, selector.sequence>>

(* _verify_selected_files.                                                 *)
FilesMatch == files = selector.id

Fault == faults < MaxFaults /\ faults' = faults + 1

NoFault == UNCHANGED faults

-----------------------------------------------------------------------------
(***************************************************************************)
(* The transaction, _promote.                                              *)
(***************************************************************************)

Goes(at) == job' = [job EXCEPT !.at = at]

(* Before the transaction is begun an exception just ends the process;     *)
(* then, until the commit, it starts the rollback; later, and in the       *)
(* rollback itself, the transaction is held.                               *)
Fails ==
  job' = IF job.at \in {"drain", "drained", "begin", "admit"} THEN NoJob
         ELSE IF ~job.back /\ job.at # "resume" THEN [job EXCEPT !.back = TRUE, !.at = "stop"]
         ELSE [job EXCEPT !.at = "held"]

(* A step without effect: what it requires does not hold, or there is an   *)
(* error (a timeout, a full disk, a failing command).                      *)
FailsUnless(ok) == Fails /\ IF ok THEN Fault ELSE NoFault

(* A step with its effect, and perhaps an exception after that.            *)
Proceeds(at) == (Goes(at) /\ NoFault) \/ (Fails /\ Fault)

(* The exact approval of an update, or the recorded previous of a rollback. *)
MayChangeTo(c) ==
  \/ approval[c] = <<selector.id, Sequence>>
  \/ c = selector.previous /\ c # selector.id /\ approval[c] # Nothing

ChangeStarts(c) ==
  /\ job.at = "none" /\ commands < MaxCommands
  /\ Finished /\ MayChangeTo(c) /\ Idle
  /\ job' = [NoJob EXCEPT !.at = "drain", !.candidate = c, !.previous = selector.id,
                          !.sequence = Sequence, !.boot = native.boot]
  /\ commands' = commands + 1
  /\ UNCHANGED <<disk, services, begun, opened, faults>>

AskDrain ==
  native' = [native EXCEPT !.accepting = FALSE,
                           !.drain = IF @ = "none" THEN "asked" ELSE @]

Drain ==
  /\ job.at = "drain"
  /\ LET same == Reachable /\ native.boot = job.boot
     IN  \/ same /\ AskDrain /\ Proceeds("drained")
         \/ FailsUnless(same) /\ UNCHANGED native
  /\ UNCHANGED <<disk, gate, wanted, run, changed, begun, opened, commands>>

(* The wait for the recorder's drain, and the second look at everything.   *)
Drained ==
  /\ job.at = "drained"
  /\ LET closed == ClosedIdle /\ native.boot = job.boot
     IN  (closed /\ Proceeds("begin")) \/ FailsUnless(closed)
  /\ UNCHANGED <<disk, services, begun, opened, commands>>

GateCleared == gate' = Nothing

(* A rollback bank that is there already, from an attempt that stopped     *)
(* before its transaction was written, is never used again.                *)
Begin ==
  /\ job.at = "begin"
  /\ GateCleared
  /\ LET attempt == <<job.candidate, job.sequence>>
     IN  \/ /\ attempt \notin banks /\ banks' = banks \cup {attempt}
            /\ \/ phase' = "intent" /\ begun' = begun \cup {attempt} /\ Proceeds("stop")
               \/ FailsUnless(TRUE) /\ UNCHANGED <<phase, begun>>
         \/ FailsUnless(attempt \notin banks) /\ UNCHANGED <<banks, phase, begun>>
  /\ UNCHANGED <<selector, files, approval, wanted, run, native, changed, opened, commands>>

(* stop_closure up to the first unit: the state of the release that is     *)
(* about to be stopped, and its recordings, are latched.                   *)
StopLatched ==
  /\ job.at = "stop" /\ ~job.back
  /\ \/ /\ ClosedIdle
        /\ changed' = FALSE /\ GateCleared /\ NoFault
        /\ job' = [job EXCEPT !.at = "halt", !.latched = TRUE]
     \/ FailsUnless(ClosedIdle) /\ UNCHANGED <<changed, gate>>
  /\ UNCHANGED <<disk, wanted, run, native, begun, opened, commands>>

(* stop_for_rollback up to the first unit.  A candidate that does not      *)
(* answer, or not in time, may be stopped; one that answers must be closed *)
(* and idle.                                                               *)
AnswersIdle == run["play"] = selector.id /\ ~native.accepting /\ native.games = 0

StopForRollback ==
  /\ job.at = "stop" /\ job.back
  /\ LET mayStop == job.latched /\ phase = "intent"
     IN  \/ /\ mayStop
            /\ \/ (AnswersIdle \/ ~Reachable) /\ NoFault
               \/ Fault
            /\ GateCleared /\ Goes("halt")
         \/ FailsUnless(mayStop /\ (AnswersIdle \/ ~Reachable)) /\ UNCHANGED gate
  /\ UNCHANGED <<disk, wanted, run, native, changed, begun, opened, commands>>

(* The server of a unit set that is stopped is gone, with its games.       *)
NativeAfter(r) == IF r["play"] = Nothing THEN Fresh(native.boot) ELSE native

Without(stopped) == [u \in Units |-> IF u \in stopped THEN Nothing ELSE run[u]]

(* systemctl stop, unit by unit: a command fails and ends it, or does not  *)
(* although a process lingers (SendSIGKILL=no).                            *)
Halt ==
  /\ job.at = "halt"
  /\ \E stopped \in SUBSET Units :
       /\ run' = Without(stopped)
       /\ \/ wanted' = {} /\ Goes("quiet") /\ IF stopped = Units THEN NoFault ELSE Fault
          \/ stopped \in {{}, {"play"}} /\ wanted' = wanted \ stopped /\ FailsUnless(TRUE)
  /\ native' = NativeAfter(run')
  /\ UNCHANGED <<disk, gate, changed, begun, opened, commands>>

PlayIsDown == run["play"] = Nothing

AllDown == \A u \in Units : run[u] = Nothing

AnyCaptures == TRUE

SameCaptures == ~changed

(* quiescence_barrier: every process is dead, no recording changed; and,   *)
(* for a rollback, the previous release is still what it was.              *)
Quiet ==
  /\ job.at = "quiet"
  /\ LET quiet == AllDown /\ SameCaptures
     IN  (quiet /\ Proceeds("select")) \/ FailsUnless(quiet)
  /\ UNCHANGED <<disk, services, begun, opened, commands>>

Target == IF job.back THEN job.previous ELSE job.candidate

SelectedOver == [id |-> Target, sequence |-> job.sequence, previous |-> selector.id]

Selected ==
  [id |-> Target, sequence |-> job.sequence, previous |-> job.previous]

Select ==
  /\ job.at = "select"
  /\ \/ files' = Target /\ selector' = Selected /\ Proceeds("start")
     \/ files' \in {files, "mixed", Target} /\ UNCHANGED selector /\ FailsUnless(TRUE)
  /\ UNCHANGED <<phase, banks, approval, services, begun, opened, commands>>

(* start_closed, up to the wait: the gate is written for the selected      *)
(* release, and only then are its units started.                           *)
Start ==
  /\ job.at = "start"
  /\ \/ /\ FilesMatch /\ gate' = Attested
        /\ \E started \in {{}, {"recorder"}, Units} :
             LET new == {u \in started : run[u] = Nothing}
             IN  /\ run' = [u \in Units |-> IF u \in new THEN selector.id ELSE run[u]]
                 /\ wanted' = wanted \cup started
                 /\ native' = IF "play" \in new THEN Fresh(native.boot + 1) ELSE native
                 /\ \/ started = Units /\ Proceeds("ready")
                    \/ started # Units /\ FailsUnless(TRUE)
     \/ FailsUnless(FilesMatch) /\ UNCHANGED <<gate, wanted, run, native>>
  /\ UNCHANGED <<disk, changed, begun, opened, commands>>

(* _wait_ready: a new server starts closed but not drained; it is asked to *)
(* drain once it is recovered and idle.  The wait has a timeout.           *)
ReadyWait ==
  /\ job.at = "ready"
  /\ \/ ClosedIdle /\ Proceeds("commit") /\ UNCHANGED native
     \/ /\ Idle /\ ~native.accepting /\ native.drain = "none"
        /\ AskDrain /\ UNCHANGED job /\ NoFault
     \/ FailsUnless(ClosedIdle) /\ UNCHANGED native
  /\ UNCHANGED <<disk, gate, wanted, run, changed, begun, opened, commands>>

(* The last look, and complete or complete_rollback.                       *)
Commit ==
  /\ job.at = "commit"
  /\ \/ /\ ClosedIdle /\ phase' = "finished"
        /\ \/ job' = [job EXCEPT !.at = "resume", !.boot = native.boot] /\ NoFault
           \/ FailsUnless(TRUE)
     \/ FailsUnless(ClosedIdle) /\ UNCHANGED phase
  /\ UNCHANGED <<selector, files, banks, approval, services, begun, opened, commands>>

(* The resume request, which the server obeys for its own boot and release. *)
Obeys == Reachable /\ native.boot = job.boot /\ run["play"] = selector.id

Obeyed ==
  /\ Obeys
  /\ native' = [native EXCEPT !.accepting = TRUE, !.drain = "none"]
  /\ opened' = selector.sequence

Resume ==
  /\ job.at \in {"resume", "admit"}
  /\ \/ Obeyed /\ ((job' = NoJob /\ NoFault) \/ FailsUnless(TRUE))
     \/ FailsUnless(Obeys) /\ UNCHANGED <<native, opened>>
  /\ UNCHANGED <<disk, gate, wanted, run, changed, begun, commands>>

Held ==
  /\ job.at = "held" /\ job' = NoJob
  /\ \/ phase' = "review" /\ NoFault
     \/ UNCHANGED phase /\ Fault
  /\ UNCHANGED <<selector, files, banks, approval, services, begun, opened, commands>>

(* The process is killed between two of its steps.                         *)
DispatcherDies ==
  /\ job.at # "none" /\ job' = NoJob /\ Fault
  /\ UNCHANGED <<disk, services, begun, opened, commands>>

Transaction ==
  \/ Drain \/ Drained \/ Begin \/ StopLatched \/ StopForRollback \/ Halt \/ Quiet
  \/ Select \/ Start \/ ReadyWait \/ Commit \/ Resume \/ Held

-----------------------------------------------------------------------------
(***************************************************************************)
(* admit_current, which a timer starts every fifteen seconds: a server     *)
(* that was not asked to drain may be opened with games still on it, one   *)
(* that was must have finished its drain.                                  *)
(***************************************************************************)
AdmissibleFresh == native.drain = "none"

Admissible == native.drain = "none" \/ ClosedIdle

AdmitStarts ==
  /\ job.at = "none" /\ Finished /\ Ready /\ ~native.accepting /\ Admissible
  /\ job' = [NoJob EXCEPT !.at = "admit", !.boot = native.boot]
  /\ UNCHANGED <<disk, services, bounds>>

(* An operator stages a bundle approved for the next change.               *)
Stage(c) ==
  /\ commands < MaxCommands /\ approval[c] = Nothing
  /\ approval' = [approval EXCEPT ![c] = <<selector.id, Sequence>>]
  /\ UNCHANGED <<selector, files, phase, banks, services, job, bounds>>

-----------------------------------------------------------------------------
(***************************************************************************)
(* The services.                                                           *)
(***************************************************************************)

(* ensure_preflight: rechecks the gate if there is one; if not it is       *)
(* written anew, which takes the rollout lock and no open transaction.     *)
Preflight ==
  /\ FilesMatch
  /\ \/ gate = Attested
     \/ gate = Nothing /\ job.at = "none" /\ Finished
  /\ gate' = Attested

(* service_runtime: the server starts if the gate is for the profile it is *)
(* given.                                                                  *)
RestartUnit(u) ==
  /\ u \in wanted /\ run[u] = Nothing
  /\ \/ u = "recorder" /\ Preflight /\ UNCHANGED native
     \/ /\ u = "play" /\ run["recorder"] # Nothing
        /\ gate # Nothing /\ gate[1] = files
        /\ native' = Fresh(native.boot + 1) /\ UNCHANGED gate
  /\ run' = [run EXCEPT ![u] = files]
  /\ UNCHANGED <<disk, wanted, changed, job, bounds>>

UnitFails(u) ==
  /\ run[u] # Nothing /\ Fault
  /\ run' = Without({u}) /\ native' = NativeAfter(run')
  /\ UNCHANGED <<disk, gate, wanted, changed, job, begun, opened, commands>>

(* Only what is on disk is left, and the enabled units.                    *)
Reboot ==
  /\ Fault
  /\ run' = Without(Units) /\ native' = Fresh(native.boot) /\ wanted' = Units
  /\ gate' = Nothing /\ job' = NoJob
  /\ UNCHANGED <<disk, changed, begun, opened, commands>>

(* The native server on its own.                                           *)
Server(next) ==
  /\ Reachable /\ native' = next
  /\ UNCHANGED <<disk, gate, wanted, run, job, begun, opened, commands>>

HealthRecovers ==
  /\ ~native.healthy /\ run["recorder"] # Nothing
  /\ Server([native EXCEPT !.healthy = TRUE]) /\ UNCHANGED <<changed, faults>>

HealthLost ==
  /\ native.healthy /\ Fault
  /\ Server([native EXCEPT !.healthy = FALSE, !.accepting = FALSE]) /\ UNCHANGED changed

DrainCompletes ==
  /\ native.drain = "asked" /\ native.games = 0 /\ native.healthy
  /\ Server([native EXCEPT !.drain = "complete"]) /\ UNCHANGED <<changed, faults>>

GameStarts ==
  /\ native.accepting /\ native.games = 0
  /\ Server([native EXCEPT !.games = 1]) /\ changed' = job.latched /\ UNCHANGED faults

GameEnds ==
  /\ native.games = 1
  /\ Server([native EXCEPT !.games = 0]) /\ changed' = job.latched /\ UNCHANGED faults

(* A running service writes a recording after the inventory was taken.     *)
LateWrite ==
  /\ job.latched /\ ~changed /\ ~AllDown /\ changed' = TRUE /\ Fault
  /\ UNCHANGED <<disk, gate, wanted, run, native, job, begun, opened, commands>>

Next ==
  \/ \E c \in Runtimes : ChangeStarts(c) \/ Stage(c)
  \/ Transaction \/ DispatcherDies \/ AdmitStarts
  \/ \E u \in Units : RestartUnit(u) \/ UnitFails(u)
  \/ Reboot \/ HealthRecovers \/ HealthLost \/ DrainCompletes
  \/ GameStarts \/ GameEnds \/ LateWrite

Spec == Init /\ [][Next]_vars

(* The process runs on, the timer fires, the server recovers, finishes its *)
(* drain and its games end; nothing is assumed of operators and systemd.   *)
Fairness ==
  WF_vars(Transaction) /\ WF_vars(AdmitStarts) /\ WF_vars(HealthRecovers)
  /\ WF_vars(DrainCompletes) /\ WF_vars(GameEnds)

FairSpec == Spec /\ Fairness

-----------------------------------------------------------------------------
(* Games are admitted only by the selected runtime, running on the files   *)
(* installed for it, and never while a change is begun and not committed:  *)
(* whatever fails, dies or reboots on the way (_promote, admit_current,    *)
(* ensure_preflight).                                                      *)
OpenIsSelected ==
  native.accepting => run["play"] = selector.id /\ FilesMatch /\ phase # "intent"

(* The units that run, however they came to run, run one release: systemd  *)
(* never brings back half of the previous one (start_closed, Preflight).   *)
MatchedUnits ==
  \A u, v \in Units : {run[u], run[v]} \cap {Nothing} = {} => run[u] = run[v]

(* A credential gate, wherever it is found, is the one of the selected     *)
(* release and of the files in place, so no service is handed a credential *)
(* for another.  (begin, stop_closure, stop_for_rollback, start_closed.)   *)
GateIsSelected == gate # Nothing => gate = Attested /\ FilesMatch

(* Once nothing is pending every attempt that was begun has used up its    *)
(* number, whichever way it ended, so that its approval cannot be replayed *)
(* (_promote, "preserve monotonic attempt sequence").                      *)
AttemptsAreConsumed ==
  Finished => \A attempt \in begun : attempt[2] <= selector.sequence

(* What holds between any two steps of any number of interrupted changes:  *)
(* games, units and credentials all belong to the one selected release.    *)
OneReleaseServes ==
  TypeOK /\ OpenIsSelected /\ MatchedUnits /\ GateIsSelected /\ AttemptsAreConsumed

(* Selector and files are replaced only while every process is dead, no    *)
(* game is left and no recording changed since the inventory.              *)
ReplacedAtRest ==
  [][<<selector, files>>' # <<selector, files>> =>
       (\A u \in Units : run[u] = Nothing) /\ native.games = 0 /\ ~changed]_vars

(* The rollout never stops the server under a game; it is only lost to a   *)
(* failure of the server or the host.                                      *)
NoGameIsStopped ==
  [][native.games = 1 /\ Transaction => native'.games = 1]_vars

(* A change disturbs nobody: neither files in use nor a game under way.    *)
NothingIsDisturbed == ReplacedAtRest /\ NoGameIsStopped

(* Players see a table that closes, changes hands and opens again.         *)
Switch == INSTANCE RuntimeSwitch WITH
  runtime <- selector.id, before <- selector.previous, sequence <- selector.sequence,
  used <- opened = selector.sequence, open <- native.accepting, games <- native.games

ImplementsSwitch == Switch!Spec

(* If the services stay up and no change is left unfinished, the table     *)
(* opens again and again, however often health is lost and changes fail.   *)
EventuallyOpen ==
  <>[](Finished /\ \A u \in Units : run[u] # Nothing) => []<>native.accepting
=============================================================================
