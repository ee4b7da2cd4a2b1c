------------------------ MODULE ManualRollout_proofs ------------------------
(***************************************************************************)
(* What the manual rollout never does, for any runtimes, number of         *)
(* commands and number of faults.                                          *)
(***************************************************************************)
EXTENDS ManualRollout, TLAPS

Opening == {"start", "ready", "commit"}
Stopping == {"halt", "quiet", "select"}
Begun == {"stop", "resume"} \cup Stopping \cup Opening

(* What runs is the selected release on its own files; a server that is    *)
(* down admits nobody and has no games.                                    *)
RunsSelected ==
  /\ \A u \in Units : run[u] # Nothing => run[u] = selector.id /\ FilesMatch
  /\ run["play"] = Nothing => ~native.accepting /\ native.games = 0

(* From the second look at the drained server on, and for as long as a     *)
(* transaction is open, it is closed and idle.                             *)
ClosedMeanwhile ==
  job.at = "begin" \/ phase = "intent" => ~native.accepting /\ native.games = 0

(* Which phase a transaction has at its steps.                             *)
PhaseOfStep ==
  /\ job.at \in {"drain", "drained", "begin", "resume", "admit"} => phase = "finished"
  /\ job.at \in Stopping \cup Opening => phase = "intent"
  /\ job.at = "stop" /\ ~job.back => phase = "intent"

(* From the first unit it stops to the start of the selected release the   *)
(* gate is down; once all units were stopped systemd restarts none.        *)
AtRest ==
  /\ job.at \in Stopping \cup {"start"} => gate = Nothing
  /\ job.at \in {"quiet", "select", "start"} => wanted = {}
  /\ job.at = "select" => AllDown /\ ~changed

(* A transaction's number is the next one until it selects, and then the   *)
(* selector's; no game was admitted under it.                              *)
NotYet == selector.sequence + 1 = job.sequence /\ selector.id = job.previous
Already == selector.sequence = job.sequence /\ selector.previous = job.previous
Numbered ==
  /\ job.at \in {"drain", "drained", "begin"} => NotYet
  /\ job.at \in {"stop"} \cup Stopping => NotYet \/ Already
  /\ job.at \in {"stop"} \cup Stopping /\ ~job.back => NotYet
  /\ job.at \in Opening \cup {"resume"} => Already
  /\ job.at \in Begun => \A attempt \in begun : attempt[2] <= job.sequence
  /\ job.at \in Begun \ {"resume"} => opened < job.sequence

IInv ==
  /\ TypeOK /\ RunsSelected /\ ClosedMeanwhile /\ PhaseOfStep /\ AtRest /\ Numbered
  /\ GateIsSelected /\ AttemptsAreConsumed
-----------------------------------------------------------------------------
(***************************************************************************)
(* Types.                                                                  *)
(***************************************************************************)

JobType ==
  [at : Steps, candidate : Runtimes, previous : Runtimes, boot : Nat,
   sequence : Nat, back : BOOLEAN, latched : BOOLEAN]
NativeType ==
  [boot : Nat, accepting : BOOLEAN, drain : {"none", "asked", "complete"},
   games : 0..1, healthy : BOOLEAN]

LEMMA FreshIsTyped == \A boot \in Nat : Fresh(boot) \in NativeType
BY DEF Fresh, NativeType

LEMMA NoJobIsTyped == NoJob \in JobType
BY RolloutAssumption DEF NoJob, JobType, Steps

(* What becomes of a transaction that fails.                               *)
LEMMA FailsTo ==
  ASSUME job \in JobType, Fails
  PROVE  \/ job.at \in {"drain", "drained", "begin", "admit"} /\ job' = NoJob
         \/ /\ job.at \notin {"drain", "drained", "begin", "admit", "resume"} /\ ~job.back
            /\ job' = [job EXCEPT !.back = TRUE, !.at = "stop"]
         \/ /\ job.at \notin {"drain", "drained", "begin", "admit"}
            /\ job.back \/ job.at = "resume"
            /\ job' = [job EXCEPT !.at = "held"]
BY DEF Fails, JobType

(* A transaction that fails, or goes on, stays well-formed.                *)
LEMMA FailsIsTyped ==
  ASSUME job \in JobType, Fails
  PROVE  job' \in JobType
<1>1. CASE job' = NoJob
  BY <1>1, NoJobIsTyped
<1>2. CASE job' = [job EXCEPT !.back = TRUE, !.at = "stop"]
  BY <1>2 DEF JobType, Steps
<1>3. CASE job' = [job EXCEPT !.at = "held"]
  BY <1>3 DEF JobType, Steps
<1>4. QED
  BY <1>1, <1>2, <1>3, FailsTo

LEMMA GoesIsTyped ==
  ASSUME job \in JobType, NEW at \in Steps, Goes(at)
  PROVE  job' \in JobType
BY DEF Goes, JobType

(* Faults are counted up to their bound.                                   *)
LEMMA Bounded ==
  ASSUME TypeOK, Fault \/ NoFault
  PROVE  faults' \in 0..MaxFaults
BY RolloutAssumption DEF TypeOK, Fault, NoFault

(* Every step keeps the types.                                             *)
LEMMA TypeStep == TypeOK /\ GateIsSelected /\ RunsSelected /\ Numbered /\ [Next]_vars => TypeOK'
<1> SUFFICES ASSUME TypeOK, GateIsSelected, RunsSelected, Numbered, [Next]_vars PROVE TypeOK'
  OBVIOUS
<1> USE DEF JobType, NativeType
<1>1. ASSUME NEW c \in Runtimes, ChangeStarts(c) PROVE TypeOK'
  <2>1. job' \in JobType
    <3>1. job' = [at |-> "drain", candidate |-> c, previous |-> selector.id, boot |-> native.boot,
                  sequence |-> Sequence, back |-> FALSE, latched |-> FALSE]
      BY <1>1 DEF ChangeStarts, NoJob
    <3>2. QED
      BY <3>1 DEF TypeOK, Sequence, Steps
  <2>2. QED
    BY <1>1, <2>1, RolloutAssumption DEF ChangeStarts, TypeOK, disk, services
<1>2. ASSUME NEW c \in Runtimes, Stage(c) PROVE TypeOK'
  BY <1>2 DEF Stage, TypeOK, services, bounds, Sequence
<1>3. CASE Drain
  BY <1>3, FailsIsTyped, GoesIsTyped, Bounded DEF Drain, TypeOK, disk, AskDrain, Proceeds,
     FailsUnless, Steps
<1>4. CASE Drained
  BY <1>4, FailsIsTyped, GoesIsTyped, Bounded DEF Drained, TypeOK, disk, services, Proceeds,
     FailsUnless, Steps
<1>5. CASE Begin
  BY <1>5, FailsIsTyped, GoesIsTyped, Bounded DEF Begin, TypeOK, GateCleared, Proceeds,
     FailsUnless, Steps, Unfinished
<1>6. CASE StopLatched
  BY <1>6, FailsIsTyped, Bounded DEF StopLatched, TypeOK, disk, GateCleared, FailsUnless, Steps
<1>7. CASE StopForRollback
  BY <1>7, FailsIsTyped, GoesIsTyped, Bounded DEF StopForRollback, TypeOK, disk, GateCleared,
     FailsUnless, Steps
<1>8. CASE Halt
  BY <1>8, FailsIsTyped, GoesIsTyped, Bounded, FreshIsTyped DEF Halt, TypeOK, disk, Without,
     NativeAfter, FailsUnless, Steps
<1>9. CASE Quiet
  BY <1>9, FailsIsTyped, GoesIsTyped, Bounded DEF Quiet, TypeOK, disk, services, Proceeds,
     FailsUnless, Steps
<1>10. CASE Select
  BY <1>10, FailsIsTyped, GoesIsTyped, Bounded DEF Select, Selected, Target, TypeOK, services,
     Proceeds, FailsUnless, Steps, Numbered, NotYet, Already, Stopping
<1>11. CASE Start
  <2>1. job' \in JobType /\ faults' \in 0..MaxFaults
    BY <1>11, FailsIsTyped, GoesIsTyped, Bounded DEF Start, TypeOK, Proceeds, FailsUnless, Steps
  <2>2. CASE UNCHANGED <<gate, wanted, run, native>>
    BY <1>11, <2>1, <2>2 DEF Start, TypeOK, disk
  <2>3. CASE ~UNCHANGED <<gate, wanted, run, native>>
    <3>1. PICK started \in {{}, {"recorder"}, Units} :
            LET new == {u \in started : run[u] = Nothing}
            IN  /\ run' = [u \in Units |-> IF u \in new THEN selector.id ELSE run[u]]
                /\ wanted' = wanted \cup started
                /\ native' = IF "play" \in new THEN Fresh(native.boot + 1) ELSE native
      BY <1>11, <2>3 DEF Start
    <3>2. gate' = Attested
      BY <1>11, <2>3 DEF Start
    <3>3. native.boot + 1 \in Nat /\ native \in NativeType /\ selector.id \in Runtimes
      BY DEF TypeOK
    <3>4. native' \in NativeType
      BY <3>1, <3>3, FreshIsTyped
    <3>5. run' \in [Units -> Runtimes \cup {Nothing}] /\ wanted' \subseteq Units
      BY <3>1, <3>3 DEF TypeOK, Units
    <3>6. gate' \in (Runtimes \X Nat) \cup {Nothing}
      BY <3>2 DEF TypeOK, Attested
    <3>7. QED
      BY <1>11, <2>1, <3>4, <3>5, <3>6 DEF Start, TypeOK, disk
  <2>4. QED
    BY <2>2, <2>3
<1>12. CASE ReadyWait
  BY <1>12, FailsIsTyped, GoesIsTyped, Bounded DEF ReadyWait, TypeOK, disk, AskDrain, Proceeds,
     FailsUnless, Steps
<1>13. CASE Commit
  <2>1. job' \in JobType
    <3>1. CASE job' = [job EXCEPT !.at = "resume", !.boot = native.boot]
      BY <3>1 DEF TypeOK, Steps
    <3>2. CASE Fails
      BY <3>2, FailsIsTyped DEF TypeOK
    <3>3. QED
      BY <1>13, <3>1, <3>2 DEF Commit, FailsUnless
  <2>2. QED
    BY <1>13, <2>1, Bounded DEF Commit, TypeOK, services, FailsUnless
<1>14. CASE Resume
  <2>1. job' \in JobType
    BY <1>14, FailsIsTyped, NoJobIsTyped DEF Resume, TypeOK, FailsUnless
  <2>2. native' \in NativeType /\ opened' \in 0..selector.sequence
    <3>1. CASE Obeyed
      <4>1. /\ native' = [native EXCEPT !.accepting = TRUE, !.drain = "none"]
            /\ opened' = selector.sequence
        BY <3>1 DEF Obeyed
      <4>2. native' \in NativeType
        BY <4>1 DEF TypeOK
      <4>3. QED
        BY <4>1, <4>2 DEF TypeOK
    <3>2. CASE UNCHANGED <<native, opened>>
      BY <1>14, <3>2 DEF Resume, TypeOK, disk
    <3>3. QED
      BY <1>14, <3>1, <3>2 DEF Resume
  <2>3. QED
    BY <1>14, <2>1, <2>2, Bounded DEF Resume, TypeOK, disk, FailsUnless
<1>15. CASE Held
  BY <1>15, NoJobIsTyped, Bounded DEF Held, TypeOK, services, Unfinished
<1>16. CASE DispatcherDies
  BY <1>16, NoJobIsTyped, Bounded DEF DispatcherDies, TypeOK, disk, services
<1>17. CASE AdmitStarts
  BY <1>17, NoJobIsTyped DEF AdmitStarts, TypeOK, disk, services, bounds, Steps
<1>18. ASSUME NEW u \in Units, RestartUnit(u) PROVE TypeOK'
  BY <1>18, FreshIsTyped DEF RestartUnit, Preflight, FilesMatch, Attested, GateIsSelected, TypeOK,
     disk, bounds
<1>19. ASSUME NEW u \in Units, UnitFails(u) PROVE TypeOK'
  BY <1>19, FreshIsTyped, Bounded DEF UnitFails, Without, NativeAfter, TypeOK, disk
<1>20. CASE Reboot
  BY <1>20, FreshIsTyped, NoJobIsTyped, Bounded DEF Reboot, Without, TypeOK, disk
<1>21. CASE HealthRecovers \/ HealthLost \/ DrainCompletes \/ GameStarts \/ GameEnds
  <2>1. native' \in NativeType
    <3>1. CASE HealthRecovers \/ DrainCompletes
      BY <1>21, <3>1 DEF HealthRecovers, DrainCompletes, Server, TypeOK
    <3>2. CASE HealthLost
      BY <3>2 DEF HealthLost, Server, TypeOK
    <3>3. CASE GameStarts \/ GameEnds
      BY <3>3 DEF GameStarts, GameEnds, Server, TypeOK
    <3>4. QED
      BY <1>21, <3>1, <3>2, <3>3
  <2>2. changed' \in BOOLEAN /\ faults' \in 0..MaxFaults
    BY <1>21, Bounded DEF HealthRecovers, HealthLost, DrainCompletes, GameStarts, GameEnds, TypeOK
  <2>3. QED
    BY <1>21, <2>1, <2>2 DEF HealthRecovers, HealthLost, DrainCompletes, GameStarts, GameEnds,
       Server, TypeOK, disk
<1>22. CASE LateWrite
  BY <1>22, Bounded DEF LateWrite, TypeOK, disk
<1>23. CASE UNCHANGED vars
  BY <1>23 DEF TypeOK, vars, disk, services, bounds
<1>24. QED
  BY <1>1, <1>2, <1>3, <1>4, <1>5, <1>6, <1>7, <1>8, <1>9, <1>10, <1>11, <1>12, <1>13, <1>14,
     <1>15, <1>16, <1>17, <1>18, <1>19, <1>20, <1>21, <1>22, <1>23 DEF Next, Transaction

-----------------------------------------------------------------------------
(***************************************************************************)
(* Each part of the invariant, step by step.                               *)
(***************************************************************************)

(* Units change hands only when all of them are down, and are started on   *)
(* the files in place, which are the selected release's.                   *)
LEMMA RunsSelectedStep == IInv /\ [Next]_vars => RunsSelected'
<1> SUFFICES ASSUME IInv, [Next]_vars PROVE RunsSelected'
  OBVIOUS
<1> USE DEF IInv, TypeOK, JobType, NativeType, Proceeds, FailsUnless, Goes, disk, services, bounds,
      RunsSelected, FilesMatch, Units, AtRest, AllDown, GateIsSelected
<1>1. ASSUME NEW c \in Runtimes, ChangeStarts(c) PROVE RunsSelected'
  BY <1>1 DEF ChangeStarts, Finished, Sequence, NoJob, Idle, Ready
<1>2. ASSUME NEW c \in Runtimes, Stage(c) PROVE RunsSelected'
  BY <1>2 DEF Stage
<1>3. CASE Drain
  BY <1>3, FailsTo DEF Drain, AskDrain, NoJob, Reachable
<1>4. CASE Drained
  BY <1>4, FailsTo DEF Drained, ClosedIdle, Idle, Ready, NoJob
<1>5. CASE Begin
  BY <1>5, FailsTo DEF Begin, GateCleared, NoJob
<1>6. CASE StopLatched
  BY <1>6, FailsTo DEF StopLatched, GateCleared
<1>7. CASE StopForRollback
  BY <1>7, FailsTo DEF StopForRollback, GateCleared
<1>8. CASE Halt
  BY <1>8, FailsTo, RolloutAssumption DEF Halt, Without, NativeAfter, Fresh
<1>9. CASE Quiet
  BY <1>9, FailsTo DEF Quiet, SameCaptures
<1>10. CASE Select
  BY <1>10, FailsTo, RolloutAssumption DEF Select, Selected, Target
<1>11. CASE Start
  BY <1>11, FailsTo, RolloutAssumption DEF Start, Attested, Fresh
<1>12. CASE ReadyWait
  BY <1>12, FailsTo DEF ReadyWait, AskDrain
<1>13. CASE Commit
  BY <1>13, FailsTo DEF Commit, ClosedIdle, Idle
<1>14. CASE Resume
  BY <1>14, FailsTo, RolloutAssumption DEF Resume, Obeyed, Obeys, Reachable, NoJob
<1>15. CASE Held
  BY <1>15 DEF Held, NoJob
<1>16. CASE DispatcherDies
  BY <1>16 DEF DispatcherDies, NoJob
<1>17. CASE AdmitStarts
  BY <1>17 DEF AdmitStarts, Finished, NoJob
<1>18. ASSUME NEW u \in Units, RestartUnit(u) PROVE RunsSelected'
  BY <1>18, RolloutAssumption DEF RestartUnit, Preflight, Attested, Fresh
<1>19. ASSUME NEW u \in Units, UnitFails(u) PROVE RunsSelected'
  BY <1>19, RolloutAssumption DEF UnitFails, Without, NativeAfter, Fresh
<1>20. CASE Reboot
  BY <1>20, RolloutAssumption DEF Reboot, Without, Fresh, NoJob
<1>21. CASE HealthRecovers \/ HealthLost \/ DrainCompletes
  BY <1>21 DEF HealthRecovers, HealthLost, DrainCompletes, Server
<1>22. CASE GameStarts \/ GameEnds
  BY <1>22 DEF GameStarts, GameEnds, Server, Reachable
<1>23. CASE LateWrite
  BY <1>23 DEF LateWrite
<1>24. CASE UNCHANGED vars
  BY <1>24 DEF vars
<1>25. QED
  BY <1>1, <1>2, <1>3, <1>4, <1>5, <1>6, <1>7, <1>8, <1>9, <1>10, <1>11, <1>12, <1>13, <1>14,
     <1>15, <1>16, <1>17, <1>18, <1>19, <1>20, <1>21, <1>22, <1>23, <1>24
     DEF Next, Transaction

(* The server was closed and idle when the transaction was begun; only the *)
(* request after the commit opens it.                                      *)
LEMMA ClosedMeanwhileStep == IInv /\ [Next]_vars => ClosedMeanwhile'
<1> SUFFICES ASSUME IInv, [Next]_vars PROVE ClosedMeanwhile'
  OBVIOUS
<1> USE DEF IInv, TypeOK, JobType, NativeType, Proceeds, FailsUnless, Goes, disk, services, bounds,
      ClosedMeanwhile, PhaseOfStep, RunsSelected, Unfinished, Stopping, Opening
<1>1. ASSUME NEW c \in Runtimes, ChangeStarts(c) PROVE ClosedMeanwhile'
  BY <1>1 DEF ChangeStarts, Finished, Sequence, NoJob, Idle, Ready
<1>2. ASSUME NEW c \in Runtimes, Stage(c) PROVE ClosedMeanwhile'
  BY <1>2 DEF Stage
<1>3. CASE Drain
  BY <1>3, FailsTo DEF Drain, AskDrain, NoJob, Reachable
<1>4. CASE Drained
  BY <1>4, FailsTo DEF Drained, ClosedIdle, Idle, Ready, NoJob
<1>5. CASE Begin
  BY <1>5, FailsTo DEF Begin, GateCleared, NoJob
<1>6. CASE StopLatched
  BY <1>6, FailsTo DEF StopLatched, GateCleared
<1>7. CASE StopForRollback
  BY <1>7, FailsTo DEF StopForRollback, GateCleared
<1>8. CASE Halt
  BY <1>8, FailsTo DEF Halt, Without, NativeAfter, Fresh
<1>9. CASE Quiet
  BY <1>9, FailsTo DEF Quiet, SameCaptures, AllDown
<1>10. CASE Select
  BY <1>10, FailsTo DEF Select, Selected, Target
<1>11. CASE Start
  BY <1>11, FailsTo DEF Start, Attested, Fresh
<1>12. CASE ReadyWait
  BY <1>12, FailsTo DEF ReadyWait, AskDrain
<1>13. CASE Commit
  BY <1>13, FailsTo DEF Commit, ClosedIdle, Idle
<1>14. CASE Resume
  BY <1>14, FailsTo DEF Resume, Obeyed, Obeys, Reachable, NoJob
<1>15. CASE Held
  BY <1>15 DEF Held, NoJob
<1>16. CASE DispatcherDies
  BY <1>16 DEF DispatcherDies, NoJob
<1>17. CASE AdmitStarts
  BY <1>17 DEF AdmitStarts, Finished, NoJob
<1>18. ASSUME NEW u \in Units, RestartUnit(u) PROVE ClosedMeanwhile'
  BY <1>18 DEF RestartUnit, Preflight, Attested, Fresh
<1>19. ASSUME NEW u \in Units, UnitFails(u) PROVE ClosedMeanwhile'
  BY <1>19 DEF UnitFails, Without, NativeAfter, Fresh
<1>20. CASE Reboot
  BY <1>20 DEF Reboot, Without, Fresh, NoJob
<1>21. CASE HealthRecovers \/ HealthLost \/ DrainCompletes
  BY <1>21 DEF HealthRecovers, HealthLost, DrainCompletes, Server
<1>22. CASE GameStarts \/ GameEnds
  BY <1>22 DEF GameStarts, GameEnds, Server, Reachable
<1>23. CASE LateWrite
  BY <1>23 DEF LateWrite
<1>24. CASE UNCHANGED vars
  BY <1>24 DEF vars
<1>25. QED
  BY <1>1, <1>2, <1>3, <1>4, <1>5, <1>6, <1>7, <1>8, <1>9, <1>10, <1>11, <1>12, <1>13, <1>14,
     <1>15, <1>16, <1>17, <1>18, <1>19, <1>20, <1>21, <1>22, <1>23, <1>24
     DEF Next, Transaction

(* The phase on disk follows the steps, also where one of them fails.      *)
LEMMA PhaseOfStepStep == IInv /\ [Next]_vars => PhaseOfStep'
<1> SUFFICES ASSUME IInv, [Next]_vars PROVE PhaseOfStep'
  OBVIOUS
<1> USE DEF IInv, TypeOK, JobType, NativeType, Proceeds, FailsUnless, Goes, disk, services, bounds,
      PhaseOfStep, Stopping, Opening, Unfinished
<1>1. ASSUME NEW c \in Runtimes, ChangeStarts(c) PROVE PhaseOfStep'
  BY <1>1 DEF ChangeStarts, Finished, Sequence, NoJob, Idle, Ready
<1>2. ASSUME NEW c \in Runtimes, Stage(c) PROVE PhaseOfStep'
  BY <1>2 DEF Stage
<1>3. CASE Drain
  BY <1>3, FailsTo DEF Drain, AskDrain, NoJob, Reachable
<1>4. CASE Drained
  BY <1>4, FailsTo DEF Drained, ClosedIdle, Idle, Ready, NoJob
<1>5. CASE Begin
  BY <1>5, FailsTo DEF Begin, GateCleared, NoJob
<1>6. CASE StopLatched
  BY <1>6, FailsTo DEF StopLatched, GateCleared
<1>7. CASE StopForRollback
  BY <1>7, FailsTo DEF StopForRollback, GateCleared
<1>8. CASE Halt
  BY <1>8, FailsTo DEF Halt, Without, NativeAfter, Fresh
<1>9. CASE Quiet
  BY <1>9, FailsTo DEF Quiet, SameCaptures, AllDown
<1>10. CASE Select
  BY <1>10, FailsTo DEF Select, Selected, Target
<1>11. CASE Start
  BY <1>11, FailsTo DEF Start, Attested, Fresh
<1>12. CASE ReadyWait
  BY <1>12, FailsTo DEF ReadyWait, AskDrain
<1>13. CASE Commit
  <2>1. CASE job' = [job EXCEPT !.at = "resume", !.boot = native.boot] /\ phase' = "finished"
    BY <2>1
  <2>2. CASE Fails /\ phase' \in {phase, "finished"}
    BY <1>13, <2>2, FailsTo DEF Commit
  <2>3. QED
    BY <1>13, <2>1, <2>2 DEF Commit
<1>14. CASE Resume
  BY <1>14, FailsTo DEF Resume, Obeyed, Obeys, Reachable, NoJob
<1>15. CASE Held
  BY <1>15 DEF Held, NoJob
<1>16. CASE DispatcherDies
  BY <1>16 DEF DispatcherDies, NoJob
<1>17. CASE AdmitStarts
  BY <1>17 DEF AdmitStarts, Finished, NoJob
<1>18. ASSUME NEW u \in Units, RestartUnit(u) PROVE PhaseOfStep'
  BY <1>18 DEF RestartUnit, Preflight, Attested, Fresh
<1>19. ASSUME NEW u \in Units, UnitFails(u) PROVE PhaseOfStep'
  BY <1>19 DEF UnitFails, Without, NativeAfter, Fresh
<1>20. CASE Reboot
  BY <1>20 DEF Reboot, Without, Fresh, NoJob
<1>21. CASE HealthRecovers \/ HealthLost \/ DrainCompletes
  BY <1>21 DEF HealthRecovers, HealthLost, DrainCompletes, Server
<1>22. CASE GameStarts \/ GameEnds
  BY <1>22 DEF GameStarts, GameEnds, Server, Reachable
<1>23. CASE LateWrite
  BY <1>23 DEF LateWrite
<1>24. CASE UNCHANGED vars
  BY <1>24 DEF vars
<1>25. QED
  BY <1>1, <1>2, <1>3, <1>4, <1>5, <1>6, <1>7, <1>8, <1>9, <1>10, <1>11, <1>12, <1>13, <1>14,
     <1>15, <1>16, <1>17, <1>18, <1>19, <1>20, <1>21, <1>22, <1>23, <1>24
     DEF Next, Transaction

(* No unit is restarted between the barrier and the selection: none is     *)
(* wanted, and the gate is down.                                           *)
LEMMA AtRestStep == IInv /\ [Next]_vars => AtRest'
<1> SUFFICES ASSUME IInv, [Next]_vars PROVE AtRest'
  OBVIOUS
<1> USE DEF IInv, TypeOK, JobType, NativeType, Proceeds, FailsUnless, Goes, disk, services, bounds,
      AtRest, AllDown, Units, Stopping
<1>1. ASSUME NEW c \in Runtimes, ChangeStarts(c) PROVE AtRest'
  BY <1>1 DEF ChangeStarts, Finished, Sequence, NoJob, Idle, Ready
<1>2. ASSUME NEW c \in Runtimes, Stage(c) PROVE AtRest'
  BY <1>2 DEF Stage
<1>3. CASE Drain
  BY <1>3, FailsTo DEF Drain, AskDrain, NoJob, Reachable
<1>4. CASE Drained
  BY <1>4, FailsTo DEF Drained, ClosedIdle, Idle, Ready, NoJob
<1>5. CASE Begin
  BY <1>5, FailsTo DEF Begin, GateCleared, NoJob
<1>6. CASE StopLatched
  BY <1>6, FailsTo DEF StopLatched, GateCleared
<1>7. CASE StopForRollback
  BY <1>7, FailsTo DEF StopForRollback, GateCleared
<1>8. CASE Halt
  BY <1>8, FailsTo DEF Halt, Without, NativeAfter, Fresh
<1>9. CASE Quiet
  BY <1>9, FailsTo DEF Quiet, SameCaptures
<1>10. CASE Select
  BY <1>10, FailsTo DEF Select, Selected, Target
<1>11. CASE Start
  BY <1>11, FailsTo DEF Start, Attested, Fresh
<1>12. CASE ReadyWait
  BY <1>12, FailsTo DEF ReadyWait, AskDrain
<1>13. CASE Commit
  BY <1>13, FailsTo DEF Commit, ClosedIdle, Idle
<1>14. CASE Resume
  BY <1>14, FailsTo DEF Resume, Obeyed, Obeys, Reachable, NoJob
<1>15. CASE Held
  BY <1>15 DEF Held, NoJob
<1>16. CASE DispatcherDies
  BY <1>16 DEF DispatcherDies, NoJob
<1>17. CASE AdmitStarts
  BY <1>17 DEF AdmitStarts, Finished, NoJob
<1>18. ASSUME NEW u \in Units, RestartUnit(u) PROVE AtRest'
  BY <1>18 DEF RestartUnit, Preflight, Attested, Fresh
<1>19. ASSUME NEW u \in Units, UnitFails(u) PROVE AtRest'
  BY <1>19 DEF UnitFails, Without, NativeAfter, Fresh
<1>20. CASE Reboot
  BY <1>20 DEF Reboot, Without, Fresh, NoJob
<1>21. CASE HealthRecovers \/ HealthLost \/ DrainCompletes
  BY <1>21 DEF HealthRecovers, HealthLost, DrainCompletes, Server
<1>22. CASE GameStarts \/ GameEnds
  BY <1>22 DEF GameStarts, GameEnds, Server, Reachable
<1>23. CASE LateWrite
  BY <1>23 DEF LateWrite
<1>24. CASE UNCHANGED vars
  BY <1>24 DEF vars
<1>25. QED
  BY <1>1, <1>2, <1>3, <1>4, <1>5, <1>6, <1>7, <1>8, <1>9, <1>10, <1>11, <1>12, <1>13, <1>14,
     <1>15, <1>16, <1>17, <1>18, <1>19, <1>20, <1>21, <1>22, <1>23, <1>24
     DEF Next, Transaction

(* A step within the transaction, or its failure, keeps the number.        *)
LEMMA NumberGoesOn ==
  ASSUME job \in JobType, Numbered, UNCHANGED <<selector, begun, opened>>,
         job'.sequence = job.sequence, job'.previous = job.previous, job'.back = job.back,
         \/ job.at \in {"stop"} \cup Stopping /\ job'.at \in Stopping
         \/ job.at \in Opening /\ job'.at \in Opening \cup {"resume"}
  PROVE  Numbered'
BY DEF JobType, Numbered, NotYet, Already, Begun, Stopping, Opening

LEMMA NumberFails ==
  ASSUME job \in JobType, Numbered, Fails, UNCHANGED <<selector, begun, opened>>,
         job.at \in Begun
  PROVE  Numbered'
<1>1. CASE job' = NoJob
  BY <1>1 DEF NoJob, Numbered, Begun, Stopping, Opening
<1>2. CASE job.at # "resume" /\ job' = [job EXCEPT !.back = TRUE, !.at = "stop"]
  BY <1>2 DEF JobType, Numbered, NotYet, Already, Begun, Stopping, Opening
<1>3. CASE job' = [job EXCEPT !.at = "held"]
  BY <1>3 DEF JobType, Numbered, Begun, Stopping, Opening
<1>4. QED
  BY <1>1, <1>2, <1>3, FailsTo

(* The number is the next one until it is selected.                        *)
LEMMA NumberedStep == IInv /\ [Next]_vars => Numbered'
<1> SUFFICES ASSUME IInv, [Next]_vars PROVE Numbered'
  OBVIOUS
<1> USE DEF IInv, TypeOK, JobType, NativeType, Proceeds, FailsUnless, Goes, disk, services, bounds,
      Numbered, NotYet, Already, Begun, Stopping, Opening, AttemptsAreConsumed, PhaseOfStep,
      Finished, Unfinished
<1>1. ASSUME NEW c \in Runtimes, ChangeStarts(c) PROVE Numbered'
  BY <1>1 DEF ChangeStarts, Sequence, NoJob, Idle, Ready
<1>2. ASSUME NEW c \in Runtimes, Stage(c) PROVE Numbered'
  BY <1>2 DEF Stage
<1>3. CASE Drain
  BY <1>3, FailsTo DEF Drain, AskDrain, NoJob, Reachable
<1>4. CASE Drained
  BY <1>4, FailsTo DEF Drained, ClosedIdle, Idle, Ready, NoJob
<1>5. CASE Begin
  BY <1>5, FailsTo DEF Begin, GateCleared, NoJob
<1>6. CASE StopLatched
  <2>1. CASE job' = [job EXCEPT !.at = "halt", !.latched = TRUE]
    BY <1>6, <2>1, NumberGoesOn DEF StopLatched
  <2>2. CASE Fails
    BY <1>6, <2>2, NumberFails DEF StopLatched
  <2>3. QED
    BY <1>6, <2>1, <2>2 DEF StopLatched
<1>7. CASE StopForRollback
  BY <1>7, FailsTo DEF StopForRollback, GateCleared
<1>8. CASE Halt
  BY <1>8, NumberGoesOn, NumberFails DEF Halt
<1>9. CASE Quiet
  BY <1>9, NumberGoesOn, NumberFails DEF Quiet
<1>10. CASE Select
  <2>1. CASE selector' = Selected /\ Goes("start")
    BY <1>10, <2>1 DEF Select, Selected
  <2>2. CASE selector' = Selected /\ Fails
    <3>1. /\ job.at = "select" /\ UNCHANGED <<begun, opened>>
          /\ selector'.sequence = job.sequence /\ selector'.previous = job.previous
      BY <1>10, <2>2 DEF Select, Selected
    <3>2. CASE job' = [job EXCEPT !.back = TRUE, !.at = "stop"]
      BY <3>1, <3>2
    <3>3. CASE job' = [job EXCEPT !.at = "held"]
      BY <3>1, <3>3
    <3>4. QED
      BY <2>2, <3>1, <3>2, <3>3, FailsTo
  <2>3. CASE UNCHANGED selector /\ Fails
    BY <1>10, <2>3, NumberFails DEF Select
  <2>4. QED
    BY <1>10, <2>1, <2>2, <2>3 DEF Select
<1>11. CASE Start
  BY <1>11, NumberGoesOn, NumberFails DEF Start
<1>12. CASE ReadyWait
  BY <1>12, NumberGoesOn, NumberFails DEF ReadyWait
<1>13. CASE Commit
  <2>1. CASE job' = [job EXCEPT !.at = "resume", !.boot = native.boot]
    BY <1>13, <2>1, NumberGoesOn DEF Commit
  <2>2. CASE Fails
    BY <1>13, <2>2, NumberFails DEF Commit
  <2>3. QED
    BY <1>13, <2>1, <2>2 DEF Commit
<1>14. CASE Resume
  BY <1>14, FailsTo DEF Resume, Obeyed, Obeys, Reachable, NoJob
<1>15. CASE Held
  BY <1>15 DEF Held, NoJob
<1>16. CASE DispatcherDies
  BY <1>16 DEF DispatcherDies, NoJob
<1>17. CASE AdmitStarts
  BY <1>17 DEF AdmitStarts, NoJob
<1>18. ASSUME NEW u \in Units, RestartUnit(u) PROVE Numbered'
  BY <1>18 DEF RestartUnit, Preflight, Attested, Fresh
<1>19. ASSUME NEW u \in Units, UnitFails(u) PROVE Numbered'
  BY <1>19 DEF UnitFails, Without, NativeAfter, Fresh
<1>20. CASE Reboot
  BY <1>20 DEF Reboot, Without, Fresh, NoJob
<1>21. CASE HealthRecovers \/ HealthLost \/ DrainCompletes
  BY <1>21 DEF HealthRecovers, HealthLost, DrainCompletes, Server
<1>22. CASE GameStarts \/ GameEnds
  BY <1>22 DEF GameStarts, GameEnds, Server, Reachable
<1>23. CASE LateWrite
  BY <1>23 DEF LateWrite
<1>24. CASE UNCHANGED vars
  BY <1>24 DEF vars
<1>25. QED
  BY <1>1, <1>2, <1>3, <1>4, <1>5, <1>6, <1>7, <1>8, <1>9, <1>10, <1>11, <1>12, <1>13, <1>14,
     <1>15, <1>16, <1>17, <1>18, <1>19, <1>20, <1>21, <1>22, <1>23, <1>24
     DEF Next, Transaction

(* Selector and files change only while there is no gate.                  *)
LEMMA GateIsSelectedStep == IInv /\ [Next]_vars => GateIsSelected'
<1> SUFFICES ASSUME IInv, [Next]_vars PROVE GateIsSelected'
  OBVIOUS
<1> USE DEF IInv, TypeOK, JobType, NativeType, Proceeds, FailsUnless, Goes, disk, services, bounds,
      GateIsSelected, Attested, FilesMatch, AtRest, Stopping
<1>1. ASSUME NEW c \in Runtimes, ChangeStarts(c) PROVE GateIsSelected'
  BY <1>1 DEF ChangeStarts, Finished, Sequence, NoJob, Idle, Ready
<1>2. ASSUME NEW c \in Runtimes, Stage(c) PROVE GateIsSelected'
  BY <1>2 DEF Stage
<1>3. CASE Drain
  BY <1>3, FailsTo DEF Drain, AskDrain, NoJob, Reachable
<1>4. CASE Drained
  BY <1>4, FailsTo DEF Drained, ClosedIdle, Idle, Ready, NoJob
<1>5. CASE Begin
  BY <1>5, FailsTo DEF Begin, GateCleared, NoJob
<1>6. CASE StopLatched
  BY <1>6, FailsTo DEF StopLatched, GateCleared
<1>7. CASE StopForRollback
  BY <1>7, FailsTo DEF StopForRollback, GateCleared
<1>8. CASE Halt
  BY <1>8, FailsTo DEF Halt, Without, NativeAfter, Fresh
<1>9. CASE Quiet
  BY <1>9, FailsTo DEF Quiet, SameCaptures, AllDown
<1>10. CASE Select
  BY <1>10, FailsTo DEF Select, Selected, Target
<1>11. CASE Start
  BY <1>11, FailsTo DEF Start, Fresh
<1>12. CASE ReadyWait
  BY <1>12, FailsTo DEF ReadyWait, AskDrain
<1>13. CASE Commit
  BY <1>13, FailsTo DEF Commit, ClosedIdle, Idle
<1>14. CASE Resume
  BY <1>14, FailsTo DEF Resume, Obeyed, Obeys, Reachable, NoJob
<1>15. CASE Held
  BY <1>15 DEF Held, NoJob
<1>16. CASE DispatcherDies
  BY <1>16 DEF DispatcherDies, NoJob
<1>17. CASE AdmitStarts
  BY <1>17 DEF AdmitStarts, Finished, NoJob
<1>18. ASSUME NEW u \in Units, RestartUnit(u) PROVE GateIsSelected'
  BY <1>18 DEF RestartUnit, Preflight, Fresh
<1>19. ASSUME NEW u \in Units, UnitFails(u) PROVE GateIsSelected'
  BY <1>19 DEF UnitFails, Without, NativeAfter, Fresh
<1>20. CASE Reboot
  BY <1>20 DEF Reboot, Without, Fresh, NoJob
<1>21. CASE HealthRecovers \/ HealthLost \/ DrainCompletes
  BY <1>21 DEF HealthRecovers, HealthLost, DrainCompletes, Server
<1>22. CASE GameStarts \/ GameEnds
  BY <1>22 DEF GameStarts, GameEnds, Server, Reachable
<1>23. CASE LateWrite
  BY <1>23 DEF LateWrite
<1>24. CASE UNCHANGED vars
  BY <1>24 DEF vars
<1>25. QED
  BY <1>1, <1>2, <1>3, <1>4, <1>5, <1>6, <1>7, <1>8, <1>9, <1>10, <1>11, <1>12, <1>13, <1>14,
     <1>15, <1>16, <1>17, <1>18, <1>19, <1>20, <1>21, <1>22, <1>23, <1>24
     DEF Next, Transaction

(* A transaction that is over has its number, or never began.              *)
LEMMA AttemptsAreConsumedStep == IInv /\ [Next]_vars => AttemptsAreConsumed'
<1> SUFFICES ASSUME IInv, [Next]_vars PROVE AttemptsAreConsumed'
  OBVIOUS
<1> USE DEF IInv, TypeOK, JobType, NativeType, Proceeds, FailsUnless, Goes, disk, services, bounds,
      AttemptsAreConsumed, Finished, Unfinished, Numbered, Already, Begun, PhaseOfStep, Stopping,
      Opening
<1>1. ASSUME NEW c \in Runtimes, ChangeStarts(c) PROVE AttemptsAreConsumed'
  BY <1>1 DEF ChangeStarts, Sequence, NoJob, Idle, Ready
<1>2. ASSUME NEW c \in Runtimes, Stage(c) PROVE AttemptsAreConsumed'
  BY <1>2 DEF Stage
<1>3. CASE Drain
  BY <1>3, FailsTo DEF Drain, AskDrain, NoJob, Reachable
<1>4. CASE Drained
  BY <1>4, FailsTo DEF Drained, ClosedIdle, Idle, Ready, NoJob
<1>5. CASE Begin
  BY <1>5, FailsTo DEF Begin, GateCleared, NoJob
<1>6. CASE StopLatched
  BY <1>6, FailsTo DEF StopLatched, GateCleared
<1>7. CASE StopForRollback
  BY <1>7, FailsTo DEF StopForRollback, GateCleared
<1>8. CASE Halt
  BY <1>8, FailsTo DEF Halt, Without, NativeAfter, Fresh
<1>9. CASE Quiet
  BY <1>9, FailsTo DEF Quiet, SameCaptures, AllDown
<1>10. CASE Select
  BY <1>10, FailsTo DEF Select, Selected, Target
<1>11. CASE Start
  BY <1>11, FailsTo DEF Start, Attested, Fresh
<1>12. CASE ReadyWait
  BY <1>12, FailsTo DEF ReadyWait, AskDrain
<1>13. CASE Commit
  BY <1>13, FailsTo DEF Commit, ClosedIdle, Idle
<1>14. CASE Resume
  BY <1>14, FailsTo DEF Resume, Obeyed, Obeys, Reachable, NoJob
<1>15. CASE Held
  BY <1>15 DEF Held, NoJob
<1>16. CASE DispatcherDies
  BY <1>16 DEF DispatcherDies, NoJob
<1>17. CASE AdmitStarts
  BY <1>17 DEF AdmitStarts, NoJob
<1>18. ASSUME NEW u \in Units, RestartUnit(u) PROVE AttemptsAreConsumed'
  BY <1>18 DEF RestartUnit, Preflight, Attested, Fresh
<1>19. ASSUME NEW u \in Units, UnitFails(u) PROVE AttemptsAreConsumed'
  BY <1>19 DEF UnitFails, Without, NativeAfter, Fresh
<1>20. CASE Reboot
  BY <1>20 DEF Reboot, Without, Fresh, NoJob
<1>21. CASE HealthRecovers \/ HealthLost \/ DrainCompletes
  BY <1>21 DEF HealthRecovers, HealthLost, DrainCompletes, Server
<1>22. CASE GameStarts \/ GameEnds
  BY <1>22 DEF GameStarts, GameEnds, Server, Reachable
<1>23. CASE LateWrite
  BY <1>23 DEF LateWrite
<1>24. CASE UNCHANGED vars
  BY <1>24 DEF vars
<1>25. QED
  BY <1>1, <1>2, <1>3, <1>4, <1>5, <1>6, <1>7, <1>8, <1>9, <1>10, <1>11, <1>12, <1>13, <1>14,
     <1>15, <1>16, <1>17, <1>18, <1>19, <1>20, <1>21, <1>22, <1>23, <1>24
     DEF Next, Transaction
-----------------------------------------------------------------------------
(***************************************************************************)
(* The invariant.                                                          *)
(***************************************************************************)

(* A completed installation satisfies the invariant.                       *)
LEMMA InitIsSound == Init => IInv
<1> SUFFICES ASSUME Init PROVE IInv
  OBVIOUS
<1>1. TypeOK
  <2>1. native \in NativeType /\ job \in JobType
    <3>1. native = [boot |-> 1, accepting |-> FALSE, drain |-> "complete", games |-> 0,
                    healthy |-> TRUE]
      BY DEF Init, Fresh
    <3>2. native \in NativeType
      BY <3>1 DEF NativeType
    <3>3. QED
      BY <3>2, NoJobIsTyped DEF Init
  <2>2. /\ selector \in [id : Runtimes, sequence : Nat \ {0}, previous : Runtimes]
        /\ approval \in [Runtimes -> (Runtimes \X Nat) \cup {Nothing}]
    BY RolloutAssumption DEF Init
  <2>3. /\ gate \in (Runtimes \X Nat) \cup {Nothing} /\ run \in [Units -> Runtimes \cup {Nothing}]
        /\ files \in Runtimes /\ phase = "finished" /\ banks = {} /\ wanted = Units
        /\ changed = FALSE /\ begun = {} /\ opened \in 0..selector.sequence
        /\ commands \in 0..MaxCommands /\ faults \in 0..MaxFaults
    BY RolloutAssumption DEF Init
  <2>4. QED
    BY <2>1, <2>2, <2>3 DEF TypeOK, JobType, NativeType
<1>2. RunsSelected /\ ClosedMeanwhile /\ GateIsSelected /\ AttemptsAreConsumed
  BY DEF Init, Fresh, Units, RunsSelected, ClosedMeanwhile, GateIsSelected, AttemptsAreConsumed,
     FilesMatch, Attested, NoJob
<1>3. PhaseOfStep /\ AtRest /\ Numbered
  BY DEF Init, NoJob, PhaseOfStep, AtRest, Numbered, Begun, Stopping, Opening
<1>4. QED
  BY <1>1, <1>2, <1>3 DEF IInv

(* The inductive invariant holds throughout.                               *)
THEOREM Invariance == Spec => []IInv
<1>1. IInv /\ [Next]_vars => IInv'
  BY TypeStep, RunsSelectedStep, ClosedMeanwhileStep, PhaseOfStepStep, AtRestStep, NumberedStep,
     GateIsSelectedStep, AttemptsAreConsumedStep DEF IInv
<1>2. QED
  BY <1>1, InitIsSound, PTL DEF Spec

(* Whatever fails, dies or reboots: types hold, games are admitted by the  *)
(* selected runtime on its own files and in no open transaction, the units *)
(* that run are of one release, the credential gate is the selected        *)
(* release's, and numbers are used up.                                     *)
THEOREM OneRelease == Spec => []OneReleaseServes
<1>1. IInv => OneReleaseServes
  BY RolloutAssumption DEF IInv, OneReleaseServes, OpenIsSelected, MatchedUnits, RunsSelected,
     ClosedMeanwhile, Units
<1>2. QED
  BY <1>1, Invariance, PTL

-----------------------------------------------------------------------------
(***************************************************************************)
(* Nobody is disturbed.                                                    *)
(***************************************************************************)

(* Only one step replaces selector or files.                               *)
LEMMA OnlySelectReplaces ==
  ASSUME [Next]_vars, <<selector, files>>' # <<selector, files>>
  PROVE  Select
BY DEF Next, Transaction, ChangeStarts, Stage, Drain, Drained, Begin, StopLatched, StopForRollback,
   Halt, Quiet, Start, ReadyWait, Commit, Resume, Held, DispatcherDies, AdmitStarts, RestartUnit,
   UnitFails, Reboot, HealthRecovers, HealthLost, DrainCompletes, GameStarts, GameEnds, LateWrite,
   Server, vars, disk

(* Selector and files are replaced only while every process is dead, no    *)
(* game is left and no recording changed since the inventory.              *)
THEOREM ReplacesAtRest == Spec => ReplacedAtRest
<1>1. IInv /\ [Next]_vars =>
        [<<selector, files>>' # <<selector, files>> =>
           (\A u \in Units : run[u] = Nothing) /\ native.games = 0 /\ ~changed]_vars
  <2> SUFFICES ASSUME IInv, [Next]_vars, <<selector, files>>' # <<selector, files>>
               PROVE  (\A u \in Units : run[u] = Nothing) /\ native.games = 0 /\ ~changed
    OBVIOUS
  <2>1. job.at = "select"
    BY OnlySelectReplaces DEF Select
  <2>2. QED
    BY <2>1 DEF IInv, AtRest, AllDown, RunsSelected, Units
<1>2. QED
  BY <1>1, Invariance, PTL DEF Spec, ReplacedAtRest

(* No step of the transaction ends a game.                                 *)
THEOREM StopsNoGame == Spec => NoGameIsStopped
<1>1. IInv /\ [Next]_vars => [native.games = 1 /\ Transaction => native'.games = 1]_vars
  <2> SUFFICES ASSUME IInv, native.games = 1, Transaction PROVE native'.games = 1
    OBVIOUS
  <2> USE DEF IInv, TypeOK, NativeType
  <2>1. CASE Drain \/ ReadyWait
    BY <2>1 DEF Drain, ReadyWait, AskDrain
  <2>2. CASE Halt
    BY <2>2 DEF Halt, PhaseOfStep, Stopping, ClosedMeanwhile
  <2>3. CASE Start
    BY <2>3 DEF Start, PhaseOfStep, Opening, ClosedMeanwhile
  <2>4. CASE Resume
    BY <2>4 DEF Resume, Obeyed
  <2>5. CASE Drained \/ Begin \/ StopLatched \/ StopForRollback \/ Quiet \/ Select \/ Commit \/ Held
    BY <2>5 DEF Drained, Begin, StopLatched, StopForRollback, Quiet, Select, Commit, Held, services
  <2>6. QED
    BY <2>1, <2>2, <2>3, <2>4, <2>5 DEF Transaction
<1>2. QED
  BY <1>1, Invariance, PTL DEF Spec, NoGameIsStopped

(* Files in use and games under way are left alone, whatever goes wrong.   *)
THEOREM DisturbsNobody == Spec => NothingIsDisturbed
BY ReplacesAtRest, StopsNoGame DEF NothingIsDisturbed

-----------------------------------------------------------------------------
(***************************************************************************)
(* The table of RuntimeSwitch.                                             *)
(***************************************************************************)

SelectionStays == UNCHANGED <<selector, opened>>

(* Three ways in which a step is seen at the table: it is closed, the server*)
(* dies, or nothing is seen.                                               *)
LEMMA ServerIsClosed ==
  ASSUME SelectionStays, ~native'.accepting, native'.games = native.games
  PROVE  Switch!Close
BY DEF SelectionStays, Switch!Close, Switch!selection

LEMMA ServerDies ==
  ASSUME SelectionStays, NEW boot, native' = Fresh(boot)
  PROVE  Switch!Dies
BY DEF SelectionStays, Fresh, Switch!Dies, Switch!selection

LEMMA TableStays ==
  ASSUME SelectionStays, native'.accepting = native.accepting, native'.games = native.games
  PROVE  UNCHANGED Switch!vars
BY DEF SelectionStays, Switch!vars

(* Selecting is a change, the taking back of one that admitted nobody, or  *)
(* the use of a number for a change that had not taken effect.             *)
LEMMA SelectIsChange ==
  ASSUME IInv, Select
  PROVE  Switch!Switch \/ Switch!TakeBack \/ Switch!Skip \/ UNCHANGED Switch!vars
<1> USE DEF IInv, TypeOK, JobType
<1>1. /\ job.at = "select" /\ UNCHANGED <<native, opened>>
      /\ ~native.accepting /\ native.games = 0
  BY DEF Select, services, PhaseOfStep, ClosedMeanwhile, Stopping
<1>2. CASE UNCHANGED selector
  BY <1>1, <1>2, TableStays DEF SelectionStays
<1>3. CASE selector' = Selected
  <2>1. /\ selector'.id = Target /\ selector'.sequence = job.sequence
        /\ selector'.previous = job.previous /\ opened < job.sequence
    BY <1>1, <1>3 DEF Selected, Numbered, Begun, Stopping
  <2>2. CASE NotYet /\ ~job.back
    BY <1>1, <2>1, <2>2 DEF NotYet, Target, Switch!Switch
  <2>3. CASE NotYet /\ job.back
    BY <1>1, <2>1, <2>3 DEF NotYet, Target, Switch!Skip
  <2>4. CASE Already /\ job.back
    BY <1>1, <2>1, <2>4 DEF Already, Target, Switch!TakeBack
  <2>5. QED
    BY <1>1, <2>2, <2>3, <2>4 DEF Numbered, Stopping
<1>4. QED
  BY <1>2, <1>3 DEF Select

(* Every step of every process is a step of the table or leaves it as it   *)
(* is.                                                                     *)
LEMMA StepIsSwitch == IInv /\ [Next]_vars => [Switch!Next]_(Switch!vars)
<1> SUFFICES ASSUME IInv, [Next]_vars PROVE Switch!Next \/ UNCHANGED Switch!vars
  OBVIOUS
<1> USE DEF IInv, TypeOK, NativeType, SelectionStays
<1>1. CASE Drain \/ ReadyWait
  <2>1. SelectionStays
    BY <1>1 DEF Drain, ReadyWait, disk
  <2>2. CASE AskDrain
    BY <2>1, <2>2, ServerIsClosed DEF AskDrain, Switch!Next
  <2>3. CASE UNCHANGED native
    BY <2>1, <2>3, TableStays
  <2>4. QED
    BY <1>1, <2>2, <2>3 DEF Drain, ReadyWait
<1>2. CASE Halt \/ Start
  <2>1. SelectionStays
    BY <1>2 DEF Halt, Start, disk
  <2>2. UNCHANGED native \/ \E boot : native' = Fresh(boot)
    BY <1>2 DEF Halt, NativeAfter, Start
  <2>3. QED
    BY <2>1, <2>2, TableStays, ServerDies DEF Switch!Next
<1>3. CASE Reboot \/ \E u \in Units : RestartUnit(u) \/ UnitFails(u)
  <2>1. SelectionStays
    BY <1>3 DEF Reboot, RestartUnit, UnitFails, disk, bounds
  <2>2. UNCHANGED native \/ \E boot : native' = Fresh(boot)
    BY <1>3 DEF Reboot, RestartUnit, UnitFails, NativeAfter
  <2>3. QED
    BY <2>1, <2>2, TableStays, ServerDies DEF Switch!Next
<1>4. CASE Resume
  <2>1. CASE Obeyed
    <3>1. /\ UNCHANGED selector /\ opened' = selector.sequence
          /\ native'.accepting = TRUE /\ native'.games = native.games
      BY <1>4, <2>1 DEF Resume, Obeyed, disk
    <3>2. QED
      BY <3>1 DEF Switch!Admit, Switch!selection, Switch!Next
  <2>2. CASE UNCHANGED <<native, opened>>
    BY <1>4, <2>2, TableStays DEF Resume, disk
  <2>3. QED
    BY <1>4, <2>1, <2>2 DEF Resume
<1>5. CASE Select
  BY <1>5, SelectIsChange DEF Switch!Next
<1>6. CASE GameStarts
  <2>1. /\ native.accepting /\ native.games = 0 /\ SelectionStays
        /\ native'.accepting = native.accepting /\ native'.games = 1
    BY <1>6 DEF GameStarts, Server, disk
  <2>2. native'.games = native.games + 1
    BY <2>1
  <2>3. Switch!GameStarts
    BY <2>1, <2>2 DEF Switch!GameStarts, Switch!selection
  <2>4. QED
    BY <2>3 DEF Switch!Next
<1>7. CASE GameEnds
  BY <1>7 DEF GameEnds, Server, disk, Switch!GameEnds, Switch!selection, Switch!Next
<1>8. CASE HealthLost
  <2>1. SelectionStays /\ ~native'.accepting /\ native'.games = native.games
    BY <1>8 DEF HealthLost, Server, disk
  <2>2. QED
    BY <2>1, ServerIsClosed DEF Switch!Next
<1>9. CASE HealthRecovers \/ DrainCompletes
  <2>1. SelectionStays /\ native'.accepting = native.accepting /\ native'.games = native.games
    BY <1>9 DEF HealthRecovers, DrainCompletes, Server, disk
  <2>2. QED
    BY <2>1, TableStays
<1>10. CASE \E c \in Runtimes : ChangeStarts(c) \/ Stage(c)
  BY <1>10, TableStays DEF ChangeStarts, Stage, disk, services, bounds
<1>11. CASE Drained \/ Begin \/ StopLatched \/ StopForRollback \/ Quiet \/ Commit \/ Held
  BY <1>11, TableStays DEF Drained, Begin, StopLatched, StopForRollback, Quiet, Commit, Held,
     disk, services
<1>12. CASE DispatcherDies \/ AdmitStarts \/ LateWrite \/ UNCHANGED vars
  BY <1>12, TableStays DEF DispatcherDies, AdmitStarts, LateWrite, vars, disk, services, bounds
<1>13. QED
  BY <1>1, <1>2, <1>3, <1>4, <1>5, <1>6, <1>7, <1>8, <1>9, <1>10, <1>11, <1>12 DEF Next, Transaction

(* However its steps fail, the rollout is a table that closes, changes     *)
(* hands and opens again; a change is taken back only if it admitted       *)
(* nobody.                                                                 *)
THEOREM RolloutIsSwitch == Spec => ImplementsSwitch
<1>1. Init => Switch!Init
  BY RolloutAssumption DEF Init, Fresh, Switch!Init
<1>2. QED
  BY <1>1, StepIsSwitch, Invariance, PTL DEF Spec, ImplementsSwitch, Switch!Spec

=============================================================================
