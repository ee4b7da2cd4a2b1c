---------------------------- MODULE QaTransaction ----------------------------
(***************************************************************************)
(* The qualification of a manual runtime in a disposable guest             *)
(* (commander_gym/manual_runtime_qa.py): the transaction of ManualRollout  *)
(* run by another host.  Its authority may be used once and expires; each  *)
(* of its files is written beside its place and moved there, and what a    *)
(* write that was cut short leaves behind blocks every later write of that *)
(* file; its rollback stops only a server that answers; and after a crash  *)
(* an operator may put the previous runtime back, closed, as long as no    *)
(* game can have been admitted.                                            *)
(*                                                                         *)
(* The guest's systemd and native server are external.  Seals, profiles    *)
(* and inventories of code hold, or the authority counts as expired.  The  *)
(* recorder stands for the units that are stopped after the server.        *)
(***************************************************************************)
EXTENDS Naturals, FiniteSets

CONSTANTS
  QaAttempts,   \* bound: the controller processes of a behaviour
  MaxQaFaults,  \* bound: errors, crashes, failing units, the authority's expiry
  MaxQaWrites   \* bound: changes of the recordings

VARIABLES
  qaAttempts,   \* the processes this behaviour may still start, of QaAttempts
  qaFiles,      \* selector.json, service-profile.json: [id, sequence, profile]
  qaPhase,      \* of transaction.json, "none" if there is none
  qaUsed, qaBank,   \* whether used.json and bank.json are there
  qaContext,    \* stop-context.json: {} or {[runtime, inventory]}
  qaTorn,       \* files whose unfinished copy (.next) is there
  qaRun,        \* what each unit runs
  qaNative,     \* [accepting, drained, games, healthy]
  qaInventory,  \* the state of the recordings
  qaJob,        \* the controller that has the lock
  qaExpired, qaOpened, qaFaults

qaDisk == <<qaFiles, qaPhase, qaUsed, qaBank, qaContext, qaTorn>>
qaGuest == <<qaRun, qaNative, qaInventory>>
qaRest == <<qaAttempts, qaExpired, qaOpened>>
qaVars == <<qaDisk, qaGuest, qaRest, qaJob, qaFaults>>

QaUnits == {"native", "recorder"}

\* at: its next step; back: the previous runtime is being restored; recovery: on an
\* operator's request; latched: the inventory when the units were stopped.
NoQaJob == [at |-> "none", back |-> FALSE, recovery |-> FALSE, latched |-> 0]
ClosedServer == [accepting |-> FALSE, drained |-> TRUE, games |-> 0, healthy |-> TRUE]
NoServer == [ClosedServer EXCEPT !.drained = FALSE, !.healthy = FALSE]

QaInit ==
  /\ qaAttempts \in QaAttempts
  /\ qaFiles = [id |-> "previous", sequence |-> 1, profile |-> "previous"]
  /\ qaPhase = "none" /\ qaUsed = FALSE /\ qaBank = FALSE /\ qaContext = {} /\ qaTorn = {}
  /\ qaRun = [u \in QaUnits |-> "previous"] /\ qaNative = [ClosedServer EXCEPT !.accepting = TRUE, !.drained = FALSE]
  /\ qaInventory = 0 /\ qaJob = NoQaJob
  /\ qaExpired = FALSE /\ qaOpened = FALSE /\ qaFaults = 0

-----------------------------------------------------------------------------
(* What the controller reads, and how a step of it ends. *)

QaDown == \A u \in QaUnits : qaRun[u] = "nothing"
QaWritable(f) == f \notin qaTorn

\* Each answer of the server is put on record before it is used.
QaAnswers(id) == qaRun["native"] = id /\ qaNative.healthy /\ QaWritable("observation")
QaIdle(id) == QaAnswers(id) /\ qaNative.games = 0
QaClosedIdle(id) == QaIdle(id) /\ ~qaNative.accepting /\ qaNative.drained
QaTarget == IF qaJob.back THEN "previous" ELSE "candidate"

\* QAFileHost(): its authority, and the files as it left them.
QaHost ==
  /\ ~qaExpired
  /\ IF qaBank THEN qaPhase # "none" ELSE qaFiles = [id |-> "previous", sequence |-> 1, profile |-> "previous"]

QaFault == qaFaults < MaxQaFaults /\ qaFaults' = qaFaults + 1
QaGoes(at) == qaJob' = [qaJob EXCEPT !.at = at] /\ UNCHANGED qaFaults

QaHandled ==
  qaJob' = IF qaJob.recovery \/ qaJob.at \in {"drain", "begin"} THEN NoQaJob
           ELSE IF ~qaJob.back /\ qaJob.at # "resume" THEN [qaJob EXCEPT !.at = "stop", !.back = TRUE]
           ELSE [qaJob EXCEPT !.at = "held"]

\* A step that does not do what it should: what it requires does not hold; or there
\* is an error; or the controller dies.
QaFails(ok) ==
  \/ QaHandled /\ IF ok THEN QaFault ELSE UNCHANGED qaFaults
  \/ qaJob' = NoQaJob /\ QaFault

\* A step with its effect, and perhaps an error or a crash after that.
QaDone(at) == QaGoes(at) \/ QaFails(TRUE)

\* It writes files: of one that is not written completely a copy may be left.
QaFailsWriting(ok, files) ==
  QaFails(ok) /\ qaTorn' \in {qaTorn} \cup {qaTorn \cup {f} : f \in IF ok THEN files ELSE {}}

\* It has its effect, which is then put on record; or that is cut short.
QaRecorded(at) == (QaGoes(at) /\ qaTorn' = qaTorn) \/ QaFailsWriting(TRUE, {"observation"})

-----------------------------------------------------------------------------
(* promote_qa: the transaction. *)

QaPromoteStarts ==
  /\ qaJob.at = "none" /\ qaAttempts > 0 /\ QaHost
  /\ ~qaUsed /\ qaTorn = {} /\ qaPhase = "none" /\ QaIdle("previous")
  /\ qaJob' = [NoQaJob EXCEPT !.at = "drain"] /\ qaAttempts' = qaAttempts - 1
  /\ UNCHANGED <<qaDisk, qaGuest, qaExpired, qaOpened, qaFaults>>

\* The server is asked to drain and must have done so when it is next looked at.
QaDrain ==
  /\ qaJob.at = "drain"
  /\ \/ /\ QaAnswers("previous")
        /\ \E drained \in (IF qaNative.games = 0 THEN BOOLEAN ELSE {FALSE}) :
             /\ qaNative' = [qaNative EXCEPT !.accepting = FALSE, !.drained = drained]
             /\ \/ drained /\ QaRecorded("begin")
                \/ ~drained /\ ((QaFails(FALSE) /\ UNCHANGED qaTorn) \/ QaFailsWriting(TRUE, {"observation"}))
     \/ QaFailsWriting(QaAnswers("previous"), {"observation"}) /\ UNCHANGED qaNative
  /\ UNCHANGED <<qaFiles, qaPhase, qaUsed, qaBank, qaContext, qaRun, qaInventory, qaRest>>

\* The authority is used up, the bank filled, the transaction opened: in this order.
QaBegin ==
  /\ qaJob.at = "begin"
  /\ \E k \in IF qaExpired THEN {0} ELSE 0..3 :
       /\ qaUsed' = (k >= 1) /\ qaBank' = (k >= 2)
       /\ qaPhase' = IF k = 3 THEN "intent" ELSE qaPhase
       /\ IF k = 3 THEN QaRecorded("stop")
          ELSE QaFailsWriting(~qaExpired, {<<"used", "bank", "transaction">>[k + 1]})
  /\ UNCHANGED <<qaFiles, qaContext, qaGuest, qaRest>>

\* stop_closure: the runtime that is selected, closed and idle, and its recordings.
QaStop ==
  /\ qaJob.at = "stop"
  /\ LET may == QaClosedIdle(qaFiles.id) /\ QaWritable("context") IN
     \/ /\ may /\ qaContext' = {[runtime |-> qaFiles.id, inventory |-> qaInventory]}
        /\ \/ /\ qaJob' = [qaJob EXCEPT !.at = "halt", !.latched = qaInventory]
              /\ UNCHANGED <<qaTorn, qaFaults>>
           \/ QaFailsWriting(TRUE, {"observation"})
     \/ qaContext' = qaContext /\ QaFailsWriting(may, {"context", "observation"})
  /\ UNCHANGED <<qaFiles, qaPhase, qaUsed, qaBank, qaGuest, qaRest>>

QaWithout(units) == [u \in QaUnits |-> IF u \in units THEN "nothing" ELSE qaRun[u]]

QaHalt ==
  /\ qaJob.at = "halt"
  /\ \E stopped \in IF qaExpired THEN {{}} ELSE {{}, {"native"}, QaUnits} :
       /\ qaRun' = QaWithout(stopped)
       /\ qaNative' = IF stopped = {} THEN qaNative ELSE NoServer
       /\ IF stopped = QaUnits THEN QaDone("quiet") ELSE QaFails(~qaExpired)
  /\ UNCHANGED <<qaDisk, qaInventory, qaRest>>

QaQuiet ==
  /\ qaJob.at = "quiet"
  /\ LET quiet == QaDown /\ qaInventory = qaJob.latched /\ QaWritable("observation") IN
     (quiet /\ QaDone("select") /\ qaTorn' = qaTorn) \/ QaFailsWriting(quiet, {"observation"})
  /\ UNCHANGED <<qaFiles, qaPhase, qaUsed, qaBank, qaContext, qaGuest, qaRest>>

\* The profile, the selector (with the sequence that is used up), the transaction.
QaSelectWrites == <<"profile", "selector", "transaction">>
QaSelect ==
  /\ qaJob.at = "select"
  /\ \E k \in IF qaJob.back /\ qaExpired THEN {0} ELSE 0..3 :
       /\ \A i \in 1..k : QaWritable(QaSelectWrites[i])
       /\ qaFiles' = [id |-> IF k >= 2 THEN QaTarget ELSE qaFiles.id,
                      sequence |-> IF k >= 2 THEN 2 ELSE qaFiles.sequence,
                      profile |-> IF k >= 1 THEN QaTarget ELSE qaFiles.profile]
       /\ qaPhase' = IF k = 3 THEN "selected" ELSE qaPhase
       /\ IF k = 3 THEN qaTorn' = qaTorn /\ QaDone("start")
          ELSE LET f == QaSelectWrites[k + 1] IN
               QaFailsWriting(QaWritable(f) /\ ~(qaJob.back /\ qaExpired), {f})
  /\ UNCHANGED <<qaUsed, qaBank, qaContext, qaGuest, qaRest>>

\* start_closed: by its policy the server admits nobody; whether it is well shows
\* when it is looked at.
QaStart ==
  /\ qaJob.at = "start"
  /\ LET may == ~qaExpired /\ QaWritable("policy") IN
     \E started \in IF may THEN {{}, {"recorder"}, QaUnits} ELSE {{}} :
       /\ qaRun' = [u \in QaUnits |-> IF u \in started THEN qaFiles.profile ELSE qaRun[u]]
       /\ IF started = QaUnits
          THEN \E drained, healthy \in BOOLEAN :
                 qaNative' = [ClosedServer EXCEPT !.drained = drained, !.healthy = healthy]
          ELSE qaNative' = qaNative
       /\ IF started = QaUnits THEN qaTorn' = qaTorn /\ QaDone("commit")
          ELSE QaFailsWriting(may, {"policy"})
  /\ UNCHANGED <<qaFiles, qaPhase, qaUsed, qaBank, qaContext, qaInventory, qaRest>>

\* The look at the started server and what is put on record before it may open.  A
\* recovery leaves it closed.
QaCommit ==
  /\ qaJob.at = "commit"
  /\ LET may == QaClosedIdle(QaTarget) /\ QaWritable("transaction") IN
     \/ /\ may /\ qaPhase' = IF qaJob.recovery THEN "rolled-back-closed" ELSE "completed"
        /\ IF qaJob.recovery THEN qaJob' = NoQaJob /\ UNCHANGED <<qaTorn, qaFaults>>
           ELSE QaRecorded("resume")
     \/ qaPhase' = qaPhase /\ QaFailsWriting(may, {"transaction", "observation"})
  /\ UNCHANGED <<qaFiles, qaUsed, qaBank, qaContext, qaGuest, qaRest>>

QaResume ==
  /\ qaJob.at = "resume"
  /\ \/ /\ qaRun["native"] = QaTarget
        /\ qaNative' = [qaNative EXCEPT !.accepting = TRUE, !.drained = FALSE] /\ qaOpened' = TRUE
        /\ IF QaWritable("observation")
           THEN (qaJob' = NoQaJob /\ UNCHANGED <<qaTorn, qaFaults>>) \/ QaFailsWriting(TRUE, {"observation"})
           ELSE QaFails(FALSE) /\ UNCHANGED qaTorn
     \/ QaFails(qaRun["native"] = QaTarget) /\ UNCHANGED <<qaNative, qaOpened, qaTorn>>
  /\ UNCHANGED <<qaFiles, qaPhase, qaUsed, qaBank, qaContext, qaRun, qaInventory, qaAttempts, qaExpired>>

QaHeld ==
  /\ qaJob.at = "held" /\ qaJob' = NoQaJob
  /\ \/ QaWritable("transaction") /\ qaPhase' = "operator-review" /\ UNCHANGED <<qaTorn, qaFaults>>
     \/ ~QaWritable("transaction") /\ UNCHANGED <<qaPhase, qaTorn, qaFaults>>
     \/ qaPhase' = qaPhase /\ qaTorn' \in {qaTorn, qaTorn \cup {"transaction"}} /\ QaFault
  /\ UNCHANGED <<qaFiles, qaUsed, qaBank, qaContext, qaGuest, qaRest>>

-----------------------------------------------------------------------------
(* recover_qa_closed: never what may have admitted a game.  Units that are   *)
(* all down must have been stopped by a controller that said what for.       *)

QaPossiblyAdmitted == qaPhase \in {"completed", "operator-review"}
QaKnown == <<qaFiles.id, qaFiles.sequence>> \in {<<"previous", 1>>, <<"candidate", 2>>, <<"previous", 2>>}
QaRecoverStarts ==
  /\ qaJob.at = "none" /\ qaAttempts > 0 /\ QaHost
  /\ qaTorn \subseteq {"observation"} /\ qaBank /\ ~QaPossiblyAdmitted
  /\ IF QaDown
     THEN QaKnown /\ \E c \in qaContext :
            qaJob' = [at |-> "quiet", back |-> TRUE, recovery |-> TRUE, latched |-> c.inventory]
     ELSE qaJob' = [NoQaJob EXCEPT !.at = "stop", !.back = TRUE, !.recovery = TRUE]
  /\ qaAttempts' = qaAttempts - 1
  /\ UNCHANGED <<qaDisk, qaGuest, qaExpired, qaOpened, qaFaults>>

-----------------------------------------------------------------------------
(* The guest. *)

QaGuestStep == UNCHANGED <<qaDisk, qaJob, qaAttempts, qaOpened>>

QaGameStarts ==
  /\ qaNative.accepting /\ qaNative.games = 0 /\ qaInventory < MaxQaWrites
  /\ qaNative' = [qaNative EXCEPT !.games = 1] /\ qaInventory' = qaInventory + 1
  /\ QaGuestStep /\ UNCHANGED <<qaRun, qaExpired, qaFaults>>

QaGameEnds ==
  /\ qaNative.games = 1 /\ qaNative' = [qaNative EXCEPT !.games = 0]
  /\ QaGuestStep /\ UNCHANGED <<qaRun, qaInventory, qaExpired, qaFaults>>

\* A unit that runs writes a recording late.
QaLateWrite ==
  /\ ~QaDown /\ qaInventory < MaxQaWrites /\ QaFault /\ qaInventory' = qaInventory + 1
  /\ QaGuestStep /\ UNCHANGED <<qaRun, qaNative, qaExpired>>

QaUnitsFail ==
  /\ \E gone \in {{"native"}, {"recorder"}, QaUnits} :
       /\ \E u \in gone : qaRun[u] # "nothing"
       /\ qaRun' = QaWithout(gone)
       /\ qaNative' = IF "native" \in gone THEN NoServer ELSE [qaNative EXCEPT !.healthy = FALSE]
  /\ QaFault /\ QaGuestStep /\ UNCHANGED <<qaInventory, qaExpired>>

QaExpires ==
  /\ ~qaExpired /\ qaExpired' = TRUE /\ QaFault
  /\ QaGuestStep /\ UNCHANGED qaGuest

QaNext ==
  \/ QaPromoteStarts \/ QaDrain \/ QaBegin \/ QaStop \/ QaHalt \/ QaQuiet \/ QaSelect
  \/ QaStart \/ QaCommit \/ QaResume \/ QaHeld \/ QaRecoverStarts
  \/ QaGameStarts \/ QaGameEnds \/ QaLateWrite \/ QaUnitsFail \/ QaExpires

QaSpec == QaInit /\ [][QaNext]_qaVars

-----------------------------------------------------------------------------
(* Properties. *)

\* Games are admitted only by the runtime that is selected, on the profile put in
\* place with it, and never between the opening of the transaction and its commit;
\* a restored runtime whose restoration was recorded is wholly the previous one,
\* with the sequence used up (select, complete, recover_qa_closed).
QaServesSelected ==
  /\ qaNative.accepting => /\ qaRun["native"] = qaFiles.id /\ qaFiles.profile = qaFiles.id
                           /\ qaPhase \in {"none", "completed", "operator-review"}
  /\ qaPhase = "rolled-back-closed" =>
       /\ qaJob.at = "none" => qaFiles = [id |-> "previous", sequence |-> 2, profile |-> "previous"]
       /\ ~qaNative.accepting

\* Files are changed only at rest and never after a game can have been admitted: not
\* by a rollback that follows a reply that was lost, nor by a recovery; and one
\* authority opens one transaction.
QaKeepsAdmitted ==
  [][/\ qaFiles' # qaFiles => QaDown /\ ~qaOpened /\ qaInventory = qaJob.latched
     /\ qaPhase = "intent" \/ qaPhase' # "intent" \/ (qaPhase = "none" /\ ~qaUsed /\ qaUsed')]_qaVars
=============================================================================
