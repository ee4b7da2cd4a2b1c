-------------------------- MODULE RecorderBridge ---------------------------
(***************************************************************************)
(* The recorder bridge (commander_gym/recorder_bridge.py) between the      *)
(* three processes that share a seat's callback:                           *)
(*                                                                         *)
(*   native    CommanderGymControllerProvider.post registers the callback, *)
(*             asks the sidecar over HTTP, closes the registration however *)
(*             HTTP ended, and returns the choice only when all went well; *)
(*   sidecar   records that a decision started, asks the pilot, records    *)
(*             that the decision finished, and answers;                    *)
(*   recorder  one serial listener per role takes the messages of the      *)
(*             other two and writes them to the game's journal.            *)
(*                                                                         *)
(* A client waits for an answer no longer than its deadline and then sends *)
(* the same message once more, while the one it gave up on may still be in *)
(* the listener's backlog, to be taken at any later time.  The recorder    *)
(* may fail to write, may be killed between a write and its answer, and    *)
(* may be restarted.                                                       *)
(*                                                                         *)
(* The capture lock makes one ingest one step.  The journal is the         *)
(* sequence of its bridge rows (GameJournal proves that an append adds one *)
(* row or none, and that a resumed writer knows every row).  Of the        *)
(* capture (NativeCapture) only what ingest looks at is kept.  Message     *)
(* contents, peer identities and digests are not: every client here is the *)
(* one its socket admits and repeats its own bytes.                        *)
(*                                                                         *)
(* Some operators are preceded by a variant of theirs with a bug this code *)
(* could have.  No definition uses it: PROJECT.json names the property     *)
(* that TLC finds violated when the variant takes the operator's place.    *)
(***************************************************************************)
EXTENDS Naturals, Sequences

CONSTANTS
  Seats,       (* seats of the game that a pilot plays                     *)
  MaxTurns,    (* bound: callbacks of a seat                               *)
  Backlog,     (* messages that wait for a listener                        *)
  Tries,       (* times a client sends a message                           *)
  Bounds       (* bounds of a behaviour: callbacks of a seat (turns), what *)
               (* may come between (kinds) and how often (faults)          *)

(* "write": a row cannot be written; "death": the recorder is killed;      *)
(* "stop": it is told to stop; "end": the game is over and gets finalized; *)
(* "scan": the import of some game fails; "late": a registration outlives  *)
(* its time; "sidecar": the sidecar dies.                                  *)
AllKinds == {"write", "death", "stop", "end", "scan", "late", "sidecar"}

ASSUME BridgeAssumption ==
  /\ MaxTurns \in Nat /\ Backlog \in Nat /\ Tries \in Nat \ {0}
  /\ Bounds \subseteq [turns : 0..MaxTurns, kinds : SUBSET AllKinds, faults : Nat]

Turns == 1..MaxTurns

Callbacks == Seats \X Turns

SeatOf(c) == c[1]

Roles == {"native", "sidecar"}

OpsOf(role) == IF role = "native" THEN {"register", "closed"} ELSE {"started", "finished"}

Ops == OpsOf("native") \cup OpsOf("sidecar")

Receipt == [cb : Callbacks, op : Ops]

Message == [cb : Callbacks, op : Ops, try : 1..Tries]

Answer == [cb : Callbacks, op : Ops, try : 1..Tries, ok : BOOLEAN]

VARIABLES
  receipts,   (* bridge rows of the journal, on disk                       *)
  game,       (* "live", "finalizing", "sealed", "damaged" by a crash, or  *)
              (* "unpublished": sealed, but the manifest could not be put   *)
              (* in place and the journal object stays                      *)
  recorder,   (* the recorder process                                      *)
  expired,    (* registrations older than CALLBACK_TTL                     *)
  backlog,    (* messages each listener has not taken yet                  *)
  answers,    (* answers that a client still waits for                     *)
  native,     (* the controller of each seat                               *)
  sidecar,    (* the sidecar's request thread for each callback            *)
  bounds      (* what may still come between                               *)

vars == <<receipts, game, recorder, expired, backlog, answers, native, sidecar, bounds>>

(* failed: the journal object's; errors: keys of capture.errors, its own   *)
(* "bridge" and those of the native import of any game.                    *)
FreshRecorder == [at |-> "up", failed |-> FALSE, errors |-> {}]

(* at: what the thread does, which is the operation when it waits for the  *)
(* recorder to acknowledge one; ok: the pilot chose, or HTTP answered 200. *)
(* acted, asked: callbacks whose choice the engine got, or a pilot saw.    *)
TypeOK ==
  /\ receipts \in Seq(Receipt)
  /\ game \in {"live", "finalizing", "sealed", "unpublished", "damaged"}
  /\ recorder \in [at : {"up", "stopping", "down"}, failed : BOOLEAN,
                   errors : SUBSET {"bridge", "native"}]
  /\ expired \subseteq Callbacks
  /\ backlog \in [Roles -> Seq(Message)]
  /\ answers \subseteq Answer
  /\ native \in [Seats -> [turn : 0..MaxTurns, at : {"idle", "register", "http", "closed"},
                           try : 1..Tries, ok : BOOLEAN, acted : SUBSET Turns]]
  /\ sidecar \in [Callbacks -> [at : {"idle", "requested", "started", "choosing", "finished",
                                      "answered", "failed"},
                                try : 1..Tries, ok : BOOLEAN, asked : BOOLEAN]]
  /\ bounds.turns \in 0..MaxTurns /\ bounds.faults \in Nat

Init ==
  /\ receipts = <<>> /\ game = "live" /\ recorder = FreshRecorder
  /\ expired = {} /\ answers = {} /\ bounds \in Bounds
  /\ backlog = [r \in Roles |-> <<>>]
  /\ native = [s \in Seats |-> [turn |-> 0, at |-> "idle", try |-> 1, ok |-> FALSE, acted |-> {}]]
  /\ sidecar = [c \in Callbacks |-> [at |-> "idle", try |-> 1, ok |-> FALSE, asked |-> FALSE]]

-----------------------------------------------------------------------------
(***************************************************************************)
(* What the recorder reads.                                                *)
(***************************************************************************)

On(c, op) == \E i \in 1..Len(receipts) : receipts[i] = [cb |-> c, op |-> op]

Pending(c) == On(c, "started") /\ ~On(c, "finished")

PendingOfSeatAndTurn(c) == Pending(c)

PendingOfSeat(c) == \E d \in Callbacks : SeatOf(d) = SeatOf(c) /\ Pending(d)

(* It can look for an earlier receipt: in the journal it writes unless a   *)
(* write failed, or in the sealed one.                                     *)
Readable ==
  /\ recorder.at = "up"
  /\ game = "sealed" \/ (game \in {"live", "unpublished"} /\ ~recorder.failed)

Duplicate(m) == On(m.cb, m.op)

(* Cancellation may have sealed the journal between the finished row and   *)
(* the close: the finished row then acknowledges the close.                *)
ClosedBySealing(m) ==
  /\ m.op = "closed" /\ game = "sealed"
  /\ On(m.cb, "register") /\ On(m.cb, "finished")

Admits(m) ==
  CASE m.op = "register" -> TRUE
    [] m.op = "closed"   -> On(m.cb, "register")
    [] m.op = "started"  -> /\ On(m.cb, "register") /\ m.cb \notin expired
                            /\ ~On(m.cb, "closed") /\ ~PendingOfSeat(m.cb)
    [] m.op = "finished" -> On(m.cb, "register") /\ m.cb \notin expired /\ Pending(m.cb)

Acknowledges(m) == Readable /\ (Duplicate(m) \/ ClosedBySealing(m))

Appends(m) ==
  /\ Readable /\ ~Duplicate(m) /\ ~ClosedBySealing(m)
  /\ game = "live" /\ recorder.errors = {} /\ Admits(m)

-----------------------------------------------------------------------------
(***************************************************************************)
(* Clients.                                                                *)
(***************************************************************************)

Msg(c, op, try) == [cb |-> c, op |-> op, try |-> try]

Reply(m, ok) == [cb |-> m.cb, op |-> m.op, try |-> m.try, ok |-> ok]

TurnOf(s) == <<s, native[s].turn>>

(* Does its sender still wait for the answer to m?                         *)
Awaited(m) ==
  IF m.op \in OpsOf("native")
  THEN TurnOf(SeatOf(m.cb)) = m.cb /\ native[SeatOf(m.cb)].at = m.op /\ native[SeatOf(m.cb)].try = m.try
  ELSE sidecar[m.cb].at = m.op /\ sidecar[m.cb].try = m.try

(* The client connects and writes; it is refused while no recorder listens *)
(* and blocked while the backlog is full.                                  *)
Send(role, m) ==
  IF recorder.at = "down" \/ Len(backlog[role]) = Backlog
  THEN UNCHANGED backlog
  ELSE backlog' = [backlog EXCEPT ![role] = Append(@, m)]

MayTry(try) == try < Tries

NotAdvancing(try) == try

NextTry(try) == try + 1

(* A client sees its message refused.  The native one does not repeat it,  *)
(* the sidecar does.                                                       *)
Refused(c, op, try) == Reply(Msg(c, op, try), FALSE) \in answers

Acked(c, op, try) == Reply(Msg(c, op, try), TRUE) \in answers

Fault(kind) ==
  /\ kind \in bounds.kinds /\ bounds.faults > 0
  /\ bounds' = [bounds EXCEPT !.faults = @ - 1]

Forget(c, op, try) == answers' = {a \in answers : ~(a.cb = c /\ a.op = op /\ a.try = try)}

-----------------------------------------------------------------------------
(***************************************************************************)
(* The native controller: post.                                            *)
(***************************************************************************)

OthersOfNative == <<receipts, game, recorder, expired, bounds>>

(* A new callback is registered under a new id.                            *)
BeginTurn(s) ==
  /\ native[s].at = "idle" /\ native[s].turn < bounds.turns
  /\ native' = [native EXCEPT ![s].turn = @ + 1, ![s].at = "register", ![s].try = 1, ![s].ok = FALSE]
  /\ Send("native", Msg(<<s, native[s].turn + 1>>, "register", 1))
  /\ UNCHANGED <<OthersOfNative, answers, sidecar>>

(* The exchange failed for good: post throws, the engine gets no choice.   *)
Throws(s) == native' = [native EXCEPT ![s].at = "idle", ![s].try = 1, ![s].ok = FALSE]

NativeGivesUp(s) ==
  /\ native[s].at \in OpsOf("native")
  /\ Forget(TurnOf(s), native[s].at, native[s].try)
  /\ IF MayTry(native[s].try) /\ ~Refused(TurnOf(s), native[s].at, native[s].try)
     THEN /\ native' = [native EXCEPT ![s].try = NextTry(@)]
          /\ Send("native", Msg(TurnOf(s), native[s].at, NextTry(native[s].try)))
     ELSE Throws(s) /\ UNCHANGED backlog
  /\ UNCHANGED <<OthersOfNative, sidecar>>

(* The registration is acknowledged: the request goes out to the sidecar.  *)
Registered(s) ==
  /\ native[s].at = "register" /\ Acked(TurnOf(s), "register", native[s].try)
  /\ Forget(TurnOf(s), "register", native[s].try)
  /\ native' = [native EXCEPT ![s].at = "http", ![s].try = 1]
  /\ sidecar' = [sidecar EXCEPT ![TurnOf(s)].at = "requested"]
  /\ UNCHANGED <<OthersOfNative, backlog>>

Close(s, ok) ==
  /\ native' = [native EXCEPT ![s].at = "closed", ![s].try = 1, ![s].ok = ok]
  /\ Send("native", Msg(TurnOf(s), "closed", 1))

(* HTTP ends with the sidecar's answer, or with an error or a timeout that *)
(* leaves the sidecar running; finally, the registration is closed.        *)
HttpAnswers(s) ==
  /\ native[s].at = "http" /\ sidecar[TurnOf(s)].at \in {"answered", "failed"}
  /\ Close(s, sidecar[TurnOf(s)].at = "answered")
  /\ UNCHANGED <<OthersOfNative, answers, sidecar>>

HttpFails(s) ==
  /\ native[s].at = "http"
  /\ Close(s, FALSE)
  /\ UNCHANGED <<OthersOfNative, answers, sidecar>>

(* Only a callback that HTTP answered with 200 has a choice to act on.     *)
ActsOn(s) == IF native[s].ok THEN {native[s].turn} ELSE {}

Closed(s) ==
  /\ native[s].at = "closed" /\ Acked(TurnOf(s), "closed", native[s].try)
  /\ Forget(TurnOf(s), "closed", native[s].try)
  /\ native' = [native EXCEPT ![s].at = "idle", ![s].try = 1, ![s].ok = FALSE,
                              ![s].acted = @ \cup ActsOn(s)]
  /\ UNCHANGED <<OthersOfNative, backlog, sidecar>>

NativeStep(s) ==
  NativeGivesUp(s) \/ Registered(s) \/ HttpAnswers(s) \/ HttpFails(s) \/ Closed(s)

-----------------------------------------------------------------------------
(***************************************************************************)
(* The sidecar: one request thread per callback.                           *)
(***************************************************************************)

OthersOfSidecar == <<receipts, game, recorder, expired, native, bounds>>

(* Its thread reaches op, and sends it.                                    *)
Reports(c, op, ok) ==
  /\ sidecar' = [sidecar EXCEPT ![c].at = op, ![c].try = 1, ![c].ok = ok]
  /\ Send("sidecar", Msg(c, op, 1))

(* The request may arrive after the native side stopped waiting for it.    *)
Arrives(c) ==
  /\ sidecar[c].at = "requested"
  /\ Reports(c, "started", FALSE)
  /\ UNCHANGED <<OthersOfSidecar, answers>>

Fails(c) == sidecar' = [sidecar EXCEPT ![c].at = "failed", ![c].try = 1, ![c].ok = FALSE]

SidecarGivesUp(c) ==
  /\ sidecar[c].at \in OpsOf("sidecar")
  /\ Forget(c, sidecar[c].at, sidecar[c].try)
  /\ IF MayTry(sidecar[c].try)
     THEN /\ sidecar' = [sidecar EXCEPT ![c].try = NextTry(@)]
          /\ Send("sidecar", Msg(c, sidecar[c].at, NextTry(sidecar[c].try)))
     ELSE Fails(c) /\ UNCHANGED backlog
  /\ UNCHANGED OthersOfSidecar

AsksRegardless(c) ==
  /\ sidecar[c].at = "started"
  /\ Forget(c, "started", sidecar[c].try)
  /\ sidecar' = [sidecar EXCEPT ![c].at = "choosing", ![c].try = 1, ![c].asked = TRUE]
  /\ UNCHANGED <<OthersOfSidecar, backlog>>

AsksPilot(c) ==
  /\ sidecar[c].at = "started" /\ Acked(c, "started", sidecar[c].try)
  /\ Forget(c, "started", sidecar[c].try)
  /\ sidecar' = [sidecar EXCEPT ![c].at = "choosing", ![c].try = 1, ![c].asked = TRUE]
  /\ UNCHANGED <<OthersOfSidecar, backlog>>

(* The pilot chose, or failed in a way that is recorded (ok is FALSE) ...  *)
PilotEnds(c) ==
  /\ sidecar[c].at = "choosing"
  /\ \E ok \in BOOLEAN : Reports(c, "finished", ok)
  /\ UNCHANGED <<OthersOfSidecar, answers>>

(* ... or raised another error, or chose what the seat rejects; or the     *)
(* request was refused before anything started.                            *)
RequestFails(c) ==
  /\ sidecar[c].at \in {"requested", "choosing"}
  /\ Fails(c)
  /\ UNCHANGED <<OthersOfSidecar, backlog, answers>>

(* 200 only when the pilot chose; a recorded failure answers an error.     *)
Answers(c) ==
  /\ sidecar[c].at = "finished" /\ Acked(c, "finished", sidecar[c].try)
  /\ Forget(c, "finished", sidecar[c].try)
  /\ IF sidecar[c].ok THEN sidecar' = [sidecar EXCEPT ![c].at = "answered", ![c].try = 1]
                     ELSE Fails(c)
  /\ UNCHANGED <<OthersOfSidecar, backlog>>

(* The sidecar process dies with every request it was serving.             *)
SidecarCrash ==
  /\ Fault("sidecar")
  /\ sidecar' = [c \in Callbacks |->
                   IF sidecar[c].at \in {"idle", "answered"} THEN sidecar[c]
                   ELSE [sidecar[c] EXCEPT !.at = "failed", !.try = 1, !.ok = FALSE]]
  /\ answers' = {a \in answers : a.op \in OpsOf("native")}
  /\ UNCHANGED <<receipts, game, recorder, expired, native, backlog>>

-----------------------------------------------------------------------------
(***************************************************************************)
(* The recorder.                                                           *)
(***************************************************************************)

OthersOfRecorder == <<expired, native, sidecar>>

(* An answer nobody waits for any more fails to be sent, or stays unread.  *)
Tell(m, ok) == answers' = answers \cup (IF Awaited(m) THEN {Reply(m, ok)} ELSE {})

Take(role) ==
  /\ recorder.at \in {"up", "stopping"} /\ backlog[role] # <<>>
  /\ backlog' = [backlog EXCEPT ![role] = Tail(@)]

Write(m) == receipts' = Append(receipts, [cb |-> m.cb, op |-> m.op])

Troubled == recorder' = [recorder EXCEPT !.errors = @ \cup {"bridge"}]

HandleKnown(role) ==
  LET m == Head(backlog[role]) IN
  /\ Take(role) /\ Acknowledges(m)
  /\ Tell(m, TRUE)
  /\ UNCHANGED <<receipts, game, recorder, OthersOfRecorder, bounds>>

HandleNew(role) ==
  LET m == Head(backlog[role]) IN
  /\ Take(role) /\ Appends(m)
  /\ Write(m) /\ Tell(m, TRUE)
  /\ UNCHANGED <<game, recorder, OthersOfRecorder, bounds>>

TellFailed(m) == Tell(m, FALSE)

(* The write fails: before anything was written, because the journal is    *)
(* full or its file cannot be opened, or at a point where the row may be   *)
(* durable or not, after which the journal object refuses everything.      *)
HandleFailing(role) ==
  LET m == Head(backlog[role]) IN
  /\ Take(role) /\ Appends(m) /\ Fault("write")
  /\ \/ Troubled /\ UNCHANGED receipts
     \/ /\ recorder' = [recorder EXCEPT !.failed = TRUE, !.errors = @ \cup {"bridge"}]
        /\ Write(m) \/ UNCHANGED receipts
  /\ TellFailed(m)
  /\ UNCHANGED <<game, OthersOfRecorder>>

(* Everything else is refused; a failed journal cannot even be searched.   *)
HandleRefused(role) ==
  LET m == Head(backlog[role]) IN
  /\ Take(role) /\ ~Acknowledges(m) /\ ~Appends(m)
  /\ Tell(m, FALSE)
  /\ IF recorder.at = "up" /\ game \in {"live", "unpublished"} /\ recorder.failed THEN Troubled ELSE UNCHANGED recorder
  /\ UNCHANGED <<receipts, game, OthersOfRecorder, bounds>>

(* A registration outlives CALLBACK_TTL.                                   *)
Expire(c) ==
  /\ On(c, "register") /\ c \notin expired /\ Fault("late")
  /\ expired' = expired \cup {c}
  /\ UNCHANGED <<receipts, game, recorder, backlog, answers, native, sidecar>>

(* The engine closed the game and a finalizer takes its journal, which it  *)
(* seals, or gives back unsealed, failed or not, or sealed only.  (Scans   *)
(* start it again for a journal given back; only a new process succeeds.)  *)
FinalizerStarts ==
  /\ recorder.at = "up" /\ game = "live" /\ ~recorder.failed /\ Fault("end")
  /\ game' = "finalizing"
  /\ UNCHANGED <<receipts, recorder, expired, backlog, answers, native, sidecar>>

FinalizerEnds ==
  /\ recorder.at # "down" /\ game = "finalizing"
  /\ \/ game' = "sealed" /\ UNCHANGED recorder
     \/ game' = "live" /\ \E f \in BOOLEAN : recorder' = [recorder EXCEPT !.failed = f]
     \/ game' = "unpublished" /\ UNCHANGED recorder
  /\ UNCHANGED <<receipts, expired, backlog, answers, native, sidecar, bounds>>

(* A scan meets an error in some game's native rows, or clears it.         *)
ScanTrouble ==
  /\ recorder.at = "up"
  /\ IF "native" \in recorder.errors
     THEN recorder' = [recorder EXCEPT !.errors = @ \ {"native"}] /\ UNCHANGED bounds
     ELSE recorder' = [recorder EXCEPT !.errors = @ \cup {"native"}] /\ Fault("scan")
  /\ UNCHANGED <<receipts, game, expired, backlog, answers, native, sidecar>>

StopRequested ==
  /\ recorder.at = "up" /\ Fault("stop")
  /\ recorder' = [recorder EXCEPT !.at = "stopping"]
  /\ UNCHANGED <<receipts, game, expired, backlog, answers, native, sidecar>>

(* The process ends: connections in the backlog break, answers that were   *)
(* sent can still be read.  A finalizer sealed the journal or did not.     *)
Down ==
  /\ \/ recorder.at = "up" /\ Fault("death")
     \/ recorder.at = "stopping" /\ UNCHANGED bounds
  /\ recorder' = [FreshRecorder EXCEPT !.at = "down"]
  /\ backlog' = [r \in Roles |-> <<>>]
  /\ UNCHANGED <<expired, answers, native, sidecar>>

Ends ==
  /\ Down
  /\ CASE game = "finalizing" -> game' \in {"live", "sealed"}
       [] game = "unpublished" -> game' = "sealed"
       [] OTHER -> UNCHANGED game
  /\ UNCHANGED receipts

(* It dies in the middle of a write: the row is whole and its answer was   *)
(* not sent, or part of it is on disk and no process resumes the journal.  *)
DiesWriting(role) ==
  /\ backlog[role] # <<>> /\ Appends(Head(backlog[role]))
  /\ Down
  /\ \/ Write(Head(backlog[role])) /\ UNCHANGED game
     \/ UNCHANGED receipts /\ game' = "damaged"

Boot ==
  /\ recorder.at = "down"
  /\ recorder' = FreshRecorder
  /\ UNCHANGED <<receipts, game, expired, backlog, answers, native, sidecar, bounds>>

Next ==
  \/ \E s \in Seats : BeginTurn(s) \/ NativeStep(s)
  \/ \E c \in Callbacks :
       \/ Arrives(c) \/ SidecarGivesUp(c) \/ AsksPilot(c)
       \/ PilotEnds(c) \/ RequestFails(c) \/ Answers(c) \/ Expire(c)
  \/ \E r \in Roles :
       \/ HandleKnown(r) \/ HandleNew(r) \/ HandleFailing(r)
       \/ HandleRefused(r) \/ DiesWriting(r)
  \/ SidecarCrash \/ FinalizerStarts \/ FinalizerEnds \/ ScanTrouble
  \/ StopRequested \/ Ends \/ Boot

Spec == Init /\ [][Next]_vars

(* The native client has a deadline for every wait, so it always takes     *)
(* some next step; nothing is assumed of the other two processes.          *)
FairSpec == Spec /\ \A s \in Seats : WF_vars(NativeStep(s))

-----------------------------------------------------------------------------
(***************************************************************************)
(* Properties.                                                             *)
(***************************************************************************)

ActedOn(c) == c[2] \in native[c[1]].acted

(* The engine gets a choice only if the journal has the callback, the      *)
(* start and the choice, and its closing unless the journal was sealed     *)
(* first.  post returns after both acknowledgments and HTTP 200, and each  *)
(* may be the answer to a repetition, or come from another recorder        *)
(* process than the one that wrote the row.                                *)
ActedIsRecorded ==
  \A c \in Callbacks :
    ActedOn(c) =>
      /\ On(c, "register") /\ On(c, "started") /\ On(c, "finished")
      /\ On(c, "closed") \/ game = "sealed"

(* A pilot is asked about one callback of a seat at a time, and only while *)
(* that callback's start is on record and its end is not: although a       *)
(* request may reach the sidecar after its callback timed out and the next *)
(* one began.                                                              *)
OneChoiceAtATime ==
  \A c, d \in Callbacks :
    /\ sidecar[c].at = "choosing" => Pending(c)
    /\ c # d /\ SeatOf(c) = SeatOf(d) =>
         ~(sidecar[c].at = "choosing" /\ sidecar[d].at = "choosing")

At(i, c, op) == receipts[i] = [cb |-> c, op |-> op]

(* The journal's bridge rows tell one story per callback: no receipt is    *)
(* written twice, everything follows the registration, the end follows the *)
(* start, no decision starts after its callback was closed, nor while      *)
(* another of the seat is pending.                                         *)
ReceiptsInOrder ==
  /\ \A c \in Callbacks :
       /\ On(c, "finished") => On(c, "started")
       /\ On(c, "started") \/ On(c, "closed") => On(c, "register")
  /\ \A i, j \in 1..Len(receipts) :
    i < j =>
      /\ receipts[i] # receipts[j]
      /\ receipts[j].op # "register" \/ receipts[i].cb # receipts[j].cb
      /\ receipts[j].op # "started" \/ receipts[i].cb # receipts[j].cb \/ receipts[i].op = "register"
      /\ receipts[i].op = "started" /\ receipts[j].op = "started"
           /\ SeatOf(receipts[i].cb) = SeatOf(receipts[j].cb)
         => \E k \in i..j : At(k, receipts[i].cb, "finished")

(* What a client is told is durable is durable: an acknowledgment in       *)
(* flight names a row of the journal, or closes a callback whose end is    *)
(* on record in a sealed one.                                              *)
AcknowledgedIsDurable ==
  \A a \in answers :
    a.ok => \/ On(a.cb, a.op)
            \/ a.op = "closed" /\ game = "sealed" /\ On(a.cb, "finished")

(* The journal, the acknowledgments and the pilots' threads agree about    *)
(* every callback, whatever was lost, repeated or answered late.           *)
ReceiptsAreSound ==
  TypeOK /\ ActedIsRecorded /\ OneChoiceAtATime /\ ReceiptsInOrder /\ AcknowledgedIsDurable

(* A callback never hangs: whatever becomes of the recorder and of the     *)
(* sidecar, post returns or throws.                                        *)
EveryTurnEnds == \A s \in Seats : native[s].at # "idle" ~> native[s].at = "idle"

-----------------------------------------------------------------------------
(***************************************************************************)
(* The bridge implements SeatTurns.  A pilot was asked about a callback    *)
(* once its thread has gone past the start.                                *)
(***************************************************************************)

PhaseOf(c) ==
  IF On(c, "finished") THEN "finished"
  ELSE IF On(c, "started") THEN "started"
  ELSE IF On(c, "register") THEN "registered" ELSE "none"

Asked == {c \in Callbacks : sidecar[c].asked}

Turn == INSTANCE SeatTurns
          WITH phase <- [c \in Callbacks |-> PhaseOf(c)],
               asked <- Asked,
               chosen <- {c \in Callbacks : ActedOn(c)}

ImplementsSeatTurns == Turn!Spec
=============================================================================
