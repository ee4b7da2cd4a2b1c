--------------------------- MODULE CaptureEvidence ---------------------------
(***************************************************************************)
(* What a finished recording says of its game: canonical_capture.py and    *)
(* captured_choices.py.  The native game (external) keeps its state twice: *)
(* in a database, from which it restarts, and as rows of a source file     *)
(* that it queues and writes behind.  A crash loses the queue and whatever *)
(* the database had not got, each on its own.  The Gym's rows of the same  *)
(* callbacks are in the journal, beside the imported native ones, and the  *)
(* seat's answer may come when the native side no longer waits for it.     *)
(* From these rows alone the envelope must tell what was really played, or *)
(* not be made.                                                            *)
(***************************************************************************)
EXTENDS Integers, Sequences, SequencesExt

CONSTANTS
  Recordings,    \* the games considered: [version, asks : Seq([seat, kind]), picks,
                 \* human, faults, pauses]: what is asked and may be chosen, and the bounds on
                 \* the human's moves, on crashes and missed rows, on pauses of callbacks
  Human,         \* a player without a pilot
  None           \* no choice

\* How a seat may be asked.
CallbackKinds == {"chooseAction", "parameters", "pending", "chooseBottomCards", "decideMulligan"}
Seats == UNION {{r.asks[i].seat : i \in DOMAIN r.asks} : r \in Recordings}
Picks == UNION {r.picks : r \in Recordings}
Wordings ==
  [channel : {"keep", "bottom", "decision", "action"}, pick : Picks, params : {"none", "routed", "given"}]

ASSUME RecordingAssumption ==
  /\ \A r \in Recordings : r.asks \in Seq([seat : Seats, kind : CallbackKinds])
  /\ Human \notin Seats /\ None \notin Wordings

VARIABLES
  recording,     \* the member of Recordings of this behaviour
  native,        \* external: [up, held, saved, queue, over, gaps, downs, boot]
  source,        \* native-000000.ndjson: the rows on disk
  imported,      \* how many of them the journal holds
  gym,           \* decision_started and seat_callback rows of the journal
  calls,         \* history: every callback: [seat, kind, status, choice]
  evidence       \* [made, records]: the envelope, or the accepted choices

captureVars == <<recording, native, source, imported, gym, calls, evidence>>

\* Moves, and the digest of the game they lead to.
Move(c, s, ch) == [cid |-> c, seat |-> s, choice |-> ch]
Digest(moves) == [i \in 1..Len(moves) |-> <<moves[i].seat, moves[i].choice>>]

\* A native row; before and state are digests.
Row(k) == [kind |-> k, cid |-> 0, seat |-> Human, before |-> <<>>, state |-> <<>>, choice |-> None]
CallRow(k, c) == [Row(k) EXCEPT !.cid = c, !.seat = calls[c].seat]
Transition(m) == [Row("native_transition") EXCEPT !.before = Digest(native.held),
                    !.state = Digest(Append(native.held, m)), !.choice = m.choice]
Resumed == <<Row("resume"), Row("state_checkpoint"),
             [Row("callback_resume_state") EXCEPT !.state = Digest(native.saved)]>>
EndOfGame == {"terminal", "session_closed"}
IsOver(rows) == \E i \in 1..Len(rows) : rows[i].kind \in EndOfGame

\* A choice as the pilot words it, and as the native game accepts it.
Choice(k, p) ==
  CASE k = "decideMulligan" -> [channel |-> "keep", pick |-> p, params |-> "none"]
    [] k = "chooseBottomCards" -> [channel |-> "bottom", pick |-> p, params |-> "none"]
    [] k = "pending" -> [channel |-> "decision", pick |-> p, params |-> "routed"]
    [] k = "parameters" -> [channel |-> "action", pick |-> p, params |-> "given"]
    [] OTHER -> [channel |-> "action", pick |-> p, params |-> "none"]
Accepted(k, ch) ==
  [ch EXCEPT !.channel = IF k \in {"chooseBottomCards", "pending"} THEN "decision" ELSE "action",
             !.params = IF k = "pending" THEN "none" ELSE @]

CaptureInit ==
  /\ recording \in Recordings
  /\ native = [up |-> TRUE, held |-> <<>>, saved |-> <<>>, queue |-> <<Row("initialization")>>,
               over |-> FALSE, gaps |-> 0, downs |-> 0, boot |-> 1]
  /\ source = <<>> /\ imported = 0 /\ gym = <<>> /\ calls = <<>>
  /\ evidence = [made |-> "no", records |-> {}]

-----------------------------------------------------------------------------
(* The native game.                                                        *)

Calls == 1..Len(calls)
Asked == {c \in Calls : calls[c].status = "asked"}
\* A game that was restored asks again for what it has not kept.
Turn == Cardinality({i \in 1..Len(native.held) : native.held[i].seat # Human}) + 1
Playing == native.up /\ ~native.over /\ Asked = {}
Queued(rows) == native.queue \o rows
Faults == native.downs + native.gaps

Asks ==
  /\ Playing /\ Turn <= Len(recording.asks)
  /\ calls' = Append(calls, [seat |-> recording.asks[Turn].seat, kind |-> recording.asks[Turn].kind,
                            status |-> "asked", choice |-> None])
  /\ LET input == [Row("ai_callback_input") EXCEPT !.cid = Len(calls) + 1,
                     !.seat = recording.asks[Turn].seat, !.state = Digest(native.held)]
     IN native' = [native EXCEPT !.queue = Queued(<<input>>)]
  /\ UNCHANGED <<recording, source, imported, gym, evidence>>

\* The answer is in time: it is applied, and the two rows are queued together.
TakesAnswer(c) ==
  /\ native.up /\ calls[c].status = "asked"
  /\ \E i \in 1..Len(gym) :
       /\ gym[i].kind = "seat_callback" /\ gym[i].cid = c
       /\ LET m == Move(c, calls[c].seat, Accepted(calls[c].kind, gym[i].choice))
              taken == [CallRow("ai_callback_result", c) EXCEPT !.choice = m.choice]
          IN /\ native' = [native EXCEPT !.held = Append(@, m), !.queue = Queued(<<Transition(m), taken>>)]
             /\ calls' = [calls EXCEPT ![c].status = "taken", ![c].choice = m.choice]
  /\ UNCHANGED <<recording, source, imported, gym, evidence>>

\* It is not: the native game moves for the seat.  Its own pilot stays unknown.
GivesUp(c) ==
  /\ native.up /\ calls[c].status = "asked"
  /\ LET m == Move(c, calls[c].seat, None)
     IN native' = [native EXCEPT !.held = Append(@, m),
                     !.queue = Queued(<<CallRow("ai_callback_disposition", c), Transition(m)>>)]
  /\ calls' = [calls EXCEPT ![c].status = "given up"]
  /\ UNCHANGED <<recording, source, imported, gym, evidence>>

HumanMoves ==
  /\ Playing
  /\ Cardinality({i \in 1..Len(native.held) : native.held[i].seat = Human}) < recording.human
  /\ LET m == Move(0, Human, None)
     IN native' = [native EXCEPT !.held = Append(@, m), !.queue = Queued(<<Transition(m)>>)]
  /\ UNCHANGED <<recording, source, imported, gym, calls, evidence>>

Overs ==
  /\ Playing /\ Turn > Len(recording.asks)
  /\ \E k \in EndOfGame : native' = [native EXCEPT !.over = TRUE, !.queue = Queued(<<Row(k)>>)]
  /\ UNCHANGED <<recording, source, imported, gym, calls, evidence>>

\* A row that cannot be written leaves a native-gap marker.
LosesRow ==
  /\ native.up /\ Faults < recording.faults
  /\ \E i \in 1..Len(native.queue) :
       native' = [native EXCEPT !.queue = RemoveAt(@, i), !.gaps = @ + 1]
  /\ UNCHANGED <<recording, source, imported, gym, calls, evidence>>

\* How far each of the two stores had got shows when the game goes down.
GoesDown ==
  /\ native.up /\ Faults < recording.faults
  /\ \E m \in Len(native.saved)..Len(native.held), n \in 0..Len(native.queue) :
       /\ source' = source \o SubSeq(native.queue, 1, n)
       /\ ~IsOver(source')
       /\ LET kept == SubSeq(native.held, 1, m)
          IN native' = [native EXCEPT !.up = FALSE, !.downs = @ + 1, !.over = FALSE,
                          !.held = kept, !.saved = kept, !.queue = <<>>]
  /\ calls' = [c \in Calls |-> IF c \in Asked THEN [calls[c] EXCEPT !.status = "lost"] ELSE calls[c]]
  /\ UNCHANGED <<recording, imported, gym, evidence>>

ComesBack ==
  /\ ~native.up
  /\ native' = [native EXCEPT !.up = TRUE, !.boot = @ + 1, !.queue = Resumed]
  /\ UNCHANGED <<recording, source, imported, gym, calls, evidence>>

-----------------------------------------------------------------------------
(* The Gym's rows of the journal.  A pilot may be late, or never answer.   *)

GymRows(k, c) == {i \in 1..Len(gym) : gym[i].kind = k /\ gym[i].cid = c}
Unsealed == evidence.made = "no"

\* (The request reaches the Gym while the native game waits for it.)
Starts(c) ==
  /\ Unsealed /\ c \in Asked /\ GymRows("decision_started", c) = {}
  /\ gym' = Append(gym, [kind |-> "decision_started", cid |-> c, choice |-> None])
  /\ UNCHANGED <<recording, native, source, imported, calls, evidence>>

Finishes(c) ==
  /\ Unsealed /\ GymRows("decision_started", c) # {} /\ GymRows("seat_callback", c) = {}
  /\ \E p \in recording.picks :
       gym' = Append(gym, [kind |-> "seat_callback", cid |-> c, choice |-> Choice(calls[c].kind, p)])
  /\ UNCHANGED <<recording, native, source, imported, calls, evidence>>

\* The native recorder has written n rows more, and all that is there is imported.
\* (How far the importer lags is NativeCapture's subject.)
Imports(n) ==
  /\ Unsealed /\ n <= Len(native.queue) /\ imported < Len(source) + n
  /\ source' = source \o SubSeq(native.queue, 1, n)
  /\ native' = [native EXCEPT !.queue = SubSeq(@, n + 1, Len(@))]
  /\ imported' = Len(source')
  /\ UNCHANGED <<recording, gym, calls, evidence>>
ImportsAll == native.over /\ Imports(Len(native.queue))

-----------------------------------------------------------------------------
(* The readers.                                                            *)

At(k) == {i \in 1..imported : source[i].kind = k}
RowsOf(k, c) == {i \in At(k) : source[i].cid = c}
One(places) == Cardinality(places) = 1
The(places) == CHOOSE i \in places : TRUE

\* The state the rows before row i lead to.
Before(i) ==
  LET t == {j \in At("native_transition") : j < i}
  IN  IF t = {} THEN <<>> ELSE source[Max(t)].state

\* Every move starts from where the last one ended, and a restored game from there too.
Continuous == \A i \in At("native_transition") : source[i].before = Before(i)
\* Variant: the restored state is not compared.
Resumes ==
  \A i \in At("resume") : \E n \in {1, 2} :
    i + n \in At("callback_resume_state") /\ (n = 2 => i + 1 \in At("state_checkpoint"))
Authenticated ==
  /\ \A i \in At("resume") : \E n \in {1, 2} :
       /\ i + n \in At("callback_resume_state") /\ source[i + n].state = Before(i)
       /\ n = 2 => i + 1 \in At("state_checkpoint")
  /\ \A i \in At("callback_resume_state") : {i - 1, i - 2} \cap At("resume") # {}
WholeSource ==
  /\ imported = Len(source) /\ native.gaps = 0
  /\ At("initialization") = {1} /\ One(At("terminal") \cup At("session_closed"))

\* Nothing was asked that is not answered, applied and recorded, once.
Completed == {c \in Calls : GymRows("seat_callback", c) # {}}
CountOf(k) == Cardinality({i \in 1..Len(gym) : gym[i].kind = k})
Covered ==
  /\ \A n \in {CountOf("decision_started"), Cardinality(At("ai_callback_input")),
               Cardinality(At("ai_callback_result"))} : n = Cardinality(Completed)
  /\ At("ai_callback_disposition") = {}
Joined(c) ==
  /\ One(GymRows("decision_started", c)) /\ One(GymRows("seat_callback", c))
  /\ One(RowsOf("ai_callback_input", c)) /\ One(RowsOf("ai_callback_result", c))

\* The row before the result is the move it tells of.
Receipt(r) == IF r - 1 \in At("native_transition") THEN {source[r - 1].choice} ELSE {}
Applied(c) ==
  \A r \in RowsOf("ai_callback_result", c) : Receipt(r) = {source[r].choice}

\* What was shown before and after is the view of the seat that chose.
SeenBySeat(c) ==
  \A i \in RowsOf("ai_callback_input", c) \cup RowsOf("ai_callback_result", c) :
    source[i].seat = calls[c].seat
InOrder(c) ==
  /\ The(GymRows("decision_started", c)) < The(GymRows("seat_callback", c))
  /\ The(RowsOf("ai_callback_input", c)) < The(RowsOf("ai_callback_result", c))

\* What the pilot submitted is what the native game says it accepted.
Submitted(k, ch, accepted) ==
  IF accepted.channel = "action"
    THEN IF k = "decideMulligan"
           THEN ch.channel = "keep" /\ ch.pick = accepted.pick /\ accepted.params = "none"
           ELSE ch = accepted
    ELSE /\ accepted.channel = "decision" /\ accepted.params = "none" /\ ch.pick = accepted.pick
         /\ k # "chooseBottomCards" => ch.channel = "decision" /\ ch.params = "routed"

ChoiceOf(c) == gym[The(GymRows("seat_callback", c))].choice
AcceptedOf(c) == source[The(RowsOf("ai_callback_result", c))].choice
RecordOf(c) == [cid |-> c, seat |-> calls[c].seat, choice |-> AcceptedOf(c)]

\* The envelope is of a whole game or is not made.
Convertible ==
  /\ WholeSource /\ Continuous /\ Authenticated /\ Covered
  /\ \A c \in Completed :
       /\ Joined(c) /\ InOrder(c) /\ SeenBySeat(c) /\ Applied(c)
       /\ Submitted(calls[c].kind, ChoiceOf(c), AcceptedOf(c))

\* The older evidence: each choice by itself, in a game that was never restored.
Acceptable(c) ==
  /\ Joined(c) /\ RowsOf("ai_callback_disposition", c) = {} /\ InOrder(c)
  /\ SeenBySeat(c) /\ Applied(c)
  /\ ChoiceOf(c).channel = "action" /\ ChoiceOf(c).params = "none"
  /\ AcceptedOf(c) = ChoiceOf(c)
AcceptedChoices ==
  IF At("resume") # {} \/ native.gaps > 0 THEN {} ELSE {RecordOf(c) : c \in {c \in Completed : Acceptable(c)}}

Readable == Unsealed /\ imported = Len(source) /\ IsOver(source)
Attaches ==
  /\ Readable /\ recording.version = 2
  /\ evidence' = IF Convertible THEN [made |-> "yes", records |-> {RecordOf(c) : c \in Completed}]
                 ELSE [made |-> "refused", records |-> {}]
  /\ UNCHANGED <<recording, native, source, imported, gym, calls>>
ReadsChoices ==
  /\ Readable /\ recording.version = 1
  /\ evidence' = [made |-> "yes", records |-> AcceptedChoices]
  /\ UNCHANGED <<recording, native, source, imported, gym, calls>>

-----------------------------------------------------------------------------
\* Steps that neither begin a callback nor end a boot.
CaptureStep ==
  \/ HumanMoves \/ Overs \/ LosesRow \/ ComesBack \/ ImportsAll \/ Attaches \/ ReadsChoices
  \/ \E c \in Calls : TakesAnswer(c) \/ GivesUp(c) \/ Starts(c) \/ Finishes(c)

Stands(c) == \E i \in 1..Len(native.held) : native.held[i].cid = c
Truth(c) == [cid |-> c, seat |-> calls[c].seat, choice |-> calls[c].choice]
TakenAndKept == {c \in Calls : calls[c].status = "taken" /\ Stands(c)}

\* An envelope tells of the whole game as it was played: its moves are the moves of the
\* game, each of which, if a pilot's seat made it, has its record, with what was played.
EnvelopeIsTrue ==
  evidence.made = "yes" /\ recording.version = 2 =>
    /\ Before(imported + 1) = Digest(native.held)
    /\ evidence.records = {Truth(c) : c \in TakenAndKept}
    /\ \A i \in 1..Len(native.held) : native.held[i].cid \in TakenAndKept \cup {0}

\* The older reader gives no choice that was not played and kept, and leaves out
\* only what it says it does: parameters, structured answers, incomplete sources.
ChoicesAreTrue ==
  evidence.made = "yes" /\ recording.version = 1 =>
    /\ evidence.records \subseteq {Truth(c) : c \in TakenAndKept}
    /\ native.downs = 0 /\ native.gaps = 0 =>
         evidence.records = {Truth(c) : c \in {c \in TakenAndKept : calls[c].kind = "chooseAction"}}

\* A game without a fault is never refused.
CleanIsConverted ==
  evidence.made = "refused" =>
    native.downs > 0 \/ native.gaps > 0 \/ \E c \in Calls : calls[c].status = "given up"

EvidenceIsTrue == EnvelopeIsTrue /\ ChoicesAreTrue /\ CleanIsConverted
=============================================================================
