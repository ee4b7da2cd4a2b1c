--------------------------- MODULE NativeCapture ---------------------------
(***************************************************************************)
(* NativeGameCapture (commander_gym/native_game_capture.py): the recorder  *)
(* process that imports what the engine wrote about each game into that    *)
(* game's journal, takes the receipts of the callback bridge, and, once    *)
(* the engine closed the game, seals and publishes the journal in a        *)
(* background thread.                                                      *)
(*                                                                         *)
(* Threads: a scan holds the capture lock from its first game to its last; *)
(* a bridge listener and the tail of a finalizer take it too.  One visit   *)
(* to one game is one step.  The body of a finalizer holds only its        *)
(* journal's lock, and its three durable effects are steps of their own.   *)
(* The engine writes at any time.  The process may be told to stop or may  *)
(* die at any moment, in the middle of a visit that appends several rows   *)
(* too.                                                                    *)
(*                                                                         *)
(* A journal is its complete rows, as in GameJournal, whose proofs justify *)
(* keeping only, for a process that holds it, how many rows it knows of:   *)
(* its sequence, source counts and pending choices are those of that       *)
(* prefix.  Sizes are counted in rows.                                     *)
(*                                                                         *)
(* Some operators are preceded by a variant of theirs with a bug this code *)
(* could have.  No definition uses it: PROJECT.json names the property     *)
(* that TLC finds violated when the variant takes the operator's place.    *)
(***************************************************************************)
EXTENDS JournalRows

CONSTANTS
  NumGames,      (* games, numbered in the order of their directory names  *)
  Recorded,      (* kinds of native rows the engine produces               *)
  Bounds         (* bounds of a behaviour: see BoundsAssumption            *)

Games == 1..NumGames

Bridge == 0      (* the key "recorder_bridge" of errors                    *)

ASSUME RecordedAssumption ==
  Recorded \subseteq NativeKinds /\ "initialization" \in Recorded

(* games: those that are played; recorded, source: kinds and number of the *)
(* native rows of each; callbacks: of each; rows: max_bytes less the       *)
(* terminal reserve, in rows; kinds, faults: what may go wrong and how     *)
(* often; boots: starts of the recorder process.                           *)
ASSUME BoundsAssumption ==
  /\ NumGames \in Nat /\ Bounds # {}
  /\ Bounds \subseteq
       [games : 0..NumGames, callbacks : SUBSET Callbacks, recorded : SUBSET Recorded,
        source : Nat, rows : Nat, kinds : SUBSET {"failed", "crashed"},
        faults : Nat, boots : Nat]

VARIABLES
  (* on disk *)
  source,     (* native-000000.ndjson of each game: kinds of complete rows *)
  rows,       (* its journal                                               *)
  tail,       (* what follows the rows: "none", or a "torn" row            *)
  created,    (* whether 000000.jsonl exists                               *)
  envelope,   (* decision ids of the raw evidence row                      *)
  complete,   (* recording_complete of the terminal row                    *)
  manifest,   (* whether manifest.json is published                        *)
  (* in the recorder process *)
  proc,       (* the process: see FreshProc                                *)
  mem,        (* per game: journal, cursor, grace and finalizer            *)
  bounds      (* what this behaviour may still do                          *)

disk == <<source, rows, tail, created, envelope, complete, manifest>>
vars == <<source, rows, tail, created, envelope, complete, manifest,
          proc, mem, bounds>>

(* scanner: its thread lives; at: the game a scan holding the capture lock *)
(* comes to next, 0 when the lock is free; verified: _finalized_bytes.     *)
FreshProc == [up |-> TRUE, scanner |-> TRUE, at |-> 0, stop |-> FALSE,
              verified |-> {}, errors |-> {}]

(* held: the journal is in _journals; knows: rows it was told are durable; *)
(* cursor: native rows read (0 also when there is no cursor); grace: the   *)
(* clock that starts when the end of the game is imported.                 *)
FreshMem == [held |-> FALSE, failed |-> FALSE, knows |-> 0, cursor |-> 0,
             grace |-> "unset", finalizer |-> "none", gap |-> FALSE]

TypeOK ==
  /\ source \in [Games -> Seq(NativeKinds)]
  /\ rows \in [Games -> Seq(Row)]
  /\ tail \in [Games -> {"none", "torn"}]
  /\ created \in [Games -> BOOLEAN]
  /\ envelope \in [Games -> SUBSET Callbacks]
  /\ complete \in [Games -> BOOLEAN] /\ manifest \in [Games -> BOOLEAN]
  /\ proc \in [up : BOOLEAN, scanner : BOOLEAN, at : 0..NumGames, stop : BOOLEAN,
               verified : SUBSET Games, errors : SUBSET (Games \cup {Bridge})]
  /\ mem \in [Games -> [held : BOOLEAN, failed : BOOLEAN, knows : Nat, cursor : Nat,
                        grace : {"unset", "running", "passed"},
                        finalizer : {"none", "raw", "seal", "publish", "done",
                                     "failed", "cancelled"},
                        gap : BOOLEAN]]
  /\ bounds \in [games : 0..NumGames, callbacks : SUBSET Callbacks, recorded : SUBSET Recorded,
                  source : Nat, rows : Nat, kinds : SUBSET {"failed", "crashed"},
                  faults : Nat, boots : Nat]
  /\ proc.at <= bounds.games

Init ==
  /\ source = [g \in Games |-> <<>>] /\ rows = [g \in Games |-> <<>>]
  /\ tail = [g \in Games |-> "none"] /\ created = [g \in Games |-> FALSE]
  /\ envelope = [g \in Games |-> {}]
  /\ complete = [g \in Games |-> FALSE] /\ manifest = [g \in Games |-> FALSE]
  /\ proc = FreshProc /\ mem = [g \in Games |-> FreshMem]
  /\ bounds \in Bounds

-----------------------------------------------------------------------------
(***************************************************************************)
(* Reading.                                                                *)
(***************************************************************************)

Ended(g) == source[g] # <<>> /\ source[g][Len(source[g])] \in ClosingKinds

Known(g) == SubSeq(rows[g], 1, mem[g].knows)

NativeCount(s) == SourceCount(s, "native")

(* The first native row that is not yet imported: after a restart or an    *)
(* uncertain import the durable rows say it, otherwise the cursor does.    *)
NextNative(g) ==
  1 + IF mem[g].cursor = 0 /\ created[g] THEN NativeCount(rows[g]) ELSE mem[g].cursor

(* The rows a visit to g has to append: those that open the journal, then  *)
(* the native rows not yet imported.                                       *)
Opening(g) ==
  IF mem[g].held THEN <<>>
  ELSE <<PlainRow(IF created[g] THEN "resume" ELSE "manifest"), PlainRow("context")>>

Imports(g) ==
  [i \in 1..(Len(source[g]) - NextNative(g) + 1) |->
     NativeRow(source[g][NextNative(g) + i - 1])]

-----------------------------------------------------------------------------
(***************************************************************************)
(* Appending a list of rows, which may end early: at the storage limit     *)
(* ("refused"), by a file that cannot be opened, which the journal         *)
(* survives ("missed"), by a failed write that latches it ("failed"), by a *)
(* stop request noticed between two rows ("cancelled") or by the death of  *)
(* the process ("crashed").  A failed write may leave nothing, a new empty *)
(* file, part of the row, or the whole row; a whole row that the writer    *)
(* does not know of stops its next append, latched or not (GameJournal).   *)
(***************************************************************************)
MayFail(kind) == kind \in bounds.kinds /\ bounds.faults > 0

Faulted == bounds' = [bounds EXCEPT !.faults = @ - 1]

Endings(g, new, limit) ==
  {e \in [out : {"done", "refused", "missed", "failed", "cancelled", "crashed"},
          n : 0..Len(new), left : {"nothing", "file", "part", "row"}] :
     LET wrote == Len(rows[g]) + e.n + (IF e.left = "row" THEN 1 ELSE 0)
     IN  /\ wrote > Len(rows[g]) => wrote <= limit
         /\ e.out = "done" <=> e.n = Len(new)
         /\ e.out \notin {"failed", "crashed"} => e.left = "nothing"
         /\ e.out = "refused" => wrote >= limit
         /\ e.out = "missed" => wrote < limit /\ MayFail("failed")
         /\ e.out \in {"failed", "crashed"} =>
              /\ wrote < limit \/ e.left = "row"
              /\ MayFail(e.out)}

Write(g, new, e) ==
  /\ rows' = [rows EXCEPT ![g] =
                @ \o SubSeq(new, 1, IF e.left = "row" THEN e.n + 1 ELSE e.n)]
  /\ tail' = [tail EXCEPT ![g] = IF e.left = "part" THEN "torn" ELSE @]
  /\ created' = [created EXCEPT ![g] = @ \/ e.n > 0 \/ e.left # "nothing"]
  /\ IF e.out \in {"missed", "failed", "crashed"} THEN Faulted ELSE UNCHANGED bounds

Gone == /\ proc' = [FreshProc EXCEPT !.up = FALSE]
        /\ mem' = [g \in Games |-> FreshMem]

Running == proc.up /\ ~proc.stop

(* The scan goes on to the next game, having changed the errors.           *)
OnwardUnlessError(errors) ==
  proc' = [proc EXCEPT !.at = IF @ = bounds.games \/ errors # {} THEN 0 ELSE @ + 1,
                       !.errors = errors]

Onward(errors) ==
  proc' = [proc EXCEPT !.at = IF @ = bounds.games THEN 0 ELSE @ + 1, !.errors = errors]

-----------------------------------------------------------------------------
(***************************************************************************)
(* scan(), game by game.                                                   *)
(***************************************************************************)
ScanStarts ==
  /\ Running /\ proc.scanner /\ proc.at = 0 /\ bounds.games > 0
  /\ proc' = [proc EXCEPT !.at = 1]
  /\ UNCHANGED <<disk, mem, bounds>>

ScanStops ==
  /\ proc.up /\ proc.at > 0 /\ proc.stop
  /\ proc' = [proc EXCEPT !.at = 0]
  /\ UNCHANGED <<disk, mem, bounds>>

(* The engine has not written about the game, or a finalizer has it.       *)
VisitNothing(g) ==
  /\ Running /\ proc.at = g
  /\ source[g] = <<>> \/ mem[g].finalizer # "none"
  /\ Onward(proc.errors)
  /\ UNCHANGED <<disk, mem, bounds>>

VisitsFinalizing(g) == Running /\ proc.at = g /\ source[g] # <<>>

Visits(g) == Running /\ proc.at = g /\ source[g] # <<>> /\ mem[g].finalizer = "none"

(* The manifest is there: verify it once, forget the journal.              *)
VisitPublished(g) ==
  /\ Visits(g) /\ manifest[g]
  /\ proc' = [proc EXCEPT !.verified = @ \cup {g}, !.errors = @ \ {g},
                 !.at = IF @ = bounds.games THEN 0 ELSE @ + 1]
  /\ mem' = [mem EXCEPT ![g].held = FALSE]
  /\ UNCHANGED <<disk, bounds>>

(* A sealed journal that an earlier process did not publish.               *)
VisitSealed(g) ==
  /\ Visits(g) /\ ~manifest[g] /\ ~mem[g].held /\ Sealed(rows[g])
  /\ \/ /\ manifest' = [manifest EXCEPT ![g] = TRUE]
        /\ Onward(proc.errors) /\ UNCHANGED <<mem, bounds>>
     \/ /\ MayFail("failed") /\ Faulted
        /\ Onward(proc.errors \cup {g}) /\ mem' = [mem EXCEPT ![g].cursor = 0]
        /\ UNCHANGED manifest
  /\ UNCHANGED <<source, rows, tail, created, envelope, complete>>

Importing(g) ==
  Visits(g) /\ ~manifest[g] /\ (mem[g].held \/ ~Sealed(rows[g]))

(* _journal reads row 0 of an existing journal for its pins.  When the     *)
(* file holds no complete row that is an IndexError, which scan does not   *)
(* catch: it ends the scanner thread.                                      *)
VisitEmpty(g) ==
  /\ Importing(g) /\ ~mem[g].held /\ created[g] /\ rows[g] = <<>>
  /\ proc' = [proc EXCEPT !.scanner = FALSE, !.at = 0]
  /\ mem' = [mem EXCEPT ![g].cursor = Len(source[g])]
  /\ UNCHANGED <<disk, bounds>>

(* The journal cannot be opened (damaged tail), or cannot be appended to   *)
(* though there is something to append.                                    *)
VisitRefused(g) ==
  /\ Importing(g)
  /\ \/ ~mem[g].held /\ tail[g] = "torn" /\ rows[g] # <<>>
     \/ mem[g].held /\ mem[g].failed /\ Imports(g) # <<>>
  /\ Onward(proc.errors \cup {g}) /\ mem' = [mem EXCEPT ![g].cursor = 0]
  /\ UNCHANGED <<disk, bounds>>

(* What a visit that imported everything does next: while choices are      *)
(* pending it gives them a bounded time after the end of the game, then    *)
(* one finalizer at a time seals the game.                                 *)
WaitingAtFirstOnly(pending, grace) == pending # {} /\ grace = "running"

Waiting(pending, grace) == pending # {} /\ grace # "passed"

Settled(g, m) ==
  LET pending == Pending(SubSeq(rows'[g], 1, m.knows))
      free    == \A h \in Games : mem[h].finalizer = "none"
  IN  IF ~Ended(g) THEN m
      ELSE [m EXCEPT !.grace = IF @ = "unset" THEN "running" ELSE @,
                     !.finalizer = IF free /\ ~Waiting(pending, m.grace) THEN "raw" ELSE @]

VisitImport(g) ==
  /\ Importing(g)
  /\ mem[g].held \/ (tail[g] = "none" /\ (created[g] => rows[g] # <<>>))
  /\ mem[g].failed => Imports(g) = <<>>
  /\ LET opening == Opening(g)
         new     == opening \o Imports(g)
     IN  \E e \in Endings(g, new, bounds.rows) :
           LET opened == mem[g].held \/ e.n >= Len(opening)
               knows  == IF mem[g].held THEN mem[g].knows + e.n ELSE Len(rows[g]) + e.n
               m      == [mem[g] EXCEPT !.held = opened, !.failed = @ \/ (opened /\ e.out = "failed"),
                            !.knows = IF opened THEN knows ELSE 0,
                            !.cursor = IF e.out = "done" THEN Len(source[g]) ELSE 0]
           IN  /\ Write(g, new, e)
               /\ CASE e.out = "crashed"   -> Gone
                    [] e.out = "cancelled" -> /\ proc' = [proc EXCEPT !.stop = TRUE, !.at = 0]
                                              /\ mem' = [mem EXCEPT ![g] = m]
                    [] e.out = "done"      -> /\ Onward(IF Ended(g) THEN proc.errors
                                                       ELSE proc.errors \ {g})
                                              /\ mem' = [mem EXCEPT ![g] = Settled(g, m)]
                    [] OTHER               -> /\ Onward(proc.errors \cup {g})
                                              /\ mem' = [mem EXCEPT ![g] = m]
  /\ UNCHANGED <<source, envelope, complete, manifest>>

-----------------------------------------------------------------------------
(***************************************************************************)
(* The bridge's rows.  RecorderBridge models its protocol; here a receipt  *)
(* is a start or a completion of a choice, at most one choice at a time.   *)
(***************************************************************************)
Receipt(g, r) ==
  /\ Running /\ proc.scanner /\ proc.at = 0 /\ proc.errors = {}
  /\ mem[g].held /\ ~mem[g].failed /\ ~Sealed(Known(g)) /\ mem[g].finalizer = "none"
  /\ ~Has(rows[g], r.kind, r.cb)
  /\ IF r.kind = "started" THEN Pending(Known(g)) = {} ELSE r.cb \in Pending(Known(g))
  /\ \E e \in Endings(g, <<r>>, bounds.rows) :
       /\ e.out # "cancelled"
       /\ Write(g, <<r>>, e)
       /\ IF e.out = "crashed" THEN Gone
          ELSE /\ proc' = IF e.out = "done" THEN proc
                          ELSE [proc EXCEPT !.errors = @ \cup {Bridge}]
               /\ mem' = [mem EXCEPT ![g].knows = @ + e.n, ![g].failed = e.out = "failed"]
  /\ UNCHANGED <<source, envelope, complete, manifest>>

-----------------------------------------------------------------------------
(***************************************************************************)
(* The finalizer thread of a game.                                         *)
(***************************************************************************)
Goto(g, step) == mem' = [mem EXCEPT ![g].finalizer = step]

(* Raw evidence: attach it, reuse what an earlier process attached if it   *)
(* still covers every completion, or go on with a gap.                     *)
FinalizeRaw(g) ==
  /\ proc.up /\ mem[g].finalizer = "raw"
  /\ \/ /\ mem' = [mem EXCEPT ![g].finalizer = "seal",
                     ![g].gap = ~HasKind(rows[g], "raw") \/ envelope[g] # Completed(rows[g])]
        /\ UNCHANGED <<disk, proc, bounds>>
     \/ /\ ~HasKind(rows[g], "raw") /\ ~mem[g].failed /\ ~Sealed(Known(g))
        /\ LET new == <<PlainRow("raw")>>
           IN  \E e \in Endings(g, new, bounds.rows) :
                 /\ e.out # "cancelled"
                 /\ Write(g, new, e)
                 /\ envelope' = [envelope EXCEPT ![g] =
                                   IF rows'[g] = rows[g] THEN @ ELSE Completed(rows[g])]
                 /\ IF e.out = "crashed" THEN Gone
                    ELSE /\ mem' = [mem EXCEPT ![g].finalizer = "seal",
                                      ![g].gap = e.out # "done", ![g].knows = @ + e.n,
                                      ![g].failed = e.out = "failed"]
                         /\ UNCHANGED proc
        /\ UNCHANGED <<source, complete, manifest>>

(* The terminal row, with what is missing; the reserve leaves it room.     *)
NothingMissing(g) ==
  /\ ~mem[g].gap /\ Pending(Known(g)) = {}
  /\ source[g][Len(source[g])] = "terminal"
  /\ Pending(rows[g]) = {} /\ HasKind(rows[g], "raw")
  /\ envelope[g] = Completed(rows[g])
  /\ HasNative(rows[g], "native_transition")

FinalizeSeal(g) ==
  /\ proc.up /\ mem[g].finalizer = "seal"
  /\ \/ /\ mem[g].failed \/ tail[g] = "torn" \/ Sealed(Known(g))
        /\ Goto(g, "failed") /\ UNCHANGED <<disk, proc, bounds>>
     \/ /\ ~mem[g].failed /\ tail[g] = "none" /\ ~Sealed(Known(g))
        /\ LET new == <<PlainRow("terminal")>>
           IN  \E e \in Endings(g, new, bounds.rows + 1) :
                 /\ e.out # "cancelled"
                 /\ Write(g, new, e)
                 /\ complete' = [complete EXCEPT ![g] = rows'[g] # rows[g] /\ NothingMissing(g)]
                 /\ IF e.out = "crashed" THEN Gone
                    ELSE /\ mem' = [mem EXCEPT ![g].knows = @ + e.n,
                                      ![g].failed = e.out = "failed",
                                      ![g].finalizer = IF e.out = "done" THEN "publish"
                                                       ELSE "failed"]
                         /\ UNCHANGED proc
        /\ UNCHANGED <<source, envelope, manifest>>

FinalizePublish(g) ==
  /\ proc.up /\ mem[g].finalizer = "publish"
  /\ \/ manifest' = [manifest EXCEPT ![g] = TRUE] /\ Goto(g, "done") /\ UNCHANGED bounds
     \/ /\ MayFail("failed") /\ Faulted
        /\ Goto(g, "failed") /\ UNCHANGED manifest
  /\ UNCHANGED <<source, rows, tail, created, envelope, complete, proc>>

(* A stop request ends the thread at its next check.                       *)
FinalizeCancel(g) ==
  /\ proc.up /\ proc.stop /\ mem[g].finalizer \in {"raw", "seal", "publish"}
  /\ Goto(g, "cancelled")
  /\ UNCHANGED <<disk, proc, bounds>>

(* The end of the thread, under the capture lock.                          *)
FinalizeDone(g) ==
  /\ proc.up /\ proc.at = 0 /\ mem[g].finalizer \in {"done", "failed", "cancelled"}
  /\ IF mem[g].finalizer = "done"
       THEN /\ proc' = [proc EXCEPT !.verified = @ \cup {g}, !.errors = @ \ {g}]
            /\ mem' = [mem EXCEPT ![g].finalizer = "none", ![g].held = FALSE]
       ELSE /\ proc' = IF mem[g].finalizer = "failed"
                         THEN [proc EXCEPT !.errors = @ \cup {g}] ELSE proc
            /\ mem' = [mem EXCEPT ![g].finalizer = "none", ![g].cursor = 0]
  /\ UNCHANGED <<disk, bounds>>

-----------------------------------------------------------------------------
(***************************************************************************)
(* The engine, the clock and the life of the process.                      *)
(***************************************************************************)
EngineWrites(g) ==
  /\ g <= bounds.games /\ ~Ended(g) /\ Len(source[g]) < bounds.source
  /\ \E k \in bounds.recorded :
       /\ (k = "initialization") <=> (source[g] = <<>>)
       /\ source' = [source EXCEPT ![g] = Append(@, k)]
  /\ UNCHANGED <<rows, tail, created, envelope, complete, manifest, proc, mem, bounds>>

(* terminal_grace_seconds after the end of the game was first imported.    *)
GracePasses(g) ==
  /\ proc.up /\ mem[g].grace = "running"
  /\ mem' = [mem EXCEPT ![g].grace = "passed"]
  /\ UNCHANGED <<disk, proc, bounds>>

RequestStop ==
  /\ Running
  /\ proc' = [proc EXCEPT !.stop = TRUE]
  /\ UNCHANGED <<disk, mem, bounds>>

(* close: it waits for the finalizer, releases every journal, exits.       *)
Shutdown ==
  /\ proc.up /\ proc.stop /\ proc.at = 0 /\ \A g \in Games : mem[g].finalizer = "none"
  /\ Gone /\ UNCHANGED <<disk, bounds>>

Crash ==
  /\ proc.up /\ MayFail("crashed") /\ Faulted
  /\ Gone /\ UNCHANGED disk

Boot ==
  /\ ~proc.up /\ bounds.boots > 0
  /\ bounds' = [bounds EXCEPT !.boots = @ - 1] /\ proc' = FreshProc
  /\ UNCHANGED <<disk, mem>>

Visit(g) == VisitNothing(g) \/ VisitPublished(g) \/ VisitSealed(g) \/ VisitEmpty(g)
              \/ VisitRefused(g) \/ VisitImport(g)

Finalize(g) == FinalizeRaw(g) \/ FinalizeSeal(g) \/ FinalizePublish(g) \/ FinalizeCancel(g)

Next ==
  \/ \E g \in Games :
       \/ Visit(g) \/ Finalize(g) \/ FinalizeDone(g) \/ EngineWrites(g) \/ GracePasses(g)
       \/ \E c \in bounds.callbacks, k \in {"started", "finished"} : Receipt(g, CallbackRow(k, c))
  \/ ScanStarts \/ ScanStops \/ RequestStop \/ Shutdown \/ Crash \/ Boot

Spec == Init /\ [][Next]_vars

(* The scanner keeps scanning, the finalizer thread runs and gets the      *)
(* capture lock, which the scanner leaves free for a second between scans, *)
(* time passes, and a process told to stop exits and is started again.     *)
Fairness ==
  /\ WF_vars(ScanStarts) /\ WF_vars(ScanStops)
  /\ \A g \in Games :
       WF_vars(Visit(g)) /\ WF_vars(Finalize(g)) /\ SF_vars(FinalizeDone(g))
         /\ WF_vars(GracePasses(g))
  /\ WF_vars(Shutdown) /\ WF_vars(Boot)

FairSpec == Spec /\ Fairness

-----------------------------------------------------------------------------
(***************************************************************************)
(* Properties.                                                             *)
(***************************************************************************)

(* Which import of its journal the i-th row is.                            *)
Ordinal(s, i) == Cardinality({j \in SourceRows(s, "native") : j <= i})

(* The native rows of a journal are the engine's rows, in the engine's     *)
(* order, from the first on, each once: whatever was interrupted, retried  *)
(* or resumed, none is lost, repeated or reordered.  (scan, cursors and    *)
(* source sequences)                                                       *)
ImportIsFaithful ==
  \A g \in Games : \A i \in SourceRows(rows[g], "native") :
    /\ Ordinal(rows[g], i) <= Len(source[g])
    /\ rows[g][i].native = source[g][Ordinal(rows[g], i)]

(* A journal is sealed only when the engine closed the game and everything *)
(* it wrote is in it; it is called complete only if the game ended by its  *)
(* rules and every choice that started in it also completed.               *)
(* (scan, _finish_game, finish)                                            *)
SealedIsWhole ==
  \A g \in Games : Sealed(rows[g]) =>
    /\ Ended(g) /\ NativeCount(rows[g]) = Len(source[g])
    /\ complete[g] => /\ HasNative(rows[g], "terminal")
                      /\ \A c \in Callbacks :
                           Has(rows[g], "started", c) => Has(rows[g], "finished", c)

(* A choice that is still pending gets its whole grace: no step seals a    *)
(* journal over it before the time is up in the process that seals, also   *)
(* when starts and completions arrive around the end of the game.          *)
(* (scan, ingest "native game finalization in progress")                   *)
GraceIsKept ==
  [][\A g \in Games :
       ~Sealed(rows[g]) /\ Sealed(rows'[g]) =>
         Pending(rows[g]) = {} \/ mem[g].grace = "passed"]_vars

(* operational_metrics: what keeps a deployment from draining.             *)
PendingRecordWrites ==
  {g \in Games : source[g] # <<>> /\ g \notin proc.verified}

(* No pending record writes means that every game the engine wrote is      *)
(* published and that its journal is done with: neither a finalizer nor a  *)
(* choice is open in it.  (operational_metrics, used to acknowledge drain) *)
DrainedIsPublished ==
  proc.up /\ PendingRecordWrites = {} =>
    \A g \in Games : source[g] # <<>> =>
      manifest[g] /\ Sealed(rows[g]) /\ ~mem[g].held /\ mem[g].finalizer = "none"

(* Every journal holds what the engine wrote, all of it once it is sealed, *)
(* and drained means published.                                            *)
JournalsAreFaithful == ImportIsFaithful /\ SealedIsWhole /\ DrainedIsPublished

(* Each journal is a sealed log.                                           *)
Log(g) == INSTANCE SealedLog WITH log <- rows[g], published <- manifest[g]

ImplementsSealedLogs ==
  /\ \A g \in Games : Log(g)!LogInit
  /\ [][\A g \in Games : Log(g)!LogNext \/ UNCHANGED <<rows[g], manifest[g]>>]_vars

(* A journal grows as a sealed log does, and is sealed no earlier than the *)
(* choices that are open in it allow.                                      *)
SealsInTime == ImplementsSealedLogs /\ GraceIsKept

(* What may keep a closed game from being published: the recorder is down  *)
(* or its scanner died, the journal is damaged, or an earlier write or     *)
(* publication failed in this process, or the storage limit is reached.    *)
Full(g) ==
  LET new == Opening(g) \o Imports(g)
  IN  new # <<>> /\ Len(rows[g]) + Len(new) > bounds.rows

Unfinishable(g) ==
  mem[g].failed \/ (mem[g].held /\ Sealed(rows[g]) /\ mem[g].finalizer # "publish")

Blocked(g) ==
  ~proc.up \/ ~proc.scanner \/ tail[g] = "torn" \/ Full(g) \/ Unfinishable(g)

(* Nothing else does but a game of an earlier name that cannot be sealed:  *)
(* a game the engine closed is published in the end, though choices stay   *)
(* pending, finalizers wait for each other and the recorder stops, dies    *)
(* and starts again.  (scan, _start_finalizer)                             *)
EventuallyPublished ==
  \A g \in Games :
    <>Ended(g) /\ []<>~Blocked(g) /\ []<>(\A h \in 1..(g - 1) : ~Unfinishable(h))
      => <>manifest[g]
=============================================================================
