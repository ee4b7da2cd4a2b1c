---------------------------- MODULE GameJournal ----------------------------
(***************************************************************************)
(* PrivateGameJournal (commander_gym/game_journal.py): the durable,        *)
(* segmented, hash-chained record of one game.                             *)
(*                                                                         *)
(* Any number of processes may try to open the journal; an advisory lock   *)
(* admits one.  A row is written, flushed and fsynced under the process's  *)
(* journal lock, so that a reader of this module may take one append as    *)
(* one step; what a step may leave behind is the point of the module: the  *)
(* process may die or the write may fail before, in the middle of, or      *)
(* after the bytes become durable, and only a failure inside the write     *)
(* itself is latched.  After any other the writer goes on, and it is the   *)
(* seals it keeps of its files that tell it about a row it does not know.  *)
(*                                                                         *)
(* Hash chaining and row validation are not modelled: the sole writer's    *)
(* bytes are read back as written.  A seal is a file's size and times;     *)
(* here it is the size of all files.                                       *)
(*                                                                         *)
(* Some operators are preceded by a variant of theirs with a bug this code *)
(* could have.  No definition uses it: PROJECT.json names the property     *)
(* that TLC finds violated when the variant takes the operator's place.    *)
(***************************************************************************)
EXTENDS JournalRows

CONSTANTS
  Processes,      (* processes that may hold the journal                   *)
  NativeRecorded, (* kinds of native rows the engine produces              *)
  RowBytes,       (* sizes a row other than the terminal may have          *)
  TerminalBytes,  (* size of the terminal row                              *)
  Reserve,        (* terminal_reserve: bytes only the terminal may use     *)
  MaxBytes,       (* max_bytes: the cap on the journal                     *)
  SegmentBytes    (* segment_bytes: the size at which a segment rotates    *)

ASSUME NativeAssumption == NativeRecorded \subseteq NativeKinds

ASSUME BytesAssumption ==
  /\ RowBytes \subseteq Nat \ {0}
  /\ TerminalBytes \in Nat \ {0}
  /\ Reserve \in Nat \ {0} /\ MaxBytes \in Nat /\ Reserve < MaxBytes
  /\ SegmentBytes \in Nat \ {0}
  /\ TerminalBytes <= Reserve

VARIABLES
  (* on disk *)
  rows,      (* the complete rows, over all segments                       *)
  torn,      (* TRUE when bytes of an incomplete row follow them           *)
  bytes,     (* their size                                                 *)
  files,     (* number of segment files                                    *)
  last,      (* size of the last one                                       *)
  envelope,  (* decision ids listed by the raw evidence row                *)
  complete,  (* recording_complete of the terminal row                     *)
  manifest,  (* TRUE once manifest.json is published                       *)
  (* in each process *)
  view       (* the fields of its PrivateGameJournal object                *)

disk == <<rows, torn, bytes, files, last, envelope, complete, manifest>>
vars == <<rows, torn, bytes, files, last, envelope, complete, manifest, view>>

ClosedView ==
  [fd |-> FALSE, failed |-> FALSE, terminal |-> FALSE, sequence |-> 0,
   used |-> 0, segment |-> 0, sources |-> [s \in Sources |-> 0],
   pending |-> {}]

Views ==
  [fd : BOOLEAN, failed : BOOLEAN, terminal : BOOLEAN, sequence : Nat,
   used : Nat, segment : Nat, sources : [Sources -> Nat],
   pending : SUBSET Callbacks]

TypeOK ==
  /\ rows \in Seq(Row) /\ torn \in BOOLEAN
  /\ bytes \in Nat /\ files \in Nat /\ last \in Nat
  /\ envelope \subseteq Callbacks
  /\ complete \in BOOLEAN /\ manifest \in BOOLEAN
  /\ view \in [Processes -> Views]

Init ==
  /\ rows = <<>> /\ torn = FALSE /\ bytes = 0 /\ files = 0 /\ last = 0
  /\ envelope = {} /\ complete = FALSE /\ manifest = FALSE
  /\ view = [p \in Processes |-> ClosedView]

-----------------------------------------------------------------------------
(***************************************************************************)
(* Reading the journal back.                                               *)
(***************************************************************************)

(* integrity_ok of inspect_journal: at least the manifest row, and no      *)
(* incomplete tail.                                                        *)
Intact == rows # <<>> /\ ~torn

(* The fields __init__ rebuilds from the rows of an existing journal, and  *)
(* the ones of a new one.                                                  *)
LoadedWithoutPending ==
  [fd |-> TRUE, failed |-> FALSE, terminal |-> FALSE, sequence |-> Len(rows),
   used |-> bytes, segment |-> IF files = 0 THEN 0 ELSE files - 1,
   sources |-> [s \in Sources |-> SourceCount(rows, s)],
   pending |-> {}]

Loaded ==
  [fd |-> TRUE, failed |-> FALSE, terminal |-> FALSE, sequence |-> Len(rows),
   used |-> bytes, segment |-> IF files = 0 THEN 0 ELSE files - 1,
   sources |-> [s \in Sources |-> SourceCount(rows, s)],
   pending |-> Pending(rows)]

LockFree == \A p \in Processes : ~view[p].fd

-----------------------------------------------------------------------------
(***************************************************************************)
(* Appending.                                                              *)
(***************************************************************************)

Limit(r) == IF r.kind = "terminal" THEN MaxBytes ELSE MaxBytes - Reserve

(* The row goes to the file of the writer's own segment number, a new one  *)
(* when that file does not exist yet, and to the next number when the file *)
(* would outgrow the segment size.                                         *)
NewFile(v, n) == v.segment = files \/ last + n > SegmentBytes

SegmentFor(v, n) ==
  IF v.segment < files /\ last + n > SegmentBytes THEN v.segment + 1 ELSE v.segment

Written(v, r, n) ==
  [fd       |-> v.fd,
   failed   |-> v.failed,
   terminal |-> r.kind = "terminal",
   sequence |-> v.sequence + 1,
   used     |-> v.used + n,
   segment  |-> SegmentFor(v, n),
   sources  |-> [s \in Sources |->
                   IF s = SourceOf(r) THEN v.sources[s] + 1 ELSE v.sources[s]],
   pending  |-> PendingAfter(v.pending, r)]

StoreRow(v, r, n) ==
  /\ rows'  = Append(rows, r)
  /\ bytes' = bytes + n
  /\ files' = IF NewFile(v, n) THEN files + 1 ELSE files
  /\ last'  = IF NewFile(v, n) THEN n ELSE last + n
  /\ UNCHANGED torn

StoreNothing == UNCHANGED <<rows, torn, bytes, files, last>>

(* A write that does not end well: no byte of the row, some of them, or    *)
(* all of them (the fsync failed, or the process died after it).  The file *)
(* may already have been created.                                          *)
SpoilRow(v, r, n) ==
  \/ StoreRow(v, r, n)
  \/ /\ \/ UNCHANGED <<files, last>>
        \/ NewFile(v, n) /\ files' = files + 1 /\ last' = 0
     /\ torn' \in BOOLEAN
     /\ torn' => (files' > 0)
     /\ UNCHANGED <<rows, bytes>>

CanWrite(v, r, n) == v.used + n <= Limit(r)

UsableAfterTerminal(p) == view[p].fd /\ ~view[p].failed

Usable(p) == view[p].fd /\ ~view[p].terminal /\ ~view[p].failed

(* _check_segment_seals: the files still are what this writer sealed when  *)
(* it last looked; if not, it gives the journal up.                        *)
SealsHold(v) == v.used = bytes /\ ~torn

GivesUp(p) == StoreNothing /\ view' = [view EXCEPT ![p].failed = TRUE]

(* A failure on either side of the guarded write: the file is not opened   *)
(* (a cancellation, os.open), or the row is durable and the descriptor is  *)
(* not closed or the files are not listed again.  The segment number may   *)
(* have moved by then; nothing else in memory has, and failed is not set.  *)
FailsOutsideTheWrite(p, r, n) ==
  /\ StoreNothing \/ StoreRow(view[p], r, n)
  /\ view' = [view EXCEPT ![p].segment = SegmentFor(view[p], n)]

(* append of row r by process p: it succeeds; it fails, and latches that   *)
(* or not; or the process dies in it.                                      *)
AppendRow(p, r, n) ==
  /\ Usable(p)
  /\ \/ ~SealsHold(view[p]) /\ GivesUp(p)
     \/ /\ SealsHold(view[p])
        /\ CanWrite(view[p], r, n)
        /\ LET v == view[p]
           IN  \/ StoreRow(v, r, n) /\ view' = [view EXCEPT ![p] = Written(v, r, n)]
               \/ SpoilRow(v, r, n) /\ view' = [view EXCEPT ![p].failed = TRUE]
               \/ SpoilRow(v, r, n) /\ view' = [view EXCEPT ![p] = ClosedView]
               \/ FailsOutsideTheWrite(p, r, n)

(* bridge_receipts looks at the seals as well, before every lookup.        *)
BridgeReceipts(p) ==
  /\ view[p].fd /\ ~view[p].failed
  /\ ~SealsHold(view[p]) /\ GivesUp(p)
  /\ UNCHANGED <<envelope, complete, manifest>>

(* __init__: take the lock, read back what is there, append the first row  *)
(* of this process.  A failure of any part closes the descriptor.          *)
Open(p) ==
  /\ LockFree
  /\ files > 0 => Intact /\ ~Sealed(rows)
  /\ LET r == PlainRow(IF files = 0 THEN "manifest" ELSE "resume")
     IN  \E n \in RowBytes :
           /\ CanWrite(Loaded, r, n)
           /\ \/ /\ StoreRow(Loaded, r, n)
                 /\ view' = [view EXCEPT ![p] = Written(Loaded, r, n)]
              \/ SpoilRow(Loaded, r, n) /\ UNCHANGED view
  /\ UNCHANGED <<envelope, complete, manifest>>

(* The rows the scanner and the bridge append: imported native rows,       *)
(* runtime context, and the receipts of a callback, each at most once.     *)
Record(p) ==
  /\ \E r \in {PlainRow("context")} \cup {NativeRow(k) : k \in NativeRecorded}
                \cup {CallbackRow(k, c) : k \in CallbackKinds, c \in Callbacks} :
       /\ r.kind \in CallbackKinds => ~Has(rows, r.kind, r.cb)
       /\ r.kind = "finished" => r.cb \in view[p].pending
       /\ \E n \in RowBytes : AppendRow(p, r, n)
  /\ UNCHANGED <<envelope, complete, manifest>>

(* raw_evidence: one envelope, listing every completion.  The proposal may *)
(* have been built from an earlier state of the journal; then it is not    *)
(* taken.                                                                  *)
RawEvidence(p) ==
  /\ ~HasKind(rows, "raw")
  /\ \E ids \in SUBSET Completed(rows) :
       /\ ids = Completed(rows)
       /\ \E n \in RowBytes : AppendRow(p, PlainRow("raw"), n)
       /\ envelope' = IF rows' = rows THEN envelope ELSE ids
  /\ UNCHANGED <<complete, manifest>>

(* finish: nothing is missing when the caller reports no gap, the outcome  *)
(* is the engine's, every start is completed, and the raw evidence covers  *)
(* every completion.                                                       *)
NothingMissingUncovered(p, callerGaps, nativeOutcome) ==
  /\ ~callerGaps
  /\ nativeOutcome
  /\ view[p].sources["native"] > 0
  /\ Pending(rows) = {}
  /\ HasKind(rows, "raw")
  /\ HasNative(rows, "native_transition")

NothingMissing(p, callerGaps, nativeOutcome) ==
  /\ ~callerGaps
  /\ nativeOutcome
  /\ view[p].sources["native"] > 0
  /\ Pending(rows) = {}
  /\ HasKind(rows, "raw")
  /\ envelope = Completed(rows)
  /\ HasNative(rows, "native_transition")

Finish(p) ==
  /\ Intact
  /\ AppendRow(p, PlainRow("terminal"), TerminalBytes)
  /\ \E callerGaps, nativeOutcome \in BOOLEAN :
       complete' = IF rows' = rows THEN complete
                   ELSE NothingMissing(p, callerGaps, nativeOutcome)
  /\ UNCHANGED <<envelope, manifest>>

(* publish_manifest, by the process that finished or, after a crash        *)
(* between the two, by any later one (publish_finalized_manifest).         *)
PublishManifest ==
  /\ ~manifest
  /\ Intact /\ Sealed(rows)
  /\ manifest' = TRUE
  /\ UNCHANGED <<rows, torn, bytes, files, last, envelope, complete, view>>

(* close, or the death of the process between two appends.                 *)
Close(p) ==
  /\ view[p].fd
  /\ view' = [view EXCEPT ![p] = ClosedView]
  /\ UNCHANGED disk

Next ==
  \/ \E p \in Processes :
       \/ Open(p) \/ Record(p) \/ RawEvidence(p) \/ Finish(p)
       \/ BridgeReceipts(p) \/ Close(p)
  \/ PublishManifest

Spec == Init /\ [][Next]_vars

-----------------------------------------------------------------------------
(***************************************************************************)
(* Properties.                                                             *)
(***************************************************************************)

(* What a view says when it is exactly what the rows on disk define.       *)
Agrees(v) ==
  /\ v.terminal = Sealed(rows)
  /\ v.sequence = Len(rows)
  /\ v.used = bytes
  /\ \A s \in Sources : v.sources[s] = SourceCount(rows, s)
  /\ v.pending = Pending(rows)

(* What it says when its writer's last row became durable and the writer   *)
(* was told that it failed: it misses that one row, and its seals do not   *)
(* hold any more.                                                          *)
MissesItsLastRow(v) == v.used < bytes /\ v.sequence + 1 = Len(rows)

(* The counters and the set of pending choices that a process keeps in     *)
(* memory while it has not given up are the ones its rows on disk define,  *)
(* so that nothing it decides from them (source sequences, overlap, room   *)
(* left) differs from what a restart would read; or they miss its own last *)
(* row, and then the seals stop its next append.  Its segment number is    *)
(* the one of the last file, or of the file to come.  (append, __init__,   *)
(* _check_segment_seals)                                                   *)
ViewMatchesDisk ==
  \A p \in Processes : view[p].fd /\ ~view[p].failed =>
    /\ ~torn
    /\ view[p].segment = files \/ view[p].segment + 1 = files
    /\ Agrees(view[p]) \/ MissesItsLastRow(view[p])

(* The advisory lock admits one writer.  (__init__, close)                 *)
SoleWriter ==
  \A p, q \in Processes : view[p].fd /\ view[q].fd => p = q

(* The terminal row is the last one, whoever crashed, resumed or raced.    *)
(* (append, _iter_journal_rows "event_after_terminal")                     *)
NothingAfterTerminal == NothingAfterTerminalIn(rows)

(* A journal that is not sealed always has room for its terminal row: the  *)
(* reserve is never eaten by ordinary rows, whatever was resumed.  (append *)
(* "storage limit reached; stop collection and seal partial journal")      *)
SealRoom == ~Sealed(rows) => bytes + TerminalBytes <= MaxBytes

(* What a process that holds the journal may rely on, however often it was *)
(* killed and resumed and wherever an append failed: it is the only one,   *)
(* its view is what a restart would read or misses a row that stops it,    *)
(* there is room to seal, and all of it has its type.                      *)
ViewIsSound == TypeOK /\ SoleWriter /\ ViewMatchesDisk /\ SealRoom

(* A recording sealed as complete has an engine transition, no started     *)
(* choice without its completion, and raw evidence listing every           *)
(* completion, also when the envelope was attached before a crash and      *)
(* completions arrived after the restart.  (finish, raw_evidence)          *)
CompleteMeansComplete ==
  Sealed(rows) /\ complete =>
    /\ HasNative(rows, "native_transition")
    /\ \A c \in Callbacks : Has(rows, "started", c) => Has(rows, "finished", c)
    /\ HasKind(rows, "raw") /\ envelope = Completed(rows)

(* A damaged tail is never written over, not even by the process that     *)
(* left it: what stands before it can always be recovered by hand.         *)
(* (append; __init__ "cannot resume damaged or closed journal")            *)
DamageIsKept == [][torn => UNCHANGED rows]_vars

(* The journal is a sealed log: the rows it holds and whether the manifest *)
(* is published.                                                           *)
Log == INSTANCE SealedLog WITH log <- rows, published <- manifest

ImplementsSealedLog == Log!LogSpec

(* Durable history is never rewritten: not by a resume, a crash or a       *)
(* failed write.                                                           *)
HistoryIsKept == DamageIsKept /\ ImplementsSealedLog
=============================================================================
