---------------------------- MODULE JournalRows ----------------------------
(***************************************************************************)
(* What the rows of one private game journal say: the constant-level       *)
(* operators shared by every module of the recording pipeline.             *)
(*                                                                         *)
(* A row of the code carries hashes, clocks and evidence; here it keeps    *)
(* the three things that recovery, sealing and the callback bridge read    *)
(* from it: its kind, the callback (decision) it names and, for a row      *)
(* imported from the engine, the kind of native row.                       *)
(***************************************************************************)
EXTENDS Naturals, Sequences, FiniteSets

CONSTANTS
  Callbacks,   (* identities of the seat callbacks of a game               *)
  NoCallback   (* the decision field of a row that names none              *)

ASSUME NoCallbackAssumption == NoCallback \notin Callbacks

(***************************************************************************)
(* Kinds.  "registered" and "closed" are the runtime_context rows the      *)
(* bridge writes for a native caller, "started" is decision_started and    *)
(* "finished" is seat_callback.                                            *)
(***************************************************************************)
CallbackKinds == {"registered", "started", "finished", "closed"}
PlainKinds    == {"manifest", "resume", "context", "raw", "terminal"}
NativeKinds   == {"initialization", "native_transition", "terminal",
                  "session_closed"}
ClosingKinds  == {"terminal", "session_closed"}

Sources == {"gym-runtime", "native", "recorder-bridge"}

Row == [kind : CallbackKinds, cb : Callbacks, native : {"none"}]
         \cup [kind : PlainKinds, cb : {NoCallback}, native : {"none"}]
         \cup [kind : {"native"}, cb : {NoCallback}, native : NativeKinds]

PlainRow(k)       == [kind |-> k, cb |-> NoCallback, native |-> "none"]
CallbackRow(k, c) == [kind |-> k, cb |-> c, native |-> "none"]
NativeRow(n)      == [kind |-> "native", cb |-> NoCallback, native |-> n]

(***************************************************************************)
(* The producer a row counts for.  Manifest, resume, raw evidence and the  *)
(* terminal carry no source sequence.                                      *)
(***************************************************************************)
SourceOf(r) ==
  CASE r.kind \in CallbackKinds -> "recorder-bridge"
    [] r.kind = "native"        -> "native"
    [] r.kind = "context"       -> "gym-runtime"
    [] OTHER                    -> "none"

SourceRows(rows, s)  == {i \in DOMAIN rows : SourceOf(rows[i]) = s}
SourceCount(rows, s) == Cardinality(SourceRows(rows, s))

(***************************************************************************)
(* The callbacks whose choice started and has not completed: the last      *)
(* start or completion row that names them is a start.                     *)
(***************************************************************************)
PendingAt(rows, c) ==
  \E i \in DOMAIN rows :
    /\ rows[i].kind = "started" /\ rows[i].cb = c
    /\ \A j \in DOMAIN rows :
         j > i => ~(rows[j].kind = "finished" /\ rows[j].cb = c)

Pending(rows) == {c \in Callbacks : PendingAt(rows, c)}

(* What one more row does to a set of pending callbacks.                   *)
PendingAfter(pending, r) ==
  IF r.kind = "started" THEN pending \cup {r.cb}
  ELSE IF r.kind = "finished" THEN pending \ {r.cb}
  ELSE pending

Has(rows, k, c) == \E i \in DOMAIN rows : rows[i].kind = k /\ rows[i].cb = c
HasKind(rows, k) == \E i \in DOMAIN rows : rows[i].kind = k
HasNative(rows, n) ==
  \E i \in DOMAIN rows : rows[i].kind = "native" /\ rows[i].native = n

(***************************************************************************)
(* A journal is sealed by its last row, and only by it.                    *)
(***************************************************************************)
Sealed(rows) == rows # <<>> /\ rows[Len(rows)].kind = "terminal"

NothingAfterTerminalIn(rows) ==
  \A i \in DOMAIN rows : rows[i].kind = "terminal" => i = Len(rows)

(***************************************************************************)
(* The completed choices.  The code lists them in journal order wherever   *)
(* it compares them; a callback completes once, so the set says the same.  *)
(***************************************************************************)
Completed(rows) == {c \in Callbacks : Has(rows, "finished", c)}
=============================================================================
