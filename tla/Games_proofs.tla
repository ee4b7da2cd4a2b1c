---------------------------- MODULE Games_proofs ----------------------------
(***************************************************************************)
(* Proofs about the games a process plays and the journal of one: about    *)
(* GameJournal for any number of processes and callbacks and any byte      *)
(* limits, about FullGame for any seats, bindings, setups and limits, and  *)
(* about DelegatedAutopass, which answers for a seat in them, for any      *)
(* calls, settings, length of the game and number of passes.               *)
(***************************************************************************)
EXTENDS GameJournal, FullGame, DelegatedAutopass, FiniteSetTheorems, TLAPS

(***************************************************************************)
(* What appending a row does to what the rows say.                         *)
(***************************************************************************)

LEMMA AppendedRow ==
  ASSUME NEW s \in Seq(Row), NEW r \in Row
  PROVE  /\ Append(s, r) \in Seq(Row)
         /\ Len(Append(s, r)) = Len(s) + 1
         /\ DOMAIN Append(s, r) = (DOMAIN s) \cup {Len(s) + 1}
         /\ Len(s) + 1 \notin DOMAIN s
         /\ \A i \in DOMAIN s : i \in 1..Len(s) /\ Append(s, r)[i] = s[i]
         /\ Append(s, r)[Len(s) + 1] = r
         /\ s = SubSeq(Append(s, r), 1, Len(s))
  OBVIOUS

LEMMA SourceRowsFinite ==
  ASSUME NEW s \in Seq(Row), NEW x
  PROVE  IsFiniteSet(SourceRows(s, x)) /\ SourceCount(s, x) \in Nat
<1>1. IsFiniteSet(1..Len(s))
  BY FS_Interval
<1>2. SourceRows(s, x) \subseteq 1..Len(s)
  BY DEF SourceRows
<1>3. IsFiniteSet(SourceRows(s, x))
  BY <1>1, <1>2, FS_Subset
<1>4. QED
  BY <1>3, FS_CardinalityType DEF SourceCount

(* A row adds one to the count of its own source and to no other.          *)
LEMMA AppendedCount ==
  ASSUME NEW s \in Seq(Row), NEW r \in Row, NEW x
  PROVE  SourceCount(Append(s, r), x) =
           IF x = SourceOf(r) THEN SourceCount(s, x) + 1 ELSE SourceCount(s, x)
<1>1. CASE x = SourceOf(r)
  <2>1. SourceRows(Append(s, r), x) = SourceRows(s, x) \cup {Len(s) + 1}
    BY <1>1, AppendedRow DEF SourceRows
  <2>2. Len(s) + 1 \notin SourceRows(s, x)
    BY AppendedRow DEF SourceRows
  <2>3. QED
    BY <1>1, <2>1, <2>2, SourceRowsFinite, FS_AddElement DEF SourceCount
<1>2. CASE x # SourceOf(r)
  <2>1. SourceRows(Append(s, r), x) = SourceRows(s, x)
    BY <1>2, AppendedRow DEF SourceRows
  <2>2. QED
    BY <1>2, <2>1 DEF SourceCount
<1>3. QED
  BY <1>1, <1>2

(* A start makes its callback pending, a completion ends that, and any     *)
(* other row leaves the pending set alone.                                 *)
LEMMA AppendedPending ==
  ASSUME NEW s \in Seq(Row), NEW r \in Row
  PROVE  Pending(Append(s, r)) = PendingAfter(Pending(s), r)
<1> DEFINE t == Append(s, r)
           m == Len(s) + 1
<1>0. /\ DOMAIN t = (DOMAIN s) \cup {m} /\ m \notin DOMAIN s
      /\ \A i \in DOMAIN s : i \in Nat /\ i < m /\ t[i] = s[i]
      /\ t[m] = r /\ m \in Nat
  BY AppendedRow
<1>1. ASSUME NEW c \in Callbacks, r.kind = "started", r.cb = c
      PROVE  PendingAt(t, c)
  BY <1>0, <1>1 DEF PendingAt
<1>2. ASSUME NEW c \in Callbacks, r.kind = "finished", r.cb = c
      PROVE  ~PendingAt(t, c)
  BY <1>0, <1>2 DEF PendingAt
<1>3. ASSUME NEW c \in Callbacks, r.kind \notin {"started", "finished"} \/ r.cb # c
      PROVE  PendingAt(t, c) <=> PendingAt(s, c)
  <2>1. ASSUME PendingAt(s, c) PROVE PendingAt(t, c)
    BY <1>0, <1>3, <2>1 DEF PendingAt
  <2>2. ASSUME PendingAt(t, c) PROVE PendingAt(s, c)
    BY <1>0, <1>3, <2>2 DEF PendingAt
  <2>3. QED
    BY <2>1, <2>2
<1>4. r.kind \in {"started", "finished"} => r.cb \in Callbacks
  BY DEF Row, CallbackKinds, PlainKinds
<1> HIDE DEF t, m
<1>5. CASE r.kind = "started"
  BY <1>1, <1>3, <1>4, <1>5 DEF Pending, PendingAfter, t
<1>6. CASE r.kind = "finished"
  BY <1>2, <1>3, <1>4, <1>6 DEF Pending, PendingAfter, t
<1>7. CASE r.kind \notin {"started", "finished"}
  BY <1>3, <1>7 DEF Pending, PendingAfter, t
<1>8. QED
  BY <1>5, <1>6, <1>7

LEMMA AppendedSeal ==
  ASSUME NEW s \in Seq(Row), NEW r \in Row
  PROVE  /\ Sealed(Append(s, r)) = (r.kind = "terminal")
         /\ ~Sealed(s) /\ NothingAfterTerminalIn(s)
              => NothingAfterTerminalIn(Append(s, r))
<1>1. Sealed(Append(s, r)) = (r.kind = "terminal")
  BY AppendedRow DEF Sealed
<1>2. ASSUME ~Sealed(s), NothingAfterTerminalIn(s),
             NEW i \in DOMAIN Append(s, r), Append(s, r)[i].kind = "terminal"
      PROVE  i = Len(Append(s, r))
  BY <1>2, AppendedRow DEF Sealed, NothingAfterTerminalIn
<1>3. QED
  BY <1>1, <1>2 DEF NothingAfterTerminalIn

-----------------------------------------------------------------------------
(***************************************************************************)
(* Types.                                                                  *)
(***************************************************************************)

LEMMA RowTypes ==
  /\ \A k \in PlainKinds : PlainRow(k) \in Row /\ PlainRow(k).kind = k
  /\ \A k \in CallbackKinds, c \in Callbacks : CallbackRow(k, c) \in Row
  /\ \A k \in NativeKinds : NativeRow(k) \in Row
  BY DEF Row, PlainRow, CallbackRow, NativeRow

LEMMA SourceOfRow ==
  ASSUME NEW r \in Row
  PROVE  r.kind \in {"started", "finished"} => r.cb \in Callbacks
  BY DEF Row, CallbackKinds, PlainKinds

LEMMA WrittenFields ==
  ASSUME NEW v \in Views, NEW r \in Row, NEW n \in Nat
  PROVE  /\ Written(v, r, n) \in Views
         /\ Written(v, r, n).fd = v.fd /\ Written(v, r, n).failed = v.failed
         /\ Written(v, r, n).sequence = v.sequence + 1
         /\ Written(v, r, n).used = v.used + n
         /\ Written(v, r, n).terminal = (r.kind = "terminal")
         /\ Written(v, r, n).segment = SegmentFor(v, n)
         /\ \A s \in Sources : Written(v, r, n).sources[s] =
              IF s = SourceOf(r) THEN v.sources[s] + 1 ELSE v.sources[s]
         /\ Written(v, r, n).pending = PendingAfter(v.pending, r)
<1>1. [s \in Sources |-> IF s = SourceOf(r) THEN v.sources[s] + 1 ELSE v.sources[s]]
        \in [Sources -> Nat]
  BY DEF Views
<1>2. PendingAfter(v.pending, r) \in SUBSET Callbacks
  BY SourceOfRow DEF Views, PendingAfter
<1>3. SegmentFor(v, n) \in Nat
  BY DEF Views, SegmentFor
<1>4. QED
  BY <1>1, <1>2, <1>3 DEF Views, Written

LEMMA LoadedFields ==
  ASSUME TypeOK
  PROVE  /\ Loaded \in Views
         /\ Loaded.fd /\ ~Loaded.failed /\ ~Loaded.terminal
<1>1. \A s \in Sources : SourceCount(rows, s) \in Nat
  BY SourceRowsFinite DEF TypeOK
<1>2. Pending(rows) \in SUBSET Callbacks
  BY DEF Pending
<1>3. QED
  BY <1>1, <1>2 DEF TypeOK, Loaded, Views

LEMMA StoredTypes ==
  ASSUME TypeOK, NEW v, NEW r \in Row, NEW n \in Nat,
         StoreNothing \/ StoreRow(v, r, n) \/ SpoilRow(v, r, n)
  PROVE  /\ rows' \in Seq(Row) /\ torn' \in BOOLEAN
         /\ bytes' \in Nat /\ files' \in Nat /\ last' \in Nat
<1>0. CASE StoreNothing
  BY <1>0 DEF StoreNothing, TypeOK
<1>1. CASE StoreRow(v, r, n)
  <2>1. Append(rows, r) \in Seq(Row)
    BY AppendedRow DEF TypeOK
  <2>2. QED
    BY <1>1, <2>1 DEF TypeOK, StoreRow
<1>2. CASE SpoilRow(v, r, n) /\ ~StoreRow(v, r, n)
  <2>1. /\ files' \in {files, files + 1} /\ last' \in {last, 0}
        /\ torn' \in BOOLEAN /\ UNCHANGED <<rows, bytes>>
    BY <1>2 DEF SpoilRow
  <2>2. QED
    BY <2>1 DEF TypeOK
<1>3. QED
  BY <1>0, <1>1, <1>2

(* What one append does, whatever becomes of it: the row is stored, spoilt *)
(* or not written, and the view of its process is one of five.             *)
LEMMA AppendOutcomes ==
  ASSUME NEW p \in Processes, NEW r, NEW n, AppendRow(p, r, n)
  PROVE  LET v == view[p]
         IN  \/ GivesUp(p) /\ ~SealsHold(v)
             \/ /\ SealsHold(v) /\ CanWrite(v, r, n)
                /\ \/ StoreRow(v, r, n) /\ view' = [view EXCEPT ![p] = Written(v, r, n)]
                   \/ SpoilRow(v, r, n) /\ view' = [view EXCEPT ![p].failed = TRUE]
                   \/ SpoilRow(v, r, n) /\ view' = [view EXCEPT ![p] = ClosedView]
                   \/ FailsOutsideTheWrite(p, r, n)
  BY DEF AppendRow

LEMMA AppendTypes ==
  ASSUME TypeOK, NEW p \in Processes, NEW r \in Row, NEW n \in Nat,
         AppendRow(p, r, n)
  PROVE  /\ rows' \in Seq(Row) /\ torn' \in BOOLEAN
         /\ bytes' \in Nat /\ files' \in Nat /\ last' \in Nat
         /\ view' \in [Processes -> Views]
<1>1. /\ rows' \in Seq(Row) /\ torn' \in BOOLEAN
      /\ bytes' \in Nat /\ files' \in Nat /\ last' \in Nat
  BY AppendOutcomes, StoredTypes DEF GivesUp, FailsOutsideTheWrite
<1>2. Written(view[p], r, n) \in Views /\ ClosedView \in Views
  BY WrittenFields DEF TypeOK, ClosedView, Views
<1>3. /\ [view[p] EXCEPT !.failed = TRUE] \in Views
      /\ [view[p] EXCEPT !.segment = SegmentFor(view[p], n)] \in Views
  <2>1. view[p] \in Views
    BY DEF TypeOK
  <2>2. SegmentFor(view[p], n) \in Nat
    BY <2>1 DEF SegmentFor, Views
  <2> HIDE DEF SegmentFor
  <2>3. [view[p] EXCEPT !.failed = TRUE] \in Views
    BY <2>1 DEF Views
  <2>4. [view[p] EXCEPT !.segment = SegmentFor(view[p], n)] \in Views
    BY <2>1, <2>2 DEF Views
  <2>5. QED
    BY <2>3, <2>4
<1>4. view' \in [Processes -> Views]
  <2>1. \E w \in Views : view' = [view EXCEPT ![p] = w]
    BY <1>2, <1>3, AppendOutcomes DEF GivesUp, FailsOutsideTheWrite
  <2>2. QED
    BY <2>1 DEF TypeOK
<1>5. QED
  BY <1>1, <1>4

LEMMA InitTypes == Init => TypeOK
<1> SUFFICES ASSUME Init PROVE TypeOK
  OBVIOUS
<1>1. ClosedView \in Views
  BY DEF ClosedView, Views
<1>2. view \in [Processes -> Views]
  BY <1>1 DEF Init
<1>3. torn \in BOOLEAN /\ complete \in BOOLEAN /\ manifest \in BOOLEAN
  BY Zenon DEF Init
<1>4. rows \in Seq(Row)
  BY DEF Init
<1>5. bytes \in Nat /\ files \in Nat /\ last \in Nat /\ envelope \subseteq Callbacks
  BY DEF Init
<1>6. QED
  BY <1>2, <1>3, <1>4, <1>5, Zenon DEF TypeOK

(* Every variable keeps its type, for any processes, callbacks and sizes.  *)
THEOREM TypeCorrect == Spec => []TypeOK
<1>1. Init => TypeOK
  BY InitTypes
<1>2. TypeOK /\ [Next]_vars => TypeOK'
  <2> SUFFICES ASSUME TypeOK, [Next]_vars PROVE TypeOK'
    OBVIOUS
  <2>1. ASSUME NEW p \in Processes, Open(p) PROVE TypeOK'
    <3>1. PICK n \in RowBytes, r \in Row :
            \/ /\ StoreRow(Loaded, r, n)
               /\ view' = [view EXCEPT ![p] = Written(Loaded, r, n)]
            \/ SpoilRow(Loaded, r, n) /\ UNCHANGED view
      BY <2>1, RowTypes DEF Open, PlainKinds
    <3>2. Written(Loaded, r, n) \in Views
      BY LoadedFields, WrittenFields, BytesAssumption
    <3>3. QED
      BY <2>1, <3>1, <3>2, StoredTypes, BytesAssumption DEF Open, TypeOK
  <2>2. ASSUME NEW p \in Processes, Record(p) PROVE TypeOK'
    <3>1. PICK n \in RowBytes, r \in Row : AppendRow(p, r, n)
      BY <2>2, RowTypes, NativeAssumption DEF Record, PlainKinds
    <3>2. QED
      BY <2>2, <3>1, AppendTypes, BytesAssumption DEF Record, TypeOK
  <2>3. ASSUME NEW p \in Processes, RawEvidence(p) PROVE TypeOK'
    <3>1. PICK n \in RowBytes : AppendRow(p, PlainRow("raw"), n)
      BY <2>3 DEF RawEvidence
    <3>2. PlainRow("raw") \in Row
      BY RowTypes DEF PlainKinds
    <3>3. envelope' \subseteq Callbacks
      BY <2>3 DEF RawEvidence, TypeOK, Completed
    <3>4. QED
      BY <2>3, <3>1, <3>2, <3>3, AppendTypes, BytesAssumption DEF RawEvidence, TypeOK
  <2>4. ASSUME NEW p \in Processes, Finish(p) PROVE TypeOK'
    <3>1. PlainRow("terminal") \in Row
      BY RowTypes DEF PlainKinds
    <3>2. complete' \in BOOLEAN
      <4>1. \A g, o \in BOOLEAN : NothingMissing(p, g, o) \in BOOLEAN
        BY DEF NothingMissing
      <4>2. complete \in BOOLEAN
        BY DEF TypeOK
      <4>3. QED
        BY <2>4, <4>1, <4>2 DEF Finish
    <3>3. AppendRow(p, PlainRow("terminal"), TerminalBytes)
      BY <2>4 DEF Finish
    <3>4. QED
      BY <2>4, <3>1, <3>2, <3>3, AppendTypes, BytesAssumption DEF Finish, TypeOK
  <2>5. ASSUME NEW p \in Processes, Close(p) PROVE TypeOK'
    BY <2>5 DEF Close, TypeOK, disk, ClosedView, Views
  <2>6. CASE PublishManifest
    BY <2>6 DEF PublishManifest, TypeOK
  <2>7. CASE UNCHANGED vars
    BY <2>7 DEF vars, TypeOK
  <2>8. ASSUME NEW p \in Processes, BridgeReceipts(p) PROVE TypeOK'
    BY <2>8 DEF BridgeReceipts, GivesUp, StoreNothing, TypeOK, Views
  <2>9. QED
    BY <2>1, <2>2, <2>3, <2>4, <2>5, <2>6, <2>7, <2>8 DEF Next
<1>3. QED
  BY <1>1, <1>2, PTL DEF Spec

-----------------------------------------------------------------------------
(***************************************************************************)
(* The inductive invariant.  ViewMatchesDisk is not inductive alone: that  *)
(* a failed or crashed append of one process cannot falsify the view of    *)
(* another rests on the lock (SoleWriter), and that Open starts from the   *)
(* truth rests on the shape of a journal without files.  A view that       *)
(* misses a row has fewer bytes than the disk, so that its seals do not    *)
(* hold and it stores nothing more.                                        *)
(***************************************************************************)
DiskInv ==
  /\ NothingAfterTerminal
  /\ ~Sealed(rows) => bytes <= MaxBytes - Reserve
  /\ files = 0 => rows = <<>> /\ ~torn /\ bytes = 0

IInv == TypeOK /\ SoleWriter /\ ViewMatchesDisk /\ DiskInv

(* A stored row is the last one, and goes to the last file.                *)
LEMMA StoreKeepsDisk ==
  ASSUME TypeOK, DiskInv, NEW v \in Views, NEW r \in Row, NEW n \in Nat,
         ~Sealed(rows), StoreRow(v, r, n), v.used = bytes, v.used + n <= Limit(r),
         v.segment = files \/ v.segment + 1 = files
  PROVE  DiskInv' /\ SegmentFor(v, n) + 1 = files'
<1>1. /\ rows \in Seq(Row) /\ files \in Nat /\ bytes \in Nat
      /\ rows' = Append(rows, r) /\ bytes' = bytes + n
      /\ files' = IF NewFile(v, n) THEN files + 1 ELSE files
      /\ v.segment \in Nat /\ last \in Nat /\ SegmentBytes \in Nat
  BY BytesAssumption DEF TypeOK, StoreRow, Views
<1>2. NothingAfterTerminal'
  BY <1>1, AppendedSeal DEF DiskInv, NothingAfterTerminal
<1>3. ~Sealed(rows') => bytes' <= MaxBytes - Reserve
  BY <1>1, AppendedSeal DEF Limit
<1>4. SegmentFor(v, n) + 1 = files' /\ files' # 0
  <2>1. CASE v.segment = files
    BY <1>1, <2>1 DEF NewFile, SegmentFor
  <2>2. CASE v.segment + 1 = files
    <3>1. v.segment < files /\ v.segment # files
      BY <1>1, <2>2
    <3>2. CASE last + n > SegmentBytes
      BY <1>1, <2>2, <3>1, <3>2 DEF NewFile, SegmentFor
    <3>3. CASE ~(last + n > SegmentBytes)
      BY <1>1, <2>2, <3>1, <3>3 DEF NewFile, SegmentFor
    <3>4. QED
      BY <3>2, <3>3
  <2>3. QED
    BY <2>1, <2>2
<1>5. QED
  BY <1>2, <1>3, <1>4 DEF DiskInv

(* A view that agrees with the disk still does after the row is stored.    *)
LEMMA StoreStep ==
  ASSUME TypeOK, DiskInv, NEW v \in Views, NEW r \in Row, NEW n \in Nat,
         ~torn, ~Sealed(rows), StoreRow(v, r, n), v.used + n <= Limit(r),
         v.sequence = Len(rows), v.used = bytes,
         v.segment = files \/ v.segment + 1 = files,
         \A s \in Sources : v.sources[s] = SourceCount(rows, s),
         v.pending = Pending(rows),
         NEW w, w = Written(v, r, n)
  PROVE  Agrees(w)' /\ DiskInv' /\ ~torn' /\ w.segment + 1 = files'
<1>1. /\ rows \in Seq(Row) /\ bytes \in Nat
      /\ rows' = Append(rows, r) /\ torn' = torn /\ bytes' = bytes + n
  BY DEF TypeOK, StoreRow
<1>2. /\ w.sequence = v.sequence + 1 /\ w.used = v.used + n
      /\ w.terminal = (r.kind = "terminal")
      /\ w.segment = SegmentFor(v, n)
      /\ \A s \in Sources : w.sources[s] =
              IF s = SourceOf(r) THEN v.sources[s] + 1 ELSE v.sources[s]
      /\ w.pending = PendingAfter(v.pending, r)
  BY WrittenFields
<1>3. w.terminal = Sealed(rows')
  BY <1>1, <1>2, AppendedSeal
<1>4. w.sequence = Len(rows') /\ w.used = bytes'
  BY <1>1, <1>2, AppendedRow
<1>5. DiskInv' /\ w.segment + 1 = files'
  BY <1>2, StoreKeepsDisk
<1>6. \A s \in Sources : w.sources[s] = SourceCount(rows', s)
  BY <1>1, <1>2, AppendedCount
<1>7. w.pending = Pending(rows')
  BY <1>1, <1>2, AppendedPending
<1>8. QED
  BY <1>1, <1>3, <1>4, <1>5, <1>6, <1>7 DEF Agrees

(* However a write ends, what is on disk stays well formed.                *)
LEMMA SpoilStep ==
  ASSUME TypeOK, DiskInv, NEW v \in Views, NEW r \in Row, NEW n \in Nat,
         ~Sealed(rows), SpoilRow(v, r, n), v.used = bytes, v.used + n <= Limit(r),
         v.segment = files \/ v.segment + 1 = files
  PROVE  DiskInv'
<1>1. CASE StoreRow(v, r, n)
  BY <1>1, StoreKeepsDisk
<1>2. CASE UNCHANGED <<rows, bytes>> /\ (torn' => files' > 0)
             /\ (files' = files \/ files' = files + 1)
  BY <1>2 DEF TypeOK, DiskInv, NothingAfterTerminal
<1>3. QED
  BY <1>1, <1>2 DEF SpoilRow

(* Who may append knows every row but, perhaps, its own last one; and if   *)
(* its seals hold, it knows that one too.                                  *)
LEMMA WriterKnows ==
  ASSUME IInv, NEW p \in Processes, view[p].fd, ~view[p].failed
  PROVE  /\ view \in [Processes -> Views] /\ view[p] \in Views
         /\ ~torn /\ TypeOK /\ DiskInv
         /\ view[p].segment = files \/ view[p].segment + 1 = files
         /\ SealsHold(view[p]) => Agrees(view[p])
         /\ ~SealsHold(view[p]) => MissesItsLastRow(view[p])
         /\ \A q \in Processes : view[q].fd => q = p
<1>1. view \in [Processes -> Views] /\ view[p] \in Views /\ bytes \in Nat
  BY DEF IInv, TypeOK
<1>2. /\ ~torn /\ (view[p].segment = files \/ view[p].segment + 1 = files)
      /\ Agrees(view[p]) \/ MissesItsLastRow(view[p])
  BY DEF IInv, ViewMatchesDisk
<1>3. MissesItsLastRow(view[p]) => ~SealsHold(view[p])
  BY <1>1 DEF MissesItsLastRow, SealsHold, Views
<1>4. Agrees(view[p]) => SealsHold(view[p])
  BY <1>2 DEF Agrees, SealsHold
<1>5. \A q \in Processes : view[q].fd => q = p
  BY DEF IInv, SoleWriter
<1>6. QED
  BY <1>1, <1>2, <1>3, <1>4, <1>5 DEF IInv

(* A process that stores a row may append it to an unsealed journal.       *)
LEMMA AppendsToOpen ==
  ASSUME IInv, NEW p \in Processes, NEW r, NEW n, AppendRow(p, r, n)
  PROVE  /\ view[p].fd /\ ~view[p].failed /\ ~torn
         /\ SealsHold(view[p]) => ~Sealed(rows)
<1>1. view[p].fd /\ ~view[p].failed /\ ~view[p].terminal
  BY DEF AppendRow, Usable
<1>2. QED
  BY <1>1, WriterKnows DEF Agrees

(* A process that gives the journal up touches no file.                    *)
LEMMA GivesUpStep ==
  ASSUME IInv, NEW p \in Processes, GivesUp(p)
  PROVE  SoleWriter' /\ ViewMatchesDisk' /\ DiskInv'
<1>1. view \in [Processes -> Views] /\ view' = [view EXCEPT ![p].failed = TRUE]
  BY DEF IInv, TypeOK, GivesUp
<1>2. /\ \A q \in Processes : q # p => view'[q] = view[q]
      /\ view'[p].failed /\ view'[p].fd = view[p].fd
  BY <1>1 DEF Views
<1>3. UNCHANGED <<rows, torn, bytes, files>>
  BY DEF GivesUp, StoreNothing
<1>4. SoleWriter'
  BY <1>2 DEF IInv, SoleWriter
<1>5. ViewMatchesDisk'
  BY <1>2, <1>3 DEF IInv, ViewMatchesDisk, Agrees, MissesItsLastRow
<1>6. DiskInv'
  BY <1>3 DEF IInv, DiskInv, NothingAfterTerminal
<1>7. QED
  BY <1>4, <1>5, <1>6

(* What a view must be after a step of its process, the only one with a    *)
(* descriptor.                                                             *)
LEMMA OneViewChanges ==
  ASSUME NEW p \in Processes, \A q \in Processes : view[q].fd => q = p,
         \A q \in Processes : q # p => view'[q] = view[q],
         view'[p].fd /\ ~view'[p].failed =>
           /\ ~torn'
           /\ view'[p].segment = files' \/ view'[p].segment + 1 = files'
           /\ Agrees(view[p])' \/ MissesItsLastRow(view[p])'
  PROVE  SoleWriter' /\ ViewMatchesDisk'
  BY DEF SoleWriter, ViewMatchesDisk

LEMMA AppendStep ==
  ASSUME IInv, NEW p \in Processes, NEW r \in Row, NEW n \in Nat \ {0},
         AppendRow(p, r, n)
  PROVE  SoleWriter' /\ ViewMatchesDisk' /\ DiskInv'
<1>1. CASE GivesUp(p)
  BY <1>1, GivesUpStep
<1>2. CASE ~GivesUp(p)
  <2>0. PICK v : v = view[p]
    OBVIOUS
  <2>1. /\ SealsHold(v) /\ CanWrite(v, r, n) /\ v.fd /\ ~v.failed
        /\ view \in [Processes -> Views] /\ v \in Views
        /\ ~torn /\ ~Sealed(rows) /\ TypeOK /\ DiskInv /\ Agrees(v)
        /\ v.segment = files \/ v.segment + 1 = files
        /\ \A q \in Processes : view[q].fd => q = p
    BY <1>2, <2>0, AppendOutcomes, AppendsToOpen, WriterKnows
  <2>2. /\ v.used = bytes /\ v.used + n <= Limit(r) /\ v.sequence = Len(rows)
        /\ \A s \in Sources : v.sources[s] = SourceCount(rows, s)
        /\ v.pending = Pending(rows) /\ v.terminal = FALSE
        /\ bytes \in Nat /\ files \in Nat /\ v.segment \in Nat
    BY <2>1 DEF Agrees, CanWrite, TypeOK, Views
  <2>3. CASE StoreRow(v, r, n) /\ view' = [view EXCEPT ![p] = Written(v, r, n)]
    <3>1. PICK w : w = Written(v, r, n)
      OBVIOUS
    <3>2. Agrees(w)' /\ DiskInv' /\ ~torn' /\ w.segment + 1 = files'
      BY <2>1, <2>2, <2>3, <3>1, StoreStep
    <3>3. view'[p] = w /\ \A q \in Processes : q # p => view'[q] = view[q]
      BY <2>1, <2>3, <3>1
    <3>4. Agrees(view[p])'
      BY <3>2, <3>3 DEF Agrees
    <3>5. QED
      BY <2>1, <3>2, <3>3, <3>4, OneViewChanges
  <2>4. CASE SpoilRow(v, r, n) /\ view' = [view EXCEPT ![p].failed = TRUE]
    <3>1. DiskInv'
      BY <2>1, <2>2, <2>4, SpoilStep
    <3>2. view'[p].failed /\ \A q \in Processes : q # p => view'[q] = view[q]
      BY <2>0, <2>1, <2>4 DEF Views
    <3>3. QED
      BY <2>1, <3>1, <3>2, OneViewChanges
  <2>5. CASE SpoilRow(v, r, n) /\ view' = [view EXCEPT ![p] = ClosedView]
    <3>1. DiskInv'
      BY <2>1, <2>2, <2>5, SpoilStep
    <3>2. ~view'[p].fd /\ \A q \in Processes : q # p => view'[q] = view[q]
      BY <2>1, <2>5 DEF ClosedView
    <3>3. QED
      BY <2>1, <3>1, <3>2, OneViewChanges
  <2>6. CASE FailsOutsideTheWrite(p, r, n)
    <3>1. PICK w : w = [v EXCEPT !.segment = SegmentFor(v, n)]
      OBVIOUS
    <3>2. /\ view'[p] = w /\ \A q \in Processes : q # p => view'[q] = view[q]
          /\ w.terminal = v.terminal /\ w.sequence = v.sequence /\ w.used = v.used
          /\ w.segment = SegmentFor(v, n) /\ w.sources = v.sources
          /\ w.pending = v.pending
      BY <2>0, <2>1, <2>6, <3>1 DEF FailsOutsideTheWrite, Views
    <3>3. CASE StoreNothing
      <4>1. UNCHANGED <<rows, torn, bytes, files>>
        BY <3>3 DEF StoreNothing
      <4>2. w.segment = files' \/ w.segment + 1 = files'
        BY <2>1, <2>2, <3>2, <4>1 DEF SegmentFor
      <4>3. Agrees(view[p])'
        BY <2>1, <3>2, <4>1 DEF Agrees
      <4>4. DiskInv' /\ ~torn'
        BY <2>1, <4>1 DEF DiskInv, NothingAfterTerminal
      <4>5. QED
        BY <2>1, <3>2, <4>2, <4>3, <4>4, OneViewChanges
    <3>4. CASE StoreRow(v, r, n)
      <4>1. DiskInv' /\ w.segment + 1 = files'
        BY <2>1, <2>2, <3>2, <3>4, StoreKeepsDisk
      <4>2. rows \in Seq(Row) /\ rows' = Append(rows, r) /\ bytes' = bytes + n /\ ~torn'
        BY <2>1, <3>4 DEF StoreRow, TypeOK
      <4>3. Len(rows') = Len(rows) + 1
        BY <4>2, AppendedRow
      <4>4. MissesItsLastRow(view[p])'
        BY <2>2, <3>2, <4>2, <4>3 DEF MissesItsLastRow
      <4>5. QED
        BY <2>1, <3>2, <4>1, <4>2, <4>4, OneViewChanges
    <3>5. QED
      BY <2>0, <2>6, <3>3, <3>4 DEF FailsOutsideTheWrite
  <2>7. QED
    BY <1>2, <2>0, <2>3, <2>4, <2>5, <2>6, AppendOutcomes
<1>3. QED
  BY <1>1, <1>2

LEMMA OpenStep ==
  ASSUME IInv, NEW p \in Processes, Open(p)
  PROVE  SoleWriter' /\ ViewMatchesDisk' /\ DiskInv'
<1>1. /\ view \in [Processes -> Views] /\ TypeOK /\ DiskInv /\ files \in Nat
      /\ \A q \in Processes : ~view[q].fd
  BY DEF IInv, TypeOK, Open, LockFree
<1>2. ~torn /\ ~Sealed(rows)
  BY <1>1 DEF Open, DiskInv, Intact, Sealed
<1>3. PICK n \in RowBytes, r \in Row :
         /\ CanWrite(Loaded, r, n)
         /\ \/ /\ StoreRow(Loaded, r, n)
               /\ view' = [view EXCEPT ![p] = Written(Loaded, r, n)]
            \/ SpoilRow(Loaded, r, n) /\ UNCHANGED view
  BY RowTypes DEF Open, PlainKinds
<1>4. Loaded \in Views /\ n \in Nat
  BY <1>1, LoadedFields, BytesAssumption
<1>5. /\ Loaded.used = bytes /\ Loaded.used + n <= Limit(r)
      /\ Loaded.segment = files \/ Loaded.segment + 1 = files
  BY <1>1, <1>3 DEF Loaded, CanWrite
<1>6. CASE StoreRow(Loaded, r, n) /\ view' = [view EXCEPT ![p] = Written(Loaded, r, n)]
  <2>1. PICK w : w = Written(Loaded, r, n)
    OBVIOUS
  <2>2. /\ Loaded.sequence = Len(rows)
        /\ \A s \in Sources : Loaded.sources[s] = SourceCount(rows, s)
        /\ Loaded.pending = Pending(rows)
    BY DEF Loaded
  <2>3. Agrees(w)' /\ DiskInv' /\ ~torn' /\ w.segment + 1 = files'
    BY <1>1, <1>2, <1>4, <1>5, <1>6, <2>1, <2>2, StoreStep
  <2>4. view'[p] = w /\ \A q \in Processes : q # p => view'[q] = view[q]
    BY <1>1, <1>6, <2>1
  <2>5. Agrees(view[p])'
    BY <2>3, <2>4 DEF Agrees
  <2>6. QED
    BY <1>1, <2>3, <2>4, <2>5, OneViewChanges
<1>7. CASE SpoilRow(Loaded, r, n) /\ UNCHANGED view
  <2>1. DiskInv'
    BY <1>1, <1>2, <1>4, <1>5, <1>7, SpoilStep
  <2>2. QED
    BY <1>1, <1>7, <2>1 DEF ViewMatchesDisk, SoleWriter
<1>8. QED
  BY <1>3, <1>6, <1>7

(* What one step keeps, for the theorems below.                            *)
LEMMA InvariantStep == IInv /\ TypeOK' /\ [Next]_vars => IInv'
<1> SUFFICES ASSUME IInv, TypeOK', [Next]_vars
             PROVE  SoleWriter' /\ ViewMatchesDisk' /\ DiskInv'
  BY DEF IInv
<1>1. ASSUME NEW p \in Processes, Open(p)
      PROVE  SoleWriter' /\ ViewMatchesDisk' /\ DiskInv'
  BY <1>1, OpenStep
<1>2. ASSUME NEW p \in Processes, Record(p)
      PROVE  SoleWriter' /\ ViewMatchesDisk' /\ DiskInv'
  <2>1. PICK n \in RowBytes, r \in Row : AppendRow(p, r, n)
    BY <1>2, RowTypes, NativeAssumption DEF Record, PlainKinds
  <2>2. QED
    BY <2>1, AppendStep, BytesAssumption
<1>3. ASSUME NEW p \in Processes, RawEvidence(p)
      PROVE  SoleWriter' /\ ViewMatchesDisk' /\ DiskInv'
  <2>1. PICK n \in RowBytes : AppendRow(p, PlainRow("raw"), n)
    BY <1>3 DEF RawEvidence
  <2>2. QED
    BY <2>1, AppendStep, RowTypes, BytesAssumption DEF PlainKinds
<1>4. ASSUME NEW p \in Processes, Finish(p)
      PROVE  SoleWriter' /\ ViewMatchesDisk' /\ DiskInv'
  BY <1>4, AppendStep, RowTypes, BytesAssumption DEF Finish, PlainKinds
<1>5. ASSUME NEW p \in Processes, Close(p)
      PROVE  SoleWriter' /\ ViewMatchesDisk' /\ DiskInv'
  <2>1. view \in [Processes -> Views] /\ view' = [view EXCEPT ![p] = ClosedView]
    BY <1>5 DEF Close, IInv, TypeOK
  <2>2. ~view'[p].fd /\ \A q \in Processes : q # p => view'[q] = view[q]
    BY <2>1 DEF ClosedView
  <2>3. UNCHANGED disk
    BY <1>5 DEF Close
  <2>4. QED
    BY <2>2, <2>3 DEF IInv, disk, SoleWriter, ViewMatchesDisk, Agrees,
       MissesItsLastRow, DiskInv, NothingAfterTerminal
<1>6. CASE PublishManifest
  BY <1>6 DEF PublishManifest, IInv, SoleWriter, ViewMatchesDisk, Agrees,
     MissesItsLastRow, DiskInv, NothingAfterTerminal
<1>7. CASE UNCHANGED vars
  BY <1>7 DEF vars, IInv, SoleWriter, ViewMatchesDisk, Agrees,
     MissesItsLastRow, DiskInv, NothingAfterTerminal
<1>8. ASSUME NEW p \in Processes, BridgeReceipts(p)
      PROVE  SoleWriter' /\ ViewMatchesDisk' /\ DiskInv'
  BY <1>8, GivesUpStep DEF BridgeReceipts
<1>9. QED
  BY <1>1, <1>2, <1>3, <1>4, <1>5, <1>6, <1>7, <1>8 DEF Next

LEMMA Invariant == Spec => []IInv
<1>1. Init => IInv
  <2> SUFFICES ASSUME Init PROVE IInv
    OBVIOUS
  <2>1. \A p \in Processes : ~view[p].fd
    BY DEF Init, ClosedView
  <2>2. rows = <<>> /\ torn = FALSE /\ bytes = 0
    BY DEF Init
  <2>3. DiskInv
    BY <2>2, BytesAssumption DEF DiskInv, NothingAfterTerminal, NothingAfterTerminalIn
  <2>4. QED
    BY <2>1, <2>3, InitTypes DEF IInv, SoleWriter, ViewMatchesDisk
<1>2. QED
  BY <1>1, InvariantStep, TypeCorrect, PTL DEF Spec

-----------------------------------------------------------------------------
(***************************************************************************)
(* The safety theorems.                                                    *)
(***************************************************************************)

(* What a process that has not given up holds in memory is what a restart  *)
(* would read, or lacks its own last row, and then stores nothing more.    *)
THEOREM ViewsAreRecoverable == Spec => []ViewMatchesDisk
<1>1. IInv => ViewMatchesDisk
  BY DEF IInv
<1>2. QED
  BY <1>1, Invariant, PTL

(* No two processes hold the journal.                                      *)
THEOREM OneWriter == Spec => []SoleWriter
<1>1. IInv => SoleWriter
  BY DEF IInv
<1>2. QED
  BY <1>1, Invariant, PTL

(* The terminal row always fits: the reserve survives every append, failed *)
(* append and resume.                                                      *)
THEOREM TerminalAlwaysFits == Spec => []SealRoom
<1>1. IInv => SealRoom
  BY BytesAssumption DEF IInv, TypeOK, DiskInv, SealRoom
<1>2. QED
  BY <1>1, Invariant, PTL

-----------------------------------------------------------------------------
(***************************************************************************)
(* What a seal that says "complete" is worth, and that history stays.      *)
(***************************************************************************)

LEMMA AppendedTerminal ==
  ASSUME NEW s \in Seq(Row)
  PROVE  LET t == Append(s, PlainRow("terminal"))
         IN  /\ \A k \in CallbackKinds, c \in Callbacks : Has(t, k, c) <=> Has(s, k, c)
             /\ Completed(t) = Completed(s)
             /\ HasKind(s, "raw") => HasKind(t, "raw")
             /\ \A n : HasNative(s, n) => HasNative(t, n)
<1> DEFINE r == PlainRow("terminal")
           t == Append(s, r)
<1>1. r \in Row /\ r.kind = "terminal"
  BY RowTypes DEF PlainKinds
<1>2. /\ DOMAIN t = (DOMAIN s) \cup {Len(s) + 1}
      /\ \A i \in DOMAIN s : t[i] = s[i]
      /\ t[Len(s) + 1] = r
  BY <1>1, AppendedRow
<1> HIDE DEF r, t
<1>3. \A k \in CallbackKinds, c \in Callbacks : Has(t, k, c) <=> Has(s, k, c)
  BY <1>1, <1>2 DEF Has, CallbackKinds
<1>4. Completed(t) = Completed(s)
  BY <1>3 DEF Completed, CallbackKinds
<1>5. (HasKind(s, "raw") => HasKind(t, "raw")) /\ \A n : HasNative(s, n) => HasNative(t, n)
  BY <1>2 DEF HasKind, HasNative
<1>6. QED
  BY <1>3, <1>4, <1>5 DEF r, t

LEMMA NothingPending ==
  ASSUME NEW s \in Seq(Row), Pending(s) = {}, NEW c \in Callbacks,
         Has(s, "started", c)
  PROVE  Has(s, "finished", c)
  BY DEF Pending, PendingAt, Has

(* Sealing as complete is right, and nothing that comes later makes it     *)
(* wrong.                                                                  *)
LEMMA SealedCompleteStep ==
  IInv /\ CompleteMeansComplete /\ [Next]_vars => CompleteMeansComplete'
<1> SUFFICES ASSUME IInv, CompleteMeansComplete, [Next]_vars,
                    Sealed(rows'), complete'
             PROVE  /\ HasNative(rows', "native_transition")
                    /\ \A c \in Callbacks : Has(rows', "started", c) => Has(rows', "finished", c)
                    /\ HasKind(rows', "raw") /\ envelope' = Completed(rows')
  BY DEF CompleteMeansComplete
<1>0. rows \in Seq(Row)
  BY DEF IInv, TypeOK
<1>1. ASSUME UNCHANGED <<rows, envelope, complete>>
      PROVE  /\ HasNative(rows', "native_transition")
             /\ \A c \in Callbacks : Has(rows', "started", c) => Has(rows', "finished", c)
             /\ HasKind(rows', "raw") /\ envelope' = Completed(rows')
  BY <1>1 DEF CompleteMeansComplete
<1>2. ASSUME NEW r \in Row, r.kind # "terminal", ~Sealed(rows),
             NEW v, NEW n \in Nat,
             StoreNothing \/ StoreRow(v, r, n) \/ SpoilRow(v, r, n)
      PROVE  FALSE
  BY <1>0, <1>2, AppendedSeal DEF StoreNothing, StoreRow, SpoilRow
<1>3. ASSUME NEW p \in Processes, NEW r \in Row, r.kind # "terminal",
             NEW n \in Nat, AppendRow(p, r, n)
      PROVE  rows' = rows
  <2>1. CASE GivesUp(p)
    BY <2>1 DEF GivesUp, StoreNothing
  <2>2. CASE ~GivesUp(p)
    <3>1. /\ ~Sealed(rows)
          /\ \/ StoreNothing \/ StoreRow(view[p], r, n) \/ SpoilRow(view[p], r, n)
      BY <1>3, <2>2, AppendOutcomes, AppendsToOpen DEF FailsOutsideTheWrite
    <3>2. QED
      BY <1>2, <1>3, <3>1
  <2>3. QED
    BY <2>1, <2>2
<1>4. ASSUME NEW p \in Processes, Open(p) PROVE FALSE
  <2>1. ~Sealed(rows)
    BY <1>4 DEF Open, IInv, TypeOK, DiskInv, Sealed
  <2>2. PICK n \in RowBytes, r \in Row : 
          r.kind # "terminal" /\ (StoreRow(Loaded, r, n) \/ SpoilRow(Loaded, r, n))
    BY <1>4, RowTypes DEF Open, PlainKinds
  <2>3. QED
    BY <1>2, <2>1, <2>2, BytesAssumption
<1>5. ASSUME NEW p \in Processes, Record(p) PROVE UNCHANGED <<rows, envelope, complete>>
  <2>1. PICK r \in Row, n \in RowBytes : r.kind # "terminal" /\ AppendRow(p, r, n)
    BY <1>5, RowTypes, NativeAssumption
       DEF Record, PlainKinds, CallbackKinds, PlainRow, NativeRow, CallbackRow
  <2>2. QED
    BY <1>3, <1>5, <2>1, BytesAssumption DEF Record
<1>6. ASSUME NEW p \in Processes, RawEvidence(p)
      PROVE  UNCHANGED <<rows, envelope, complete>>
  <2>1. PICK n \in RowBytes : AppendRow(p, PlainRow("raw"), n)
    BY <1>6 DEF RawEvidence
  <2>2. PlainRow("raw") \in Row /\ PlainRow("raw").kind # "terminal"
    BY RowTypes DEF PlainKinds
  <2>3. rows' = rows
    BY <1>3, <2>1, <2>2, BytesAssumption
  <2>4. QED
    BY <1>6, <2>3 DEF RawEvidence
<1>7. ASSUME NEW p \in Processes, Finish(p)
      PROVE  /\ HasNative(rows', "native_transition")
             /\ \A c \in Callbacks : Has(rows', "started", c) => Has(rows', "finished", c)
             /\ HasKind(rows', "raw") /\ envelope' = Completed(rows')
  <2>1. envelope' = envelope
    BY <1>7 DEF Finish
  <2>2. CASE rows' = rows
    BY <1>1, <1>7, <2>1, <2>2 DEF Finish
  <2>3. CASE rows' # rows
    <3>1. PICK g \in BOOLEAN, o \in BOOLEAN : NothingMissing(p, g, o)
      BY <1>7, <2>3 DEF Finish
    <3>2. /\ Pending(rows) = {} /\ HasKind(rows, "raw") /\ envelope = Completed(rows)
          /\ HasNative(rows, "native_transition")
      BY <3>1 DEF NothingMissing
    <3>3. rows' = Append(rows, PlainRow("terminal"))
      BY <1>7, <2>3, AppendOutcomes
         DEF Finish, GivesUp, FailsOutsideTheWrite, StoreNothing, StoreRow, SpoilRow
    <3>4. \A c \in Callbacks : Has(rows, "started", c) => Has(rows, "finished", c)
      BY <1>0, <3>2, NothingPending
    <3>5. QED
      BY <1>0, <2>1, <3>2, <3>3, <3>4, AppendedTerminal DEF CallbackKinds
  <2>4. QED
    BY <2>2, <2>3
<1>8. ASSUME NEW p \in Processes, Close(p) PROVE UNCHANGED <<rows, envelope, complete>>
  BY <1>8 DEF Close, disk
<1>9. CASE PublishManifest
  BY <1>1, <1>9 DEF PublishManifest
<1>10. CASE UNCHANGED vars
  BY <1>1, <1>10 DEF vars
<1>11. ASSUME NEW p \in Processes, BridgeReceipts(p)
       PROVE  UNCHANGED <<rows, envelope, complete>>
  BY <1>11 DEF BridgeReceipts, GivesUp, StoreNothing
<1>12. QED
  BY <1>1, <1>4, <1>5, <1>6, <1>7, <1>8, <1>9, <1>10, <1>11 DEF Next

(* recording_complete is never claimed of a recording that lacks an        *)
(* engine transition, a completion or its raw evidence.                    *)
THEOREM CompleteIsTrue == Spec => []CompleteMeansComplete
<1>1. Init => CompleteMeansComplete
  BY DEF Init, CompleteMeansComplete, Sealed
<1>2. QED
  BY <1>1, SealedCompleteStep, Invariant, PTL DEF Spec

-----------------------------------------------------------------------------
(***************************************************************************)
(* Refinement: the journal is a sealed log.                                *)
(***************************************************************************)

LEMMA StoreExtends ==
  ASSUME IInv, NEW v, NEW r \in Row, NEW n \in Nat, StoreRow(v, r, n), ~Sealed(rows),
         manifest' = manifest
  PROVE  Log!Extend
<1>1. rows \in Seq(Row) /\ rows' = Append(rows, r) /\ NothingAfterTerminalIn(rows)
  BY DEF IInv, TypeOK, StoreRow, DiskInv, NothingAfterTerminal
<1>2. NothingAfterTerminalIn(rows')
  BY <1>1, AppendedSeal
<1>3. Len(rows) < Len(rows') /\ rows = SubSeq(rows', 1, Len(rows))
  BY <1>1, AppendedRow
<1>4. QED
  BY <1>2, <1>3 DEF Log!Extend, Log!Sealed, Log!NothingAfterTerminalIn,
     Sealed, NothingAfterTerminalIn

LEMMA SpoilExtends ==
  ASSUME IInv, NEW v, NEW r \in Row, NEW n \in Nat, SpoilRow(v, r, n), ~Sealed(rows),
         manifest' = manifest
  PROVE  Log!Extend \/ (rows' = rows /\ manifest' = manifest)
  BY StoreExtends DEF SpoilRow

LEMMA AppendExtends ==
  ASSUME IInv, NEW p \in Processes, NEW r \in Row, NEW n \in Nat,
         AppendRow(p, r, n), manifest' = manifest
  PROVE  Log!Extend \/ (rows' = rows /\ manifest' = manifest)
<1>1. CASE GivesUp(p)
  BY <1>1 DEF GivesUp, StoreNothing
<1>2. CASE ~GivesUp(p)
  <2>1. /\ ~Sealed(rows)
        /\ \/ StoreNothing \/ StoreRow(view[p], r, n) \/ SpoilRow(view[p], r, n)
    BY <1>2, AppendOutcomes, AppendsToOpen DEF FailsOutsideTheWrite
  <2>2. QED
    BY <2>1, StoreExtends, SpoilExtends DEF StoreNothing
<1>3. QED
  BY <1>1, <1>2

LEMMA StepRefines == IInv /\ [Next]_vars => [Log!LogNext]_(Log!logVars)
<1> SUFFICES ASSUME IInv, [Next]_vars
             PROVE  Log!LogNext \/ (rows' = rows /\ manifest' = manifest)
  BY DEF Log!logVars
<1>1. ASSUME NEW p \in Processes, Open(p)
      PROVE  Log!Extend \/ (rows' = rows /\ manifest' = manifest)
  <2>1. PICK n \in RowBytes, r \in Row :
          StoreRow(Loaded, r, n) \/ SpoilRow(Loaded, r, n)
    BY <1>1, RowTypes DEF Open, PlainKinds
  <2>2. ~Sealed(rows) /\ manifest' = manifest
    BY <1>1 DEF Open, IInv, TypeOK, DiskInv, Sealed
  <2>3. QED
    BY <2>1, <2>2, StoreExtends, SpoilExtends, BytesAssumption
<1>2. ASSUME NEW p \in Processes, Record(p)
      PROVE  Log!Extend \/ (rows' = rows /\ manifest' = manifest)
  <2>1. PICK n \in RowBytes, r \in Row : AppendRow(p, r, n)
    BY <1>2, RowTypes, NativeAssumption DEF Record, PlainKinds
  <2>2. QED
    BY <1>2, <2>1, AppendExtends, BytesAssumption DEF Record
<1>3. ASSUME NEW p \in Processes, RawEvidence(p)
      PROVE  Log!Extend \/ (rows' = rows /\ manifest' = manifest)
  <2>1. PICK n \in RowBytes : AppendRow(p, PlainRow("raw"), n)
    BY <1>3 DEF RawEvidence
  <2>2. QED
    BY <1>3, <2>1, AppendExtends, RowTypes, BytesAssumption
       DEF RawEvidence, PlainKinds
<1>4. ASSUME NEW p \in Processes, Finish(p)
      PROVE  Log!Extend \/ (rows' = rows /\ manifest' = manifest)
  BY <1>4, AppendExtends, RowTypes, BytesAssumption DEF Finish, PlainKinds
<1>5. ASSUME NEW p \in Processes, Close(p)
      PROVE  rows' = rows /\ manifest' = manifest
  BY <1>5 DEF Close, disk
<1>6. CASE PublishManifest
  BY <1>6 DEF PublishManifest, Log!LogNext, Log!Publish, Log!Sealed, Sealed
<1>7. CASE UNCHANGED vars
  BY <1>7 DEF vars
<1>8. ASSUME NEW p \in Processes, BridgeReceipts(p)
      PROVE  rows' = rows /\ manifest' = manifest
  BY <1>8 DEF BridgeReceipts, GivesUp, StoreNothing
<1>9. QED
  BY <1>1, <1>2, <1>3, <1>4, <1>5, <1>6, <1>7, <1>8 DEF Next, Log!LogNext

(* A reader of the recording may forget segments, crashes, resumes and     *)
(* failed writes: every step of the journal is a step of SealedLog or      *)
(* none.                                                                   *)
THEOREM JournalIsSealedLog == Spec => ImplementsSealedLog
<1>1. Init => Log!LogInit
  BY DEF Init, Log!LogInit
<1>2. QED
  BY <1>1, Invariant, StepRefines, PTL DEF Spec, ImplementsSealedLog, Log!LogSpec

-----------------------------------------------------------------------------
(***************************************************************************)
(* A damaged tail stays: whoever can still append left none, and a journal *)
(* is opened only when it is intact.                                       *)
(***************************************************************************)

LEMMA NoAppendOverDamage ==
  ASSUME IInv, NEW p \in Processes, NEW r, NEW n, AppendRow(p, r, n)
  PROVE  ~torn
  BY AppendsToOpen

LEMMA StepKeepsDamage == IInv /\ [Next]_vars => [torn => UNCHANGED rows]_vars
<1> SUFFICES ASSUME IInv, [Next]_vars, torn
             PROVE  rows' = rows
  BY DEF vars
<1>1. ASSUME NEW p \in Processes, Open(p) PROVE FALSE
  BY <1>1 DEF Open, Intact, IInv, DiskInv, TypeOK
<1>2. ASSUME NEW p \in Processes, Record(p) PROVE FALSE
  BY <1>2, NoAppendOverDamage DEF Record
<1>3. ASSUME NEW p \in Processes, RawEvidence(p) PROVE FALSE
  BY <1>3, NoAppendOverDamage DEF RawEvidence
<1>4. ASSUME NEW p \in Processes, Finish(p) PROVE FALSE
  BY <1>4, NoAppendOverDamage DEF Finish
<1>5. ASSUME NEW p \in Processes, Close(p) PROVE rows' = rows
  BY <1>5 DEF Close, disk
<1>6. CASE PublishManifest
  BY <1>6 DEF PublishManifest
<1>7. CASE UNCHANGED vars
  BY <1>7 DEF vars
<1>8. ASSUME NEW p \in Processes, BridgeReceipts(p) PROVE rows' = rows
  BY <1>8 DEF BridgeReceipts, GivesUp, StoreNothing
<1>9. QED
  BY <1>1, <1>2, <1>3, <1>4, <1>5, <1>6, <1>7, <1>8 DEF Next

(* A process that holds the journal, whatever it survived and wherever its *)
(* appends failed, is the only one, believes what is on disk or misses a   *)
(* row of its own that stops it, has room to seal, and is well typed.      *)
THEOREM ViewsAreSound == Spec => []ViewIsSound
<1>1. QED
  BY TypeCorrect, OneWriter, ViewsAreRecoverable, TerminalAlwaysFits, PTL
     DEF ViewIsSound

(* Nothing that was recorded is ever rewritten: the journal implements the *)
(* sealed log, and a damaged one is left as it is.                         *)
THEOREM HistoryStays == Spec => HistoryIsKept
<1>1. Spec => DamageIsKept
  BY Invariant, StepKeepsDamage, PTL DEF Spec, DamageIsKept
<1>2. QED
  BY <1>1, JournalIsSealedLog DEF HistoryIsKept
(***************************************************************************)
(* FullGame: the runner of games.                                          *)
(***************************************************************************)

Obs == [toAct : Seats, over : BOOLEAN, digest : Nat]
Move == [seat : Seats, digest : Nat]
KindNames == {"ok", "unknown", "connection", "remote", "garbled", "broken", "incompatible",
              "session", "model", "contract", "record"}
StageNames == {"plan", "inspect", "before", "create", "observe", "seat_observe", "loop", "pilot",
               "record", "dispose", "postflight"}
Bad == {"technical_censored", "unsupported_decision", "pilot_failure", "engine_failure"}
Report == [stage : StageNames, qualification : Bad,
           domain : {"model", "pilot", "transport", "engine", "orchestration"}]
Early == {"plan", "inspect", "before", "create"}
Playing == {"observe", "loop", "pilot", "record", "reobserve"}
Ending == {"dispose", "list", "postflight", "write"}

(* The types of what the runner and the engine hold; an environment is     *)
(* numbered by the game it was made for.                                   *)
RunnerTypes ==
  /\ setup \in Setups /\ build \in Nat /\ game \in Nat \ {0}
  /\ DOMAIN envs \subseteq 1..game /\ envs \in [DOMAIN envs -> Obs]
  /\ played \in Seq(Move) /\ decisions \in Seq(Move)
  /\ stage \in Early \cup Playing \cup Ending \cup {"done"}
  /\ env \in {{}, {game}} /\ inspected \in Seq(Nat)
  /\ seen = {} \/ (seen = {Seen} /\ Seen \in Obs)
  /\ failures \in Seq(Report) /\ qualification \in Bad \cup {"valid_complete"}

(* What a stage says of the way that led to it.                            *)
PlaceOK ==
  /\ stage \in {"loop", "record"} => mode # "direct"
  /\ stage \in {"before", "reobserve"} => mode = "direct"
  /\ stage = "plan" => mode = "binding" /\ envs = <<>>
  /\ stage \in Early \cup Playing => failures = <<>> /\ qualification # "valid_complete"
  /\ stage \in Early => env = {} /\ game \notin DOMAIN envs /\ decisions = <<>> /\ played = <<>>
  /\ stage \in {"plan", "inspect"} => inspected = <<>>
  /\ stage \in {"before", "create"} \cup Playing => Len(inspected) = 1
  /\ stage \in Playing \cup {"dispose", "list"} => env = {game}
  /\ stage \in {"loop", "pilot", "record"} => seen # {}

(* While nothing has failed the records are the moves, but for the one on  *)
(* its way into the records, and what was seen is what the engine holds.   *)
MovesOK ==
  /\ failures = <<>> /\ stage # "record" => decisions = played
  /\ stage = "record" => played = Append(decisions, Choice)
  /\ stage \in {"loop", "pilot"} /\ game \in DOMAIN envs => seen = {envs[game]}
  /\ mode = "direct" /\ stage \in {"observe", "pilot"} => decisions = <<>>
  /\ mode = "direct" /\ stage = "reobserve" => Len(played) = 1
  /\ mode = "direct" /\ stage \in Ending /\ failures = <<>> => Len(played) = 1

(* What is known once the game is over, if nothing has failed.             *)
EndOK ==
  /\ stage \in Ending /\ failures = <<>> => env = {game}
  /\ stage \in {"postflight", "write"} /\ failures = <<>> => game \notin DOMAIN envs
  /\ stage \in {"dispose", "list", "postflight"} /\ failures = <<>> => Len(inspected) = 1
  /\ stage = "write" /\ failures = <<>> => Len(inspected) = 2 /\ inspected[1] = inspected[2]
  /\ mode = "session" /\ stage \in Ending /\ failures = <<>> => Acted = Seats
  /\ qualification = "valid_complete" => failures = <<>> /\ Terminal
  /\ ~Planned => stage \in {"write", "done"} /\ envs = <<>> /\ inspected = <<>> /\ mode = "binding"

RunnerInv == RunnerTypes /\ PlaceOK /\ MovesOK /\ EndOK

LEMMA TheOne ==
  ASSUME NEW x, NEW S, S = {x}
  PROVE  (CHOOSE e \in S : TRUE) = x
  OBVIOUS

(* A request that fails is of a kind with a name.                          *)
LEMMA KindsAreNames ==
  ASSUME NEW r, NEW c, NEW o \in Raises(r, c)
  PROVE  o.kind \in KindNames
<1>1. PICK a : o = [kind |-> KindOf(r, a), applied |-> a.applied]
  BY DEF Raises, Outcomes
<1>2. KindOf(r, a) \in KindNames
  BY DEF KindOf, KindNames
<1>3. QED
  BY <1>1, <1>2

LEMMA LookKindsAreNames ==
  ASSUME NEW kind \in LookKinds
  PROVE  kind \in KindNames
<1>1. CASE kind = "incompatible"
  BY <1>1 DEF KindNames
<1>2. CASE kind # "incompatible"
  <2>1. kind \in UNION {Kinds(r) : r \in Looks}
    BY <1>2 DEF LookKinds
  <2>2. PICK r \in Looks : kind \in Kinds(r)
    BY <2>1
  <2>3. QED
    BY <2>2, KindsAreNames DEF Kinds
<1>3. QED
  BY <1>1, <1>2

LEMMA FailureIsReport ==
  ASSUME NEW kind \in KindNames, NEW at \in StageNames
  PROVE  /\ Failure(kind, at) \in Report /\ Failure(kind, at).stage = at
         /\ QualificationOf(kind, at) \in Bad
<1>1. Domain(kind, at) \in {"model", "pilot", "transport", "engine", "orchestration"}
  BY DEF Domain
<1>2. QualificationOf(kind, at) \in Bad
  BY DEF QualificationOf, Classified, Bad
<1>3. QED
  BY <1>1, <1>2 DEF Failure, Report

LEMMA AppendedReport ==
  ASSUME NEW S, NEW s \in Seq(S), NEW x \in S
  PROVE  /\ Append(s, x) \in Seq(S) /\ Append(s, x) # <<>>
         /\ Append(s, x)[1] = IF s = <<>> THEN x ELSE s[1]
<1>1. Append(s, x) \in Seq(S) /\ Len(Append(s, x)) = Len(s) + 1 /\ Len(s) \in Nat
  OBVIOUS
<1>2. Append(s, x) # <<>>
  BY <1>1
<1>3. CASE s = <<>>
  BY <1>1, <1>2, <1>3
<1>4. CASE s # <<>>
  <2>1. Len(s) >= 1
    BY <1>4
  <2>2. QED
    BY <1>1, <1>2, <1>4, <2>1
<1>5. QED
  BY <1>3, <1>4

(* What a failure of the game leaves: the way out, with a report on it.    *)
LEMMA FailStep ==
  ASSUME RunnerInv, stage \in Early \cup Playing,
         NEW kind \in KindNames, NEW at \in StageNames \ {"plan"}, Fails(kind, at),
         UNCHANGED <<setup, game, env, seen, inspected>>,
         DOMAIN envs' \subseteq 1..game, envs' \in [DOMAIN envs' -> Obs],
         build' \in Nat, played' \in Seq(Move), decisions' \in Seq(Move)
  PROVE  RunnerInv'
<1>1. /\ failures' \in Seq(Report) /\ failures' # <<>> /\ failures'[1].stage = at
      /\ qualification' \in Bad
  BY FailureIsReport, AppendedReport DEF Fails, RunnerInv, RunnerTypes, PlaceOK
<1>2. /\ stage' \in {"dispose", "postflight", "write"}
      /\ stage' = "dispose" => env = {game}
  BY DEF Fails, AfterGame, RunnerInv, RunnerTypes
<1>3. Seen' = Seen
  BY DEF Seen
<1>4. RunnerTypes'
  BY <1>1, <1>2, <1>3 DEF RunnerInv, RunnerTypes, Ending, Bad
<1>5. PlaceOK'
  BY <1>1, <1>2 DEF PlaceOK, Early, Playing
<1>6. MovesOK'
  BY <1>1, <1>2 DEF MovesOK
<1>7. EndOK'
  BY <1>1, <1>2 DEF EndOK, Planned, Bad
<1>8. QED
  BY <1>4, <1>5, <1>6, <1>7 DEF RunnerInv

(* What a failure on the way out leaves.                                   *)
LEMMA CleanupStep ==
  ASSUME RunnerInv, stage \in {"dispose", "list", "postflight"}, stage' \in {"postflight", "write"},
         NEW kind \in KindNames, NEW at \in StageNames \ {"plan"}, CleanupFails(kind, at),
         UNCHANGED <<setup, game, env, seen, build, played, decisions>>, inspected' \in Seq(Nat),
         DOMAIN envs' \subseteq 1..game, envs' \in [DOMAIN envs' -> Obs]
  PROVE  RunnerInv'
<1>a. failures \in Seq(Report) /\ (failures # <<>> => failures[1].stage # "plan")
  BY DEF RunnerInv, RunnerTypes, EndOK, Planned
<1>b. failures' = Append(failures, Failure(kind, at))
  BY DEF CleanupFails
<1>1. /\ failures' \in Seq(Report) /\ failures' # <<>> /\ failures'[1].stage # "plan"
  BY <1>a, <1>b, FailureIsReport, AppendedReport
<1>2. qualification' = "technical_censored"
  BY DEF CleanupFails
<1>3. Seen' = Seen
  BY DEF Seen
<1>4. RunnerTypes'
  BY <1>1, <1>2, <1>3 DEF RunnerInv, RunnerTypes, Ending, Bad
<1>5. PlaceOK'
  BY <1>1 DEF PlaceOK, Early, Playing
<1>6. MovesOK'
  BY <1>1 DEF MovesOK
<1>7. EndOK'
  BY <1>1, <1>2 DEF EndOK, Planned, Bad
<1>8. QED
  BY <1>4, <1>5, <1>6, <1>7 DEF RunnerInv

(***************************************************************************)
(* The steps that fail the game, and those that take it on.                *)
(***************************************************************************)

LEMMA EnvHolds ==
  ASSUME RunnerTypes, env # {}
  PROVE  Env = game
<1>1. env = {game}
  BY DEF RunnerTypes
<1>2. QED
  BY <1>1, TheOne DEF Env

(* An environment made, changed or given up is still of its kind.          *)
LEMMA NewEnvKeeps ==
  ASSUME RunnerTypes, NewEnv(game)
  PROVE  /\ DOMAIN envs' = DOMAIN envs \cup {game} /\ envs' \in [DOMAIN envs' -> Obs]
         /\ build' = build /\ played' = played
<1>1. PICK s \in Seats : envs' = [x \in DOMAIN envs \cup {game} |->
                                    IF x = game THEN [toAct |-> s, over |-> FALSE, digest |-> 0] ELSE envs[x]]
  BY DEF NewEnv
<1>2. [toAct |-> s, over |-> FALSE, digest |-> 0] \in Obs
  BY DEF Obs
<1>3. DOMAIN envs' = DOMAIN envs \cup {game}
  BY <1>1
<1>4. \A x \in DOMAIN envs' : envs'[x] \in Obs
  BY <1>1, <1>2, <1>3 DEF RunnerTypes
<1>5. envs' \in [DOMAIN envs' -> Obs]
  BY <1>1, <1>3, <1>4
<1>6. QED
  BY <1>3, <1>5 DEF NewEnv

LEMMA AppliedKeeps ==
  ASSUME RunnerTypes, Known, Applied
  PROVE  /\ DOMAIN envs' = DOMAIN envs /\ envs' \in [DOMAIN envs' -> Obs] /\ build' = build
         /\ played' = Append(played, [seat |-> envs[game].toAct, digest |-> envs[game].digest])
         /\ played' \in Seq(Move)
<1>1. Env = game /\ game \in DOMAIN envs /\ envs[game] \in Obs
  BY EnvHolds DEF Known, RunnerTypes
<1>2. PICK s \in Seats, over \in BOOLEAN, same \in BOOLEAN :
        /\ envs' = [envs EXCEPT ![game] = [toAct |-> s, over |-> over,
                                           digest |-> @.digest + (IF same THEN 0 ELSE 1)]]
        /\ played' = Append(played, [seat |-> envs[game].toAct, digest |-> envs[game].digest])
        /\ build' = build
  BY <1>1 DEF Applied
<1>3. PICK o : o = [toAct |-> s, over |-> over, digest |-> envs[game].digest + (IF same THEN 0 ELSE 1)]
  OBVIOUS
<1>4. o \in Obs
  BY <1>1, <1>3 DEF Obs
<1>5. envs' = [envs EXCEPT ![game] = o]
  BY <1>2, <1>3
<1>6. DOMAIN envs' = DOMAIN envs /\ envs' \in [DOMAIN envs' -> Obs]
  BY <1>1, <1>4, <1>5 DEF RunnerTypes
<1>7. [seat |-> envs[game].toAct, digest |-> envs[game].digest] \in Move
  BY <1>1 DEF Obs, Move
<1>8. QED
  BY <1>2, <1>6, <1>7 DEF RunnerTypes

LEMMA WithoutKeeps ==
  ASSUME RunnerTypes, env # {}, envs' = Without(Env)
  PROVE  /\ DOMAIN envs' = DOMAIN envs \ {game} /\ envs' \in [DOMAIN envs' -> Obs]
<1>1. envs' = [x \in DOMAIN envs \ {game} |-> envs[x]]
  BY EnvHolds DEF Without
<1>2. QED
  BY <1>1 DEF RunnerTypes

LEMMA NoEnvs == DOMAIN <<>> = {} /\ \A S : <<>> \in [{} -> S]
  OBVIOUS

(* Each action that can fail the game, with its report.                    *)
LEMMA InitHolds == RunnerInit => RunnerInv
<1> SUFFICES ASSUME RunnerInit PROVE RunnerInv
  OBVIOUS
<1>1. RunnerTypes
  <2>1. DOMAIN envs = {} /\ envs \in [DOMAIN envs -> Obs]
    BY NoEnvs DEF RunnerInit
  <2>2. QED
    BY <2>1 DEF RunnerInit, RunnerTypes, Early, Bad
<1>2. QED
  BY <1>1, NoEnvs DEF RunnerInit, RunnerInv, PlaceOK, MovesOK, EndOK, Planned, Early, Playing, Ending

LEMMA PlanStep == RunnerInv /\ Plan => RunnerInv'
<1> SUFFICES ASSUME RunnerInv, Plan PROVE RunnerInv'
  OBVIOUS
<1>1. /\ stage = "plan" /\ mode = "binding" /\ env = {} /\ inspected = <<>> /\ envs = <<>> /\ failures = <<>>
      /\ UNCHANGED <<setup, game, build, envs, played, env, inspected, seen, decisions>>
  BY DEF Plan, RunnerInv, PlaceOK, Early, control, engine
<1>2. Seen' = Seen /\ mode' = mode
  BY <1>1 DEF Seen, mode
<1>3. CASE stage' = "inspect" /\ UNCHANGED <<failures, qualification>>
  <2>1. RunnerTypes'
    BY <1>1, <1>2, <1>3 DEF RunnerInv, RunnerTypes, Early
  <2>2. QED
    BY <1>1, <1>2, <1>3, <2>1 DEF RunnerInv, PlaceOK, MovesOK, EndOK, Planned, Early, Playing, Ending
<1>4. CASE Fails("session", "plan")
  <2>1. /\ failures' \in Seq(Report) /\ failures' # <<>>
        /\ qualification' \in Bad
    BY <1>1, <1>4, FailureIsReport, AppendedReport DEF Fails, RunnerInv, RunnerTypes, KindNames, StageNames
  <2>2. stage' = "write"
    BY <1>1, <1>4 DEF Fails, AfterGame
  <2>3. RunnerTypes'
    BY <1>1, <1>2, <2>1, <2>2 DEF RunnerInv, RunnerTypes, Ending
  <2>4. PlaceOK'
    BY <2>2 DEF PlaceOK, Early, Playing
  <2>5. MovesOK'
    BY <2>1, <2>2 DEF MovesOK
  <2>6. EndOK'
    BY <1>1, <1>2, <2>1, <2>2 DEF EndOK, Bad
  <2>7. QED
    BY <2>3, <2>4, <2>5, <2>6 DEF RunnerInv
<1>5. QED
  BY <1>3, <1>4 DEF Plan

(* A failure while the engine and the records rest.                        *)
LEMMA RestingFailStep ==
  ASSUME RunnerInv, stage \in Early \cup Playing,
         NEW kind \in KindNames, NEW at \in StageNames \ {"plan"}, Fails(kind, at),
         UNCHANGED <<setup, game, env, seen, inspected, envs, build, played, decisions>>
  PROVE  RunnerInv'
  BY FailStep DEF RunnerInv, RunnerTypes

LEMMA InspectStep == RunnerInv /\ Inspect => RunnerInv'
<1> SUFFICES ASSUME RunnerInv, Inspect PROVE RunnerInv'
  OBVIOUS
<1>1. /\ stage = "inspect" /\ env = {} /\ inspected = <<>> /\ failures = <<>>
      /\ game \notin DOMAIN envs /\ decisions = <<>> /\ played = <<>> /\ qualification # "valid_complete"
      /\ UNCHANGED <<setup, game, build, envs, played, env, seen, decisions>>
  BY DEF Inspect, RunnerInv, PlaceOK, Early, control, engine
<1>2. Seen' = Seen /\ mode' = mode
  BY <1>1 DEF Seen, mode
<1>3. CASE /\ inspected' = Append(inspected, build)
           /\ stage' = (IF mode = "direct" THEN "before" ELSE "create")
           /\ UNCHANGED <<failures, qualification, faults>>
  <2>1. inspected' \in Seq(Nat) /\ Len(inspected') = 1
    BY <1>1, <1>3 DEF RunnerInv, RunnerTypes
  <2>2. RunnerTypes'
    BY <1>1, <1>2, <1>3, <2>1 DEF RunnerInv, RunnerTypes, Early
  <2>3. PlaceOK'
    BY <1>1, <1>2, <1>3, <2>1 DEF PlaceOK, Early, Playing
  <2>4. MovesOK' /\ EndOK'
    BY <1>1, <1>2, <1>3 DEF MovesOK, EndOK, Planned, Ending
  <2>5. QED
    BY <2>2, <2>3, <2>4 DEF RunnerInv
<1>4. CASE \E kind \in LookKinds : Fails(kind, "inspect") /\ inspected' = inspected
  BY <1>1, <1>4, RestingFailStep, LookKindsAreNames DEF StageNames, Early
<1>5. QED
  BY <1>3, <1>4 DEF Inspect

LEMMA ListBeforeStep == RunnerInv /\ ListBefore => RunnerInv'
<1> SUFFICES ASSUME RunnerInv, ListBefore PROVE RunnerInv'
  OBVIOUS
<1>1. /\ stage = "before"
      /\ UNCHANGED <<setup, game, build, envs, played, env, inspected, seen, decisions>>
  BY DEF ListBefore, control, engine
<1>2. Seen' = Seen /\ mode' = mode
  BY <1>1 DEF Seen, mode
<1>3. CASE stage' = "create" /\ UNCHANGED <<failures, qualification, faults>>
  BY <1>1, <1>2, <1>3 DEF RunnerInv, RunnerTypes, PlaceOK, MovesOK, EndOK, Planned, Early, Playing, Ending, Terminal
<1>4. CASE \E kind \in Kinds(ListEnvs) : Fails(kind, "before")
  BY <1>1, <1>4, RestingFailStep, KindsAreNames DEF Kinds, StageNames, Early
<1>5. QED
  BY <1>3, <1>4 DEF ListBefore

LEMMA CreateStep == RunnerInv /\ Create => RunnerInv'
<1> SUFFICES ASSUME RunnerInv, Create PROVE RunnerInv'
  OBVIOUS
<1>1. /\ stage = "create" /\ env = {} /\ failures = <<>> /\ decisions = <<>> /\ played = <<>>
      /\ qualification # "valid_complete" /\ Len(inspected) = 1
      /\ NewEnv(game) /\ env' = {game} /\ stage' = "observe"
      /\ UNCHANGED <<setup, game, inspected, seen, decisions, failures, qualification>>
  BY DEF Create, RunnerInv, PlaceOK, Early, control, outcome
<1>2. Seen' = Seen /\ mode' = mode
  BY <1>1 DEF Seen, mode
<1>3. /\ DOMAIN envs' \subseteq 1..game /\ envs' \in [DOMAIN envs' -> Obs]
      /\ build' = build /\ played' = played
  BY <1>1, NewEnvKeeps DEF RunnerInv, RunnerTypes
<1>4. RunnerTypes'
  BY <1>1, <1>2, <1>3 DEF RunnerInv, RunnerTypes, Playing
<1>5. PlaceOK'
  BY <1>1, <1>2 DEF PlaceOK, Early, Playing
<1>6. MovesOK' /\ EndOK'
  BY <1>1, <1>2, <1>3 DEF MovesOK, EndOK, Planned, Ending
<1>7. QED
  BY <1>4, <1>5, <1>6 DEF RunnerInv

LEMMA CreateFailsStep == RunnerInv /\ CreateFails => RunnerInv'
<1> SUFFICES ASSUME RunnerInv, CreateFails PROVE RunnerInv'
  OBVIOUS
<1>1. /\ stage = "create"
      /\ UNCHANGED <<setup, game, env, inspected, seen, decisions>>
  BY DEF CreateFails, control
<1>2. PICK o \in Raises(CreateEnv, client) \cup Rejected :
        /\ IF o.applied THEN NewEnv(game) ELSE UNCHANGED engine
        /\ Fails(o.kind, "create")
  BY DEF CreateFails
<1>3. /\ DOMAIN envs' \subseteq 1..game /\ envs' \in [DOMAIN envs' -> Obs]
      /\ build' = build /\ played' = played
  BY <1>2, NewEnvKeeps DEF RunnerInv, RunnerTypes, engine
<1>4. o.kind \in KindNames
  BY KindsAreNames DEF Rejected, KindNames
<1>5. QED
  BY <1>1, <1>2, <1>3, <1>4, FailStep DEF RunnerInv, RunnerTypes, StageNames, Early

LEMMA ObserveStep == RunnerInv /\ Observe => RunnerInv'
<1> SUFFICES ASSUME RunnerInv, Observe PROVE RunnerInv'
  OBVIOUS
<1>1. /\ stage = "observe" /\ Known
      /\ seen' = {envs[Env]} /\ stage' = IF mode = "direct" THEN "pilot" ELSE "loop"
      /\ UNCHANGED <<setup, game, build, envs, played, env, inspected, decisions, failures, qualification>>
  BY DEF Observe, control, engine, outcome
<1>2. env = {game} /\ Env = game /\ game \in DOMAIN envs /\ envs[game] \in Obs
  BY <1>1, EnvHolds DEF RunnerInv, RunnerTypes, PlaceOK, Playing, Known
<1>3. seen' = {envs[game]} /\ Seen' = envs[game] /\ mode' = mode
  BY <1>1, <1>2, TheOne DEF Seen, mode
<1>4. failures = <<>> /\ qualification # "valid_complete" /\ Len(inspected) = 1 /\ decisions = played
  BY <1>1 DEF RunnerInv, PlaceOK, MovesOK, Playing
<1>5. RunnerTypes'
  BY <1>1, <1>2, <1>3 DEF RunnerInv, RunnerTypes, Playing
<1>6. PlaceOK'
  BY <1>1, <1>2, <1>3, <1>4 DEF PlaceOK, Early, Playing
<1>7. MovesOK'
  BY <1>1, <1>2, <1>3, <1>4 DEF RunnerInv, MovesOK, Ending
<1>8. EndOK'
  BY <1>1, <1>4 DEF EndOK, Planned, Ending
<1>9. QED
  BY <1>5, <1>6, <1>7, <1>8 DEF RunnerInv

LEMMA ReadFailsStep == RunnerInv /\ ReadFails => RunnerInv'
<1> SUFFICES ASSUME RunnerInv, ReadFails PROVE RunnerInv'
  OBVIOUS
<1> DEFINE at == IF stage = "loop" THEN "seat_observe" ELSE "observe"
           r == IF stage = "loop" THEN ObserveSeat ELSE ObserveEnv
<1>1. IF Known THEN \E kind \in Kinds(r) \cup (IF stage = "loop" THEN {"session"} ELSE {}) : Fails(kind, at)
      ELSE Fails("remote", at)
  BY DEF ReadFails
<1>2. /\ stage \in Playing
      /\ UNCHANGED <<setup, game, env, seen, inspected, envs, build, played, decisions>>
  BY DEF ReadFails, Playing, control, engine
<1>3. PICK kind : kind \in Kinds(r) \cup {"session", "remote"} /\ Fails(kind, at)
  BY <1>1
<1>4. kind \in KindNames
  BY <1>3, KindsAreNames DEF Kinds, KindNames
<1>5. at \in StageNames \ {"plan"}
  BY DEF StageNames
<1> HIDE DEF at
<1>6. QED
  BY <1>2, <1>3, <1>4, <1>5, RestingFailStep

LEMMA LoopEndsStep == RunnerInv /\ LoopEnds => RunnerInv'
<1> SUFFICES ASSUME RunnerInv, LoopEnds PROVE RunnerInv'
  OBVIOUS
<1>1. /\ stage = "loop"
      /\ UNCHANGED <<setup, game, build, envs, played, env, inspected, seen, decisions>>
  BY DEF LoopEnds, control, engine
<1>2. /\ failures = <<>> /\ Len(inspected) = 1 /\ decisions = played /\ mode # "direct"
      /\ env = {game} /\ seen # {}
  BY <1>1 DEF RunnerInv, PlaceOK, MovesOK, Playing
<1>3. Seen' = Seen /\ mode' = mode /\ Acted' = Acted
  BY <1>1 DEF Seen, mode, Acted
<1>4. CASE Fails("session", "loop")
  BY <1>1, <1>4, RestingFailStep DEF StageNames, KindNames, Playing
<1>5. CASE /\ ~(mode = "session" /\ Acted # Seats)
           /\ qualification' = IF Seen.over THEN "valid_complete" ELSE "technical_censored"
           /\ stage' = "dispose" /\ failures' = failures
  <2>1. RunnerTypes'
    BY <1>1, <1>3, <1>5 DEF RunnerInv, RunnerTypes, Ending, Bad
  <2>2. PlaceOK'
    BY <1>1, <1>2, <1>5 DEF PlaceOK, Early, Playing
  <2>3. MovesOK'
    BY <1>1, <1>2, <1>3, <1>5 DEF MovesOK, Ending
  <2>4. EndOK'
    BY <1>1, <1>2, <1>3, <1>5 DEF EndOK, Planned, Terminal, Ending
  <2>5. QED
    BY <2>1, <2>2, <2>3, <2>4 DEF RunnerInv
<1>6. QED
  BY <1>4, <1>5 DEF LoopEnds

(* A turn begins: nothing changes but the stage.                           *)
LEMMA TurnStep ==
  ASSUME RunnerInv, stage = "loop", stage' = "pilot",
         UNCHANGED <<setup, game, build, envs, played, env, inspected, seen, decisions,
                     failures, qualification>>
  PROVE  RunnerInv'
<1>1. Seen' = Seen /\ mode' = mode /\ Choice' = Choice
  BY DEF Seen, mode, Choice
<1>2. RunnerTypes'
  BY <1>1 DEF RunnerInv, RunnerTypes, Playing
<1>3. PlaceOK'
  BY <1>1 DEF RunnerInv, PlaceOK, Early, Playing
<1>4. MovesOK'
  BY <1>1 DEF RunnerInv, PlaceOK, MovesOK, Ending
<1>5. EndOK'
  BY <1>1 DEF RunnerInv, EndOK, PlaceOK, Playing, Planned, Terminal, Ending
<1>6. QED
  BY <1>2, <1>3, <1>4, <1>5 DEF RunnerInv

LEMMA SeatObserveStep == RunnerInv /\ SeatObserve => RunnerInv'
  BY TurnStep DEF SeatObserve, control, engine, outcome

LEMMA SessionTurnStep == RunnerInv /\ SessionTurn => RunnerInv'
<1> SUFFICES ASSUME RunnerInv, SessionTurn PROVE RunnerInv'
  OBVIOUS
<1>1. /\ stage = "loop"
      /\ UNCHANGED <<setup, game, build, envs, played, env, inspected, seen, decisions>>
  BY DEF SessionTurn, control, engine
<1>2. CASE stage' = "pilot" /\ UNCHANGED <<failures, qualification, faults>>
  BY <1>1, <1>2, TurnStep
<1>3. CASE Fails("session", "loop")
  BY <1>1, <1>3, RestingFailStep DEF StageNames, KindNames, Playing
<1>4. QED
  BY <1>2, <1>3 DEF SessionTurn

LEMMA RosterFailsStep == RunnerInv /\ RosterFails => RunnerInv'
  BY RestingFailStep DEF RosterFails, control, engine, StageNames, KindNames, Playing

LEMMA PilotFailsStep == RunnerInv /\ PilotFails => RunnerInv'
  BY RestingFailStep DEF PilotFails, control, engine, StageNames, KindNames, Playing

LEMMA ChooseFailsStep == RunnerInv /\ ChooseFails => RunnerInv'
  BY RestingFailStep DEF ChooseFails, control, engine, StageNames, KindNames, Playing

LEMMA RecordFailsStep == RunnerInv /\ RecordFails => RunnerInv'
  BY RestingFailStep DEF RecordFails, control, engine, StageNames, KindNames, Playing

(* A move is applied in the environment, and it is the one chosen on what  *)
(* was seen.                                                               *)
LEMMA MoveIsChoice ==
  ASSUME RunnerInv, stage = "pilot", Known, Applied
  PROVE  /\ played' = Append(decisions, Choice) /\ Choice \in Move
         /\ decisions = played /\ seen = {envs[Env]} /\ failures = <<>>
<1>1. env = {game} /\ Env = game /\ game \in DOMAIN envs /\ envs[game] \in Obs
  BY EnvHolds DEF RunnerInv, RunnerTypes, PlaceOK, Playing, Known
<1>2. seen = {envs[game]} /\ decisions = played /\ failures = <<>>
  BY <1>1 DEF RunnerInv, PlaceOK, MovesOK, Playing
<1>3. Seen = envs[game]
  BY <1>2, TheOne DEF Seen
<1>4. Choice = [seat |-> envs[game].toAct, digest |-> envs[game].digest] /\ Choice \in Move
  BY <1>1, <1>3 DEF Choice, Obs, Move
<1>5. QED
  BY <1>1, <1>2, <1>4, AppliedKeeps DEF RunnerInv

LEMMA SubmitStep == RunnerInv /\ Submit => RunnerInv'
<1> SUFFICES ASSUME RunnerInv, Submit PROVE RunnerInv'
  OBVIOUS
<1>1. /\ stage = "pilot" /\ mode # "direct" /\ Known /\ Applied /\ stage' = "record"
      /\ UNCHANGED <<setup, game, env, inspected, seen, decisions, failures, qualification>>
  BY DEF Submit, control, outcome
<1>2. Seen' = Seen /\ mode' = mode /\ Choice' = Choice
  BY <1>1 DEF Seen, mode, Choice
<1>3. played' = Append(decisions, Choice)
  BY <1>1, MoveIsChoice
<1>4. /\ DOMAIN envs' = DOMAIN envs /\ envs' \in [DOMAIN envs' -> Obs]
      /\ build' = build /\ played' \in Seq(Move)
  BY <1>1, AppliedKeeps DEF RunnerInv
<1>5. RunnerTypes'
  BY <1>1, <1>2, <1>4 DEF RunnerInv, RunnerTypes, Playing
<1>6. PlaceOK'
  BY <1>1, <1>2 DEF RunnerInv, PlaceOK, Early, Playing
<1>7. MovesOK'
  BY <1>1, <1>2, <1>3 DEF MovesOK, Ending
<1>8. EndOK'
  BY <1>1 DEF RunnerInv, PlaceOK, EndOK, Planned, Ending, Playing
<1>9. QED
  BY <1>5, <1>6, <1>7, <1>8 DEF RunnerInv

LEMMA SubmitFailsStep == RunnerInv /\ SubmitFails => RunnerInv'
<1> SUFFICES ASSUME RunnerInv, SubmitFails PROVE RunnerInv'
  OBVIOUS
<1>1. /\ stage = "pilot" /\ UNCHANGED <<setup, game, env, inspected, seen, decisions>>
  BY DEF SubmitFails, control
<1>2. CASE Known /\ Fault /\ \E r \in {StepEnv, SubmitDecision} : \E o \in Raises(r, client) :
             (IF o.applied THEN Applied ELSE UNCHANGED engine) /\ Fails(o.kind, "pilot")
  <2>1. PICK r \in {StepEnv, SubmitDecision} : \E o \in Raises(r, client) :
             (IF o.applied THEN Applied ELSE UNCHANGED engine) /\ Fails(o.kind, "pilot")
    BY <1>2
  <2>2. PICK o \in Raises(r, client) :
             (IF o.applied THEN Applied ELSE UNCHANGED engine) /\ Fails(o.kind, "pilot")
    BY <2>1
  <2>3. o.kind \in KindNames
    BY KindsAreNames
  <2>4. /\ DOMAIN envs' \subseteq 1..game /\ envs' \in [DOMAIN envs' -> Obs]
        /\ build' = build /\ played' \in Seq(Move)
    BY <1>2, <2>2, AppliedKeeps DEF RunnerInv, RunnerTypes, engine
  <2>5. QED
    BY <1>1, <2>2, <2>3, <2>4, FailStep DEF RunnerInv, RunnerTypes, StageNames, Playing
<1>3. CASE ~Known /\ UNCHANGED <<engine, faults>> /\ Fails("remote", "pilot")
  BY <1>1, <1>3, RestingFailStep DEF engine, StageNames, KindNames, Playing
<1>4. QED
  BY <1>2, <1>3 DEF SubmitFails

LEMMA SubmitOneStep == RunnerInv /\ SubmitOne => RunnerInv'
<1> SUFFICES ASSUME RunnerInv, SubmitOne PROVE RunnerInv'
  OBVIOUS
<1>1. /\ stage = "pilot" /\ mode = "direct" /\ Known /\ Applied /\ stage' = "reobserve"
      /\ decisions' = Append(decisions, Choice)
      /\ UNCHANGED <<setup, game, env, inspected, seen, failures, qualification>>
  BY DEF SubmitOne, control, outcome
<1>2. Seen' = Seen /\ mode' = mode
  BY <1>1 DEF Seen, mode
<1>3. played' = decisions' /\ decisions = <<>>
  BY <1>1, MoveIsChoice DEF RunnerInv, MovesOK
<1>4. /\ DOMAIN envs' = DOMAIN envs /\ envs' \in [DOMAIN envs' -> Obs]
      /\ build' = build /\ played' \in Seq(Move)
  BY <1>1, AppliedKeeps DEF RunnerInv
<1>5. Len(played') = 1
  BY <1>1, <1>3, MoveIsChoice
<1>6. RunnerTypes'
  BY <1>1, <1>2, <1>3, <1>4 DEF RunnerInv, RunnerTypes, Playing
<1>7. PlaceOK'
  BY <1>1, <1>2 DEF RunnerInv, PlaceOK, Early, Playing
<1>8. MovesOK'
  BY <1>1, <1>2, <1>3, <1>5 DEF MovesOK, Ending
<1>9. EndOK'
  BY <1>1 DEF RunnerInv, PlaceOK, EndOK, Planned, Ending, Playing
<1>10. QED
  BY <1>6, <1>7, <1>8, <1>9 DEF RunnerInv

LEMMA ReobserveStep == RunnerInv /\ Reobserve => RunnerInv'
<1> SUFFICES ASSUME RunnerInv, Reobserve PROVE RunnerInv'
  OBVIOUS
<1>1. /\ stage = "reobserve" /\ Known
      /\ seen' = {envs[Env]} /\ stage' = "dispose"
      /\ UNCHANGED <<setup, game, build, envs, played, env, inspected, decisions, failures, qualification>>
  BY DEF Reobserve, control, engine, outcome
<1>2. env = {game} /\ Env = game /\ game \in DOMAIN envs /\ envs[game] \in Obs /\ mode = "direct"
  BY <1>1, EnvHolds DEF RunnerInv, RunnerTypes, PlaceOK, Playing, Known
<1>3. seen' = {envs[game]} /\ Seen' = envs[game] /\ mode' = mode
  BY <1>1, <1>2, TheOne DEF Seen, mode
<1>4. failures = <<>> /\ qualification # "valid_complete" /\ Len(inspected) = 1 /\ decisions = played
      /\ Len(played) = 1
  BY <1>1, <1>2 DEF RunnerInv, PlaceOK, MovesOK, Playing
<1>5. RunnerTypes'
  BY <1>1, <1>2, <1>3 DEF RunnerInv, RunnerTypes, Ending
<1>6. PlaceOK'
  BY <1>1, <1>2, <1>4 DEF PlaceOK, Early, Playing
<1>7. MovesOK'
  BY <1>1, <1>3, <1>4 DEF MovesOK, Ending
<1>8. EndOK'
  BY <1>1, <1>2, <1>3, <1>4 DEF EndOK, Planned, Ending
<1>9. QED
  BY <1>5, <1>6, <1>7, <1>8 DEF RunnerInv

LEMMA RecordChoiceStep == RunnerInv /\ RecordChoice => RunnerInv'
<1> SUFFICES ASSUME RunnerInv, RecordChoice PROVE RunnerInv'
  OBVIOUS
<1>1. /\ stage = "record" /\ decisions' = Append(decisions, Choice)
      /\ UNCHANGED <<setup, game, build, envs, played, env, inspected>>
  BY DEF RecordChoice, control, engine
<1>2. /\ env = {game} /\ Env = game /\ seen = {Seen} /\ Seen \in Obs /\ mode # "direct" /\ failures = <<>>
      /\ qualification # "valid_complete" /\ Len(inspected) = 1 /\ played = Append(decisions, Choice)
  BY <1>1, EnvHolds DEF RunnerInv, RunnerTypes, PlaceOK, MovesOK, Playing
<1>3. Choice \in Move /\ decisions' \in Seq(Move) /\ mode' = mode /\ decisions' = played
  BY <1>1, <1>2 DEF RunnerInv, RunnerTypes, Choice, Obs, Move, mode
<1>4. CASE Fails("session", "record") /\ UNCHANGED <<seen, choices>>
  BY <1>1, <1>3, <1>4, FailStep DEF RunnerInv, RunnerTypes, StageNames, KindNames, Playing
<1>5. CASE /\ \E o \in IF Known THEN {envs[Env]} ELSE {[Seen EXCEPT !.over = b] : b \in BOOLEAN} : seen' = {o}
           /\ stage' = "loop" /\ UNCHANGED <<failures, qualification>>
  <2>1. PICK o \in IF Known THEN {envs[Env]} ELSE {[Seen EXCEPT !.over = b] : b \in BOOLEAN} : seen' = {o}
    BY <1>5
  <2>2. o \in Obs
    <3>1. CASE Known
      BY <1>2, <2>1, <3>1 DEF Known, RunnerInv, RunnerTypes
    <3>2. CASE ~Known
      <4>1. PICK b \in BOOLEAN : o = [Seen EXCEPT !.over = b]
        BY <2>1, <3>2
      <4>2. QED
        BY <1>2, <4>1 DEF Obs
    <3>3. QED
      BY <3>1, <3>2
  <2>3. seen' = {o} /\ Seen' = o
    BY <2>1, TheOne DEF Seen
  <2>4. game \in DOMAIN envs => seen' = {envs[game]}
    BY <1>2, <2>1 DEF Known
  <2>5. RunnerTypes'
    BY <1>1, <1>3, <1>5, <2>2, <2>3 DEF RunnerInv, RunnerTypes, Playing
  <2>6. PlaceOK'
    BY <1>1, <1>2, <1>3, <1>5, <2>3 DEF PlaceOK, Early, Playing
  <2>7. MovesOK'
    BY <1>1, <1>2, <1>3, <1>5, <2>4 DEF MovesOK, Ending
  <2>8. EndOK'
    BY <1>1, <1>2, <1>5 DEF EndOK, Planned, Ending
  <2>9. QED
    BY <2>5, <2>6, <2>7, <2>8 DEF RunnerInv
<1>6. QED
  BY <1>4, <1>5 DEF RecordChoice

(***************************************************************************)
(* The way out.                                                            *)
(***************************************************************************)

(* What is disposed of is gone from the engine's environments or not.      *)
LEMMA DisposeStep == RunnerInv /\ Dispose => RunnerInv'
<1> SUFFICES ASSUME RunnerInv, Dispose PROVE RunnerInv'
  OBVIOUS
<1>1. /\ stage = "dispose" /\ stage' = "list"
      /\ envs' = Without(Env) \/ envs' = envs
      /\ UNCHANGED <<setup, game, build, played, env, inspected, seen, decisions, failures, qualification>>
  BY DEF Dispose, control, outcome
<1>2. Seen' = Seen /\ mode' = mode /\ Acted' = Acted
  BY <1>1 DEF Seen, mode, Acted
<1>3. env = {game}
  BY <1>1 DEF RunnerInv, PlaceOK
<1>4. DOMAIN envs' \subseteq 1..game /\ envs' \in [DOMAIN envs' -> Obs]
  BY <1>1, <1>3, WithoutKeeps DEF RunnerInv, RunnerTypes
<1>5. RunnerTypes'
  BY <1>1, <1>2, <1>4 DEF RunnerInv, RunnerTypes, Ending
<1>6. PlaceOK'
  BY <1>1, <1>3 DEF PlaceOK, Early, Playing
<1>7. MovesOK'
  BY <1>1, <1>2 DEF RunnerInv, MovesOK, Ending
<1>8. EndOK'
  BY <1>1, <1>2, <1>3 DEF RunnerInv, EndOK, Planned, Terminal, Ending
<1>9. QED
  BY <1>5, <1>6, <1>7, <1>8 DEF RunnerInv

LEMMA DisposeFailsStep == RunnerInv /\ DisposeFails => RunnerInv'
<1> SUFFICES ASSUME RunnerInv, DisposeFails PROVE RunnerInv'
  OBVIOUS
<1>1. /\ stage = "dispose" /\ stage' \in {"postflight", "write"}
      /\ UNCHANGED <<setup, game, build, played, env, inspected, seen, decisions>>
  BY DEF DisposeFails, AfterCleanup, control
<1>2. PICK o \in Raises(DisposeEnvs, client) :
        /\ envs' = IF o.applied THEN Without(Env) ELSE envs
        /\ CleanupFails(o.kind, "dispose")
  BY DEF DisposeFails
<1>3. o.kind \in KindNames
  BY KindsAreNames
<1>4. env # {}
  BY <1>1 DEF RunnerInv, PlaceOK
<1>5. DOMAIN envs' \subseteq 1..game /\ envs' \in [DOMAIN envs' -> Obs]
  BY <1>2, <1>4, WithoutKeeps DEF RunnerInv, RunnerTypes
<1>6. inspected' \in Seq(Nat)
  BY <1>1 DEF RunnerInv, RunnerTypes
<1>7. QED
  BY <1>1, <1>2, <1>3, <1>5, <1>6, CleanupStep DEF StageNames

LEMMA ListStep == RunnerInv /\ List => RunnerInv'
<1> SUFFICES ASSUME RunnerInv, List PROVE RunnerInv'
  OBVIOUS
<1>1. /\ stage = "list" /\ stage' = AfterCleanup(failures' = <<>>)
      /\ UNCHANGED <<setup, game, build, envs, played, env, inspected, seen, decisions>>
  BY DEF List, control, engine
<1>2. stage' \in {"postflight", "write"} /\ (failures' = <<>> => stage' = "postflight")
  BY <1>1 DEF AfterCleanup
<1>3. inspected' \in Seq(Nat) /\ DOMAIN envs' \subseteq 1..game /\ envs' \in [DOMAIN envs' -> Obs]
  BY <1>1 DEF RunnerInv, RunnerTypes
<1>4. CASE \E kind \in KindNames : CleanupFails(kind, "dispose")
  BY <1>1, <1>2, <1>3, <1>4, CleanupStep DEF StageNames
<1>5. CASE ~Known /\ UNCHANGED <<failures, qualification>>
  <2>1. env = {game} /\ game \notin DOMAIN envs
    BY <1>1, <1>5, EnvHolds DEF RunnerInv, PlaceOK, Known
  <2>2. Seen' = Seen /\ mode' = mode /\ Acted' = Acted
    BY <1>1 DEF Seen, mode, Acted
  <2>3. RunnerTypes'
    BY <1>1, <1>2, <1>5, <2>2 DEF RunnerInv, RunnerTypes, Ending
  <2>4. PlaceOK'
    BY <1>2 DEF PlaceOK, Early, Playing
  <2>5. MovesOK'
    BY <1>1, <1>2, <1>5, <2>2 DEF RunnerInv, MovesOK, Ending
  <2>6. EndOK'
    BY <1>1, <1>2, <1>5, <2>1, <2>2 DEF RunnerInv, EndOK, Planned, Terminal, Ending
  <2>7. QED
    BY <2>3, <2>4, <2>5, <2>6 DEF RunnerInv
<1>6. QED
  <2>1. \A kind \in Kinds(ListEnvs) : kind \in KindNames
    BY KindsAreNames DEF Kinds
  <2>2. "session" \in KindNames
    BY DEF KindNames
  <2>3. QED
    BY <1>4, <1>5, <2>1, <2>2 DEF List

LEMMA Appended ==
  ASSUME NEW S, NEW s \in Seq(S), NEW x \in S
  PROVE  /\ Len(Append(s, x)) = Len(s) + 1 /\ Append(s, x)[Len(s) + 1] = x
         /\ \A i \in 1..Len(s) : Append(s, x)[i] = s[i] /\ s[i] \in S
  OBVIOUS

LEMMA SeenTwice ==
  ASSUME NEW S, NEW s \in Seq(S), Len(s) = 1, NEW x \in S, x = s[1]
  PROVE  Len(Append(s, x)) = 2 /\ Append(s, x)[1] = Append(s, x)[2]
<1>1. Len(s) + 1 = 2 /\ 1 \in 1..Len(s)
  OBVIOUS
<1>2. Len(Append(s, x)) = 2 /\ Append(s, x)[2] = x /\ Append(s, x)[1] = s[1]
  BY <1>1, Appended
<1>3. QED
  BY <1>2

LEMMA PostflightStep == RunnerInv /\ Postflight => RunnerInv'
<1> SUFFICES ASSUME RunnerInv, Postflight PROVE RunnerInv'
  OBVIOUS
<1>1. /\ stage = "postflight" /\ stage' = "write"
      /\ UNCHANGED <<setup, game, build, envs, played, env, seen, decisions>>
  BY DEF Postflight, control, engine
<1>2. inspected' = Append(inspected, build) \/ inspected' = inspected
  BY DEF Postflight
<1>3. inspected \in Seq(Nat) /\ build \in Nat /\ inspected' \in Seq(Nat)
      /\ DOMAIN envs' \subseteq 1..game /\ envs' \in [DOMAIN envs' -> Obs]
  <2>1. inspected \in Seq(Nat) /\ build \in Nat
    BY DEF RunnerInv, RunnerTypes
  <2>2. inspected' \in Seq(Nat)
    BY <1>2, <2>1
  <2>3. QED
    BY <1>1, <2>1, <2>2 DEF RunnerInv, RunnerTypes
<1>4. CASE \E kind \in KindNames : CleanupFails(kind, "postflight")
  BY <1>1, <1>3, <1>4, CleanupStep DEF StageNames
<1>5. CASE inspected' = Append(inspected, build) /\ SameIdentity /\ UNCHANGED <<failures, qualification>>
  <2>1. failures = <<>> => Len(inspected') = 2 /\ inspected'[1] = inspected'[2]
    <3>1. failures = <<>> => Len(inspected) = 1
      BY <1>1 DEF RunnerInv, EndOK
    <3>2. inspected' = Append(inspected, build) /\ build = inspected[1]
      BY <1>5 DEF SameIdentity
    <3>3. QED
      BY <1>3, <3>1, <3>2, SeenTwice
  <2>2. Planned
    BY <1>1 DEF RunnerInv, EndOK
  <2>3. Seen' = Seen /\ mode' = mode /\ Acted' = Acted /\ Planned'
    BY <1>1, <1>5, <2>2 DEF Seen, mode, Acted, Planned
  <2>4. RunnerTypes'
    BY <1>1, <1>3, <1>5, <2>3 DEF RunnerInv, RunnerTypes, Ending
  <2>5. PlaceOK'
    BY <1>1 DEF PlaceOK, Early, Playing
  <2>6. MovesOK'
    BY <1>1, <1>5, <2>3 DEF RunnerInv, MovesOK, Ending
  <2>7. EndOK'
    BY <1>1, <1>5, <2>1, <2>3 DEF RunnerInv, EndOK, Terminal, Ending
  <2>8. QED
    BY <2>4, <2>5, <2>6, <2>7 DEF RunnerInv
<1>6. QED
  <2>1. "session" \in KindNames
    BY DEF KindNames
  <2>2. QED
    BY <1>4, <1>5, <2>1, LookKindsAreNames DEF Postflight

(* The next game starts from nothing, on whatever the last one left.       *)
LEMMA WriteStep == RunnerInv /\ Write => RunnerInv'
<1> SUFFICES ASSUME RunnerInv, Write PROVE RunnerInv'
  OBVIOUS
<1>1. stage = "write" /\ UNCHANGED <<setup, build, envs>>
  BY DEF Write
<1>2. mode' = mode
  BY <1>1 DEF mode
<1>3. CASE game < LastGame /\ game' = game + 1 /\ stage' = "inspect" /\ played' = <<>> /\ Fresh
  <2>1. /\ game \notin DOMAIN <<>> /\ game' \notin DOMAIN envs /\ DOMAIN envs \subseteq 1..game'
        /\ game' \in Nat \ {0}
    BY <1>3 DEF RunnerInv, RunnerTypes
  <2>2. RunnerTypes'
    BY <1>1, <1>3, <2>1 DEF RunnerInv, RunnerTypes, Fresh, Early, Bad
  <2>3. PlaceOK'
    BY <1>1, <1>3, <2>1 DEF PlaceOK, Fresh, Early, Playing
  <2>4. MovesOK'
    BY <1>3 DEF MovesOK, Fresh, Ending
  <2>5. EndOK'
    BY <1>3 DEF EndOK, Fresh, Planned, Ending
  <2>6. QED
    BY <2>2, <2>3, <2>4, <2>5 DEF RunnerInv
<1>4. CASE stage' = "done" /\ UNCHANGED <<game, played, env, inspected, seen, choices, decisions,
                                         looped, failures, outcome>>
  <2>1. Seen' = Seen
    BY <1>4 DEF Seen
  <2>2. RunnerTypes'
    BY <1>1, <1>4, <2>1 DEF RunnerInv, RunnerTypes, outcome
  <2>3. PlaceOK'
    BY <1>4 DEF PlaceOK, Early, Playing
  <2>4. MovesOK'
    BY <1>1, <1>4 DEF RunnerInv, MovesOK, Ending
  <2>5. EndOK'
    BY <1>1, <1>2, <1>4, <2>1 DEF RunnerInv, EndOK, Planned, Terminal, Ending, outcome
  <2>6. QED
    BY <2>2, <2>3, <2>4, <2>5 DEF RunnerInv
<1>5. QED
  BY <1>3, <1>4 DEF Write

(* The engine loses its environments.                                      *)
LEMMA RestartStep == RunnerInv /\ Restart => RunnerInv'
<1> SUFFICES ASSUME RunnerInv, Restart PROVE RunnerInv'
  OBVIOUS
<1>1. /\ envs' = <<>> /\ build' \in {build, build + 1}
      /\ UNCHANGED <<setup, game, played, stage, env, inspected, seen, decisions, failures, qualification>>
  BY DEF Restart, control, outcome
<1>2. DOMAIN envs' = {} /\ envs' \in [DOMAIN envs' -> Obs]
  BY <1>1, NoEnvs
<1>3. Seen' = Seen /\ mode' = mode /\ Acted' = Acted /\ Choice' = Choice
  BY <1>1 DEF Seen, mode, Acted, Choice
<1>4. RunnerTypes'
  BY <1>1, <1>2, <1>3 DEF RunnerInv, RunnerTypes
<1>5. PlaceOK'
  BY <1>1, <1>2, <1>3 DEF RunnerInv, PlaceOK
<1>6. MovesOK'
  BY <1>1, <1>2, <1>3 DEF RunnerInv, MovesOK
<1>7. EndOK'
  BY <1>1, <1>2, <1>3 DEF RunnerInv, EndOK, Planned, Terminal
<1>8. QED
  BY <1>4, <1>5, <1>6, <1>7 DEF RunnerInv

LEMMA RunnerIsInductive == RunnerInv /\ [RunnerNext]_runnerVars => RunnerInv'
<1> SUFFICES ASSUME RunnerInv, [RunnerNext]_runnerVars PROVE RunnerInv'
  OBVIOUS
<1>1. CASE UNCHANGED runnerVars
  <2>1. Seen' = Seen /\ mode' = mode /\ Acted' = Acted /\ Choice' = Choice
    BY <1>1 DEF Seen, mode, Acted, Choice, runnerVars
  <2>2. QED
    BY <1>1, <2>1 DEF RunnerInv, RunnerTypes, PlaceOK, MovesOK, EndOK, Planned, Terminal, runnerVars
<1>2. CASE Runner
  BY <1>2, PlanStep, InspectStep, ListBeforeStep, CreateStep, CreateFailsStep, ObserveStep, ReadFailsStep,
     LoopEndsStep, SeatObserveStep, SessionTurnStep, RosterFailsStep, PilotFailsStep, SubmitStep,
     SubmitFailsStep, ChooseFailsStep, SubmitOneStep, ReobserveStep, RecordChoiceStep, RecordFailsStep,
     DisposeStep, DisposeFailsStep, ListStep, PostflightStep, WriteStep DEF Runner
<1>3. CASE Restart
  BY <1>3, RestartStep
<1>4. QED
  BY <1>1, <1>2, <1>3 DEF RunnerNext

(***************************************************************************)
(* What the invariant says of an artifact, and of the moves.               *)
(***************************************************************************)

LEMMA ArtifactFollows == RunnerInv => ArtifactIsWhole /\ LeftIsReported
<1> SUFFICES ASSUME RunnerInv, stage = "write" PROVE ArtifactIsWhole /\ LeftIsReported
  BY DEF ArtifactIsWhole, LeftIsReported
<1>1. ASSUME Status \in {"completed", "stopped", "proved"}
      PROVE  failures = <<>> /\ (Status = "completed" => Terminal)
  BY <1>1 DEF RunnerInv, EndOK, Status, FullStatus, SessionStatus
<1>2. ASSUME failures = <<>>
      PROVE  /\ env # {} /\ decisions = played /\ ~Known
             /\ Len(inspected) = 2 /\ inspected[1] = inspected[2]
             /\ mode = "session" => Acted = Seats
             /\ mode = "direct" => Len(played) = 1
  <2>1. env = {game} /\ game \notin DOMAIN envs
    BY <1>2 DEF RunnerInv, EndOK, Ending
  <2>2. ~Known
    BY <2>1, EnvHolds DEF RunnerInv, Known
  <2>3. QED
    BY <1>2, <2>1, <2>2 DEF RunnerInv, EndOK, MovesOK, Ending
<1>3. ArtifactIsWhole
  BY <1>1, <1>2 DEF ArtifactIsWhole
<1>4. ASSUME game \in DOMAIN envs
      PROVE  failures # <<>> /\ Status \in {"failed", "raised"}
  BY <1>4 DEF RunnerInv, EndOK, Status, FullStatus
<1>5. ~Planned => envs = <<>> /\ inspected = <<>>
  BY DEF RunnerInv, EndOK
<1>6. QED
  BY <1>3, <1>4, <1>5 DEF LeftIsReported

LEMMA MovesFollow ==
  ASSUME RunnerInv, [RunnerNext]_runnerVars, Len(played') > Len(played)
  PROVE  Len(played) = Len(decisions) /\ seen = {envs[Env]} /\ failures = <<>>
<1>1. CASE stage = "pilot" /\ Known /\ Applied
  BY <1>1, MoveIsChoice
<1>2. CASE played' = played
  BY <1>2 DEF RunnerInv, RunnerTypes
<1>3. CASE played' = <<>>
  BY <1>3 DEF RunnerInv, RunnerTypes
<1>4. QED
  BY <1>1, <1>2, <1>3 DEF RunnerNext, Runner, Plan, Inspect, ListBefore, Create, CreateFails, NewEnv, Observe,
     ReadFails, LoopEnds, SeatObserve, SessionTurn, RosterFails, PilotFails, Submit, SubmitFails, ChooseFails,
     SubmitOne, Reobserve, RecordChoice, RecordFails, Dispose, DisposeFails, List, Postflight, Write, Restart,
     engine, runnerVars

(* Whatever fails on the way, what the artifact of a game says of it is    *)
(* so, what is left on the engine is reported, and no move is made on a    *)
(* state the runner has not seen: for any seats, bindings, setups, number  *)
(* of games and limits, and any number of faults (VerdictIsTrue).          *)
THEOREM VerdictsAreTrue == RunnerSpec => VerdictIsTrue
<1>1. RunnerInv /\ [RunnerNext]_runnerVars =>
        [Len(played') > Len(played) =>
           Len(played) = Len(decisions) /\ seen = {envs[Env]} /\ failures = <<>>]_runnerVars
  BY MovesFollow
<1>2. QED
  BY InitHolds, RunnerIsInductive, ArtifactFollows, <1>1, PTL DEF RunnerSpec, VerdictIsTrue, NoMoveUnseen

(***************************************************************************)
(* DelegatedAutopass: passing approved in advance.                         *)
(***************************************************************************)

CardNames == {Land, Spell, "drawn", "foe's spell"}
Happenings == {"routine", "permanentEntered", "spellCast", "other"}
Window == [turn : Nat, step : {"UPKEEP", "PRECOMBAT_MAIN", "END"}, hand : SUBSET CardNames,
           board : SUBSET CardNames, foe : {0, 1}, stack : SUBSET CardNames, mana : {0, 1},
           life : {0, 1}, ability : {0, 1, 2}, log : Seq(Happenings), decision : BOOLEAN,
           valid : BOOLEAN]
Authority == [kind : {"lease", "cast", "plan"}, steps : Seq({"wait", "playLand", "cast"}), index : Nat,
              until : {"phase_end", "next_own_main", "none", "turn_end"}, max : 1..MaxPasses,
              watch : BOOLEAN, named : BOOLEAN, menu : {0, 1, 2}, waiting : BOOLEAN, start : Window,
              prev : Window, passes : Nat, last : {"PassPriority", "PlayLand", "CastSpell"},
              seen : Window, used : Nat, cards : SUBSET {Land, Spell}, stale : BOOLEAN]
OneCall == [pc : {"idle", "popped", "asking"}, obs : Window, held : SUBSET Authority, stale : BOOLEAN]

(* Within a step of a turn mana is only added to.                          *)
Clock(w) == 3 * w.turn + (IF w.step = "UPKEEP" THEN 0 ELSE IF w.step = "PRECOMBAT_MAIN" THEN 1 ELSE 2)
Earlier(v, w) == Clock(v) < Clock(w) \/ (Clock(v) = Clock(w) /\ v.mana <= w.mana)

(* How far an authority has come: the cards it has answered with, and how  *)
(* often it has passed.                                                    *)
AtLease(a) ==
  /\ a.kind = "lease" /\ a.waiting /\ a.cards = {} /\ a.used = a.passes /\ a.passes <= a.max
  /\ a.named => a.start = a.seen /\ a.menu = a.seen.ability
AtCast(a) ==
  a.kind = "cast" /\ ~a.waiting /\ a.last = "PlayLand" /\ a.cards = {Land} /\ a.used = 0
AtFirstWait(a) ==
  /\ a.kind = "plan" /\ a.waiting /\ a.last = "PassPriority" /\ a.cards = {}
  /\ a.index = 1 /\ Len(a.steps) \in 1..4 /\ a.used = a.passes /\ a.passes <= a.max
AtLand(a) ==
  /\ a.kind = "plan" /\ ~a.waiting /\ a.last = "PlayLand" /\ a.cards = {Land} /\ a.used <= a.max
  /\ (a.index = 1 /\ Len(a.steps) \in {1, 2}) \/ (a.index = 3 /\ Len(a.steps) \in {3, 4})
AtSpell(a) ==
  /\ a.kind = "plan" /\ ~a.waiting /\ a.last = "CastSpell" /\ a.cards = {Land, Spell}
  /\ a.used <= a.max /\ a.index = Len(a.steps) /\ Len(a.steps) \in {2, 4}
AtLastWait(a) ==
  /\ a.kind = "plan" /\ a.waiting /\ a.last = "CastSpell" /\ a.cards = {Land, Spell}
  /\ a.passes <= a.max /\ a.used <= a.max + a.passes /\ a.index = Len(a.steps) /\ Len(a.steps) \in {2, 4}

SameTable(v, w) == w.hand = v.hand /\ w.board = v.board /\ w.stack = v.stack

(* What lies between the window in which the pilot gave an authority and   *)
(* the last one it answered: its own cards, and what is routine.           *)
FollowsFrom(a) ==
  /\ Extends(a.seen, a.prev)
  /\ Range(Events(a.seen, a.prev)) \subseteq Routine \cup (IF Spell \in a.cards THEN {"spellCast"} ELSE {})
  /\ a.prev.life = a.seen.life /\ a.prev.mana = a.seen.mana
  /\ a.watch => a.prev.foe = a.seen.foe

Sound(a) ==
  /\ a \in Authority /\ FollowsFrom(a)
  /\ a.kind # "lease" => a.watch /\ ~a.named
  /\ \/ (AtLease(a) \/ AtCast(a) \/ AtFirstWait(a) \/ AtLand(a)) /\ SameTable(a.seen, a.prev)
     \/ AtSpell(a) /\ a.prev.hand = a.seen.hand \ {Land} /\ a.prev.board = a.seen.board \cup {Land}
                   /\ a.prev.stack = a.seen.stack
     \/ AtLastWait(a) /\ a.prev.hand = a.seen.hand \ {Land, Spell}
                      /\ a.prev.board = a.seen.board \cup {Land}
                      /\ a.prev.stack = a.seen.stack \cup {Spell}

AutopassTypes ==
  /\ conf \in Confs /\ win \in Window /\ waits \subseteq Calls
  /\ store \subseteq Authority /\ calls \in [Calls -> OneCall]
  /\ \A c \in Calls : calls[c].pc = "idle" => calls[c] = Idle

StoreOK == \A a \in store : Sound(a) /\ Earlier(a.prev, win)
HeldOK ==
  \A c \in Calls :
    /\ Earlier(calls[c].obs, win)
    /\ \A a \in calls[c].held : Sound(a) /\ Earlier(a.prev, calls[c].obs)

(* With a recorder one call is open at a time, what the seat has is with   *)
(* it or in the store, and there is one of it.                             *)
AloneOK ==
  conf.recorded =>
    /\ \A c, d \in Calls : c # d => calls[c].pc = "idle" \/ calls[d].pc = "idle"
    /\ (\E c \in Calls : calls[c].pc # "idle") => store = {}
    /\ store = {} \/ \E a \in store : store = {a} /\ ~a.stale
    /\ \A c \in Calls : ~calls[c].stale /\ \A a \in calls[c].held : ~a.stale

AutopassInv == AutopassTypes /\ StoreOK /\ HeldOK /\ AloneOK

(***************************************************************************)
(* Windows: what extends what, and what the game does to them.             *)
(***************************************************************************)

LEMMA ExtendsMeans ==
  ASSUME NEW v \in Window, NEW w \in Window
  PROVE  Extends(v, w) <=> /\ Len(v.log) <= Len(w.log)
                           /\ \A i \in 1..Len(v.log) : v.log[i] = w.log[i]
<1>1. v.log \in Seq(Happenings) /\ w.log \in Seq(Happenings)
  BY DEF Window
<1>2. PICK s \in Seq(Happenings), t \in Seq(Happenings) : s = v.log /\ t = w.log
  BY <1>1
<1>3. IsPrefix(s, t) <=> Len(s) <= Len(t) /\ \A i \in 1..Len(s) : s[i] = t[i]
  <2>1. ASSUME IsPrefix(s, t), NEW i \in 1..Len(s)
        PROVE  s[i] = t[i]
    <3>1. SubSeq(s, 1, Len(s))[i] = SubSeq(t, 1, Len(s))[i] /\ Len(s) <= Len(t)
      BY <2>1 DEF IsPrefix
    <3>2. SubSeq(s, 1, Len(s))[i] = s[i]
      OBVIOUS
    <3>3. SubSeq(t, 1, Len(s))[i] = t[i]
      BY <3>1
    <3>4. QED
      BY <3>1, <3>2, <3>3
  <2>2. ASSUME Len(s) <= Len(t), \A i \in 1..Len(s) : s[i] = t[i]
        PROVE  SubSeq(s, 1, Len(s)) = SubSeq(t, 1, Len(s))
    BY <2>2
  <2>3. QED
    BY <2>1, <2>2 DEF IsPrefix
<1>4. QED
  BY <1>2, <1>3 DEF Extends

LEMMA EventsMean ==
  ASSUME NEW v \in Window, NEW w \in Window
  PROVE  Range(Events(v, w)) = {w.log[i] : i \in Len(v.log) + 1 .. Len(w.log)}
<1>1. PICK s \in Seq(Happenings), t \in Seq(Happenings) : s = v.log /\ t = w.log
  BY DEF Window
<1>2. PICK m \in Nat : m = Len(s)
  OBVIOUS
<1>3. PICK e : e = SubSeq(t, m + 1, Len(t))
  OBVIOUS
<1>4. \A i \in DOMAIN e : i + m \in m + 1 .. Len(t) /\ e[i] = t[i + m]
  BY <1>3
<1>5. \A j \in m + 1 .. Len(t) : j - m \in DOMAIN e /\ e[j - m] = t[j]
  BY <1>3
<1>6. {e[i] : i \in DOMAIN e} = {t[j] : j \in m + 1 .. Len(t)}
  <2>1. ASSUME NEW x \in {e[i] : i \in DOMAIN e}
        PROVE  x \in {t[j] : j \in m + 1 .. Len(t)}
    BY <1>4
  <2>2. ASSUME NEW x \in {t[j] : j \in m + 1 .. Len(t)}
        PROVE  x \in {e[i] : i \in DOMAIN e}
    BY <1>5
  <2>3. QED
    BY <2>1, <2>2
<1>7. Events(v, w) = e
  BY <1>1, <1>2, <1>3 DEF Events
<1>8. Range(e) = {e[i] : i \in DOMAIN e}
  BY DEF Range
<1>9. QED
  BY <1>1, <1>2, <1>6, <1>7, <1>8

LEMMA ExtendsChain ==
  ASSUME NEW u \in Window, NEW v \in Window, NEW w \in Window, Extends(u, v), Extends(v, w)
  PROVE  /\ Extends(u, w)
         /\ Range(Events(u, w)) \subseteq Range(Events(u, v)) \cup Range(Events(v, w))
<1>1. /\ Len(u.log) \in Nat /\ Len(v.log) \in Nat /\ Len(w.log) \in Nat
  BY DEF Window
<1>2. /\ Len(u.log) <= Len(v.log) /\ Len(v.log) <= Len(w.log)
      /\ \A i \in 1..Len(u.log) : u.log[i] = v.log[i]
      /\ \A i \in 1..Len(v.log) : v.log[i] = w.log[i]
  BY ExtendsMeans
<1>3. Extends(u, w)
  BY <1>1, <1>2, ExtendsMeans
<1>4. ASSUME NEW i \in Len(u.log) + 1 .. Len(w.log)
      PROVE  \/ w.log[i] \in {v.log[j] : j \in Len(u.log) + 1 .. Len(v.log)}
             \/ w.log[i] \in {w.log[j] : j \in Len(v.log) + 1 .. Len(w.log)}
  BY <1>1, <1>2
<1>5. ASSUME NEW x \in Range(Events(u, w))
      PROVE  x \in Range(Events(u, v)) \cup Range(Events(v, w))
  <2>1. PICK i \in Len(u.log) + 1 .. Len(w.log) : x = w.log[i]
    BY EventsMean
  <2>2. \/ x \in {v.log[j] : j \in Len(u.log) + 1 .. Len(v.log)}
        \/ x \in {w.log[j] : j \in Len(v.log) + 1 .. Len(w.log)}
    BY <1>4, <2>1
  <2>3. QED
    BY <2>2, EventsMean
<1>6. QED
  BY <1>3, <1>5

LEMMA ExtendsItself ==
  ASSUME NEW w \in Window
  PROVE  Extends(w, w) /\ Range(Events(w, w)) = {}
<1>1. Len(w.log) \in Nat
  BY DEF Window
<1>2. Len(w.log) + 1 .. Len(w.log) = {}
  BY <1>1
<1>3. QED
  BY <1>1, <1>2, ExtendsMeans, EventsMean

LEMMA ClockIs == \A w \in Window : Clock(w) \in Nat /\ w.mana \in Nat
<1>1. ASSUME NEW w \in Window
      PROVE  Clock(w) \in Nat /\ w.mana \in Nat
  <2>1. w.turn \in Nat /\ w.mana \in Nat
    BY DEF Window
  <2>2. QED
    BY <2>1 DEF Clock
<1>2. QED
  BY <1>1

LEMMA EarlierChain ==
  ASSUME NEW u \in Window, NEW v \in Window, NEW w \in Window, Earlier(u, v), Earlier(v, w)
  PROVE  Earlier(u, w)
<1>1. /\ Clock(u) \in Nat /\ Clock(v) \in Nat /\ Clock(w) \in Nat
      /\ u.mana \in Nat /\ v.mana \in Nat /\ w.mana \in Nat
  BY ClockIs
<1>2. QED
  BY <1>1 DEF Earlier

LEMMA EarlierItself == \A w \in Window : Earlier(w, w)
  BY DEF Earlier, Clock, Window

LEMMA LoggedIsWindow ==
  ASSUME NEW w \in Window, NEW e \in Happenings
  PROVE  /\ Logged(w, e) \in Window /\ Earlier(w, Logged(w, e))
<1>1. PICK l : l = Append(w.log, e)
  OBVIOUS
<1>2. l \in Seq(Happenings)
  BY <1>1 DEF Window
<1>3. Logged(w, e) = [w EXCEPT !.log = l]
  BY <1>1 DEF Logged
<1>4. QED
  BY <1>2, <1>3 DEF Window, Earlier, Clock

LEMMA ExecutedIsWindow ==
  ASSUME NEW w \in Window, NEW answer
  PROVE  Executed(w, answer) \in Window /\ Earlier(w, Executed(w, answer))
<1>1. PICK v : v = [w EXCEPT !.hand = @ \ {Land}, !.board = @ \cup {Land}]
  OBVIOUS
<1>2. PICK x : x = [w EXCEPT !.hand = @ \ {Spell}, !.stack = @ \cup {Spell}]
  OBVIOUS
<1>3. PICK y : y = [w EXCEPT !.decision = FALSE, !.ability = 0]
  OBVIOUS
<1>4. v \in Window /\ x \in Window /\ y \in Window
  BY <1>1, <1>2, <1>3 DEF Window, CardNames
<1>5. Earlier(w, v) /\ Earlier(w, x) /\ Earlier(w, y)
  BY <1>1, <1>2, <1>3 DEF Window, Earlier, Clock
<1>6. Executed(w, answer) \in {Logged(v, "permanentEntered"), Logged(x, "spellCast"), Logged(y, "other"), w}
  BY <1>1, <1>2, <1>3 DEF Executed, Land, Spell
<1>7. /\ \A e \in Happenings : /\ Logged(v, e) \in Window /\ Earlier(w, Logged(v, e))
                               /\ Logged(x, e) \in Window /\ Earlier(w, Logged(x, e))
                               /\ Logged(y, e) \in Window /\ Earlier(w, Logged(y, e))
  BY <1>4, <1>5, LoggedIsWindow, EarlierChain
<1>8. QED
  BY <1>6, <1>7, EarlierItself DEF Happenings

LEMMA OthersAreWindows ==
  ASSUME NEW w \in Window, NEW v \in OtherChanges(w)
  PROVE  v \in Window /\ Earlier(w, v)
<1>1. PICK x1 : x1 = 1 - w.life
  OBVIOUS
<1>1a. PICK v1 : v1 = [w EXCEPT !.life = x1]
  OBVIOUS
<1>1b. v1 \in Window /\ Earlier(w, v1)
  <2>1. x1 \in {0, 1}
    BY <1>1 DEF Window
  <2>2. v1 \in Window
    BY <1>1a, <2>1 DEF Window
  <2>3. v1.turn = w.turn /\ v1.step = w.step /\ v1.mana = w.mana
    BY <1>1a DEF Window
  <2>4. QED
    BY <2>2, <2>3 DEF Earlier, Clock, Window
<1>2. PICK x2 : x2 = 1 - w.foe
  OBVIOUS
<1>2a. PICK v2 : v2 = [w EXCEPT !.foe = x2]
  OBVIOUS
<1>2b. v2 \in Window /\ Earlier(w, v2)
  <2>1. x2 \in {0, 1}
    BY <1>2 DEF Window
  <2>2. v2 \in Window
    BY <1>2a, <2>1 DEF Window
  <2>3. v2.turn = w.turn /\ v2.step = w.step /\ v2.mana = w.mana
    BY <1>2a DEF Window
  <2>4. QED
    BY <2>2, <2>3 DEF Earlier, Clock, Window
<1>3. PICK x3 : x3 = w.hand \cup {"drawn"}
  OBVIOUS
<1>3a. PICK v3 : v3 = [w EXCEPT !.hand = x3]
  OBVIOUS
<1>3b. v3 \in Window /\ Earlier(w, v3)
  <2>1. x3 \in SUBSET CardNames
    BY <1>3 DEF Window, CardNames
  <2>2. v3 \in Window
    BY <1>3a, <2>1 DEF Window
  <2>3. v3.turn = w.turn /\ v3.step = w.step /\ v3.mana = w.mana
    BY <1>3a DEF Window
  <2>4. QED
    BY <2>2, <2>3 DEF Earlier, Clock, Window
<1>4. PICK x4 : x4 = w.stack \cup {"foe's spell"}
  OBVIOUS
<1>4a. PICK v4 : v4 = [w EXCEPT !.stack = x4]
  OBVIOUS
<1>4b. v4 \in Window /\ Earlier(w, v4)
  <2>1. x4 \in SUBSET CardNames
    BY <1>4 DEF Window, CardNames
  <2>2. v4 \in Window
    BY <1>4a, <2>1 DEF Window
  <2>3. v4.turn = w.turn /\ v4.step = w.step /\ v4.mana = w.mana
    BY <1>4a DEF Window
  <2>4. QED
    BY <2>2, <2>3 DEF Earlier, Clock, Window
<1>5. PICK x5 : x5 = 1
  OBVIOUS
<1>5a. PICK v5 : v5 = [w EXCEPT !.mana = x5]
  OBVIOUS
<1>5b. v5 \in Window /\ Earlier(w, v5)
  <2>1. x5 \in {0, 1}
    BY <1>5 DEF Window
  <2>2. v5 \in Window
    BY <1>5a, <2>1 DEF Window
  <2>3. v5.turn = w.turn /\ v5.step = w.step /\ w.mana <= v5.mana
    BY <1>5, <1>5a DEF Window
  <2>4. QED
    BY <2>2, <2>3 DEF Earlier, Clock, Window
<1>6. PICK x6 : x6 = 1
  OBVIOUS
<1>6a. PICK v6 : v6 = [w EXCEPT !.ability = x6]
  OBVIOUS
<1>6b. v6 \in Window /\ Earlier(w, v6)
  <2>1. x6 \in {0, 1, 2}
    BY <1>6 DEF Window
  <2>2. v6 \in Window
    BY <1>6a, <2>1 DEF Window
  <2>3. v6.turn = w.turn /\ v6.step = w.step /\ v6.mana = w.mana
    BY <1>6a DEF Window
  <2>4. QED
    BY <2>2, <2>3 DEF Earlier, Clock, Window
<1>7. PICK x7 : x7 = 2
  OBVIOUS
<1>7a. PICK v7 : v7 = [w EXCEPT !.ability = x7]
  OBVIOUS
<1>7b. v7 \in Window /\ Earlier(w, v7)
  <2>1. x7 \in {0, 1, 2}
    BY <1>7 DEF Window
  <2>2. v7 \in Window
    BY <1>7a, <2>1 DEF Window
  <2>3. v7.turn = w.turn /\ v7.step = w.step /\ v7.mana = w.mana
    BY <1>7a DEF Window
  <2>4. QED
    BY <2>2, <2>3 DEF Earlier, Clock, Window
<1>8. PICK x8 : x8 = TRUE
  OBVIOUS
<1>8a. PICK v8 : v8 = [w EXCEPT !.decision = x8]
  OBVIOUS
<1>8b. v8 \in Window /\ Earlier(w, v8)
  <2>1. x8 \in BOOLEAN
    BY <1>8 DEF Window
  <2>2. v8 \in Window
    BY <1>8a, <2>1 DEF Window
  <2>3. v8.turn = w.turn /\ v8.step = w.step /\ v8.mana = w.mana
    BY <1>8a DEF Window
  <2>4. QED
    BY <2>2, <2>3 DEF Earlier, Clock, Window
<1>9. PICK x9 : x9 = ~w.valid
  OBVIOUS
<1>9a. PICK v9 : v9 = [w EXCEPT !.valid = x9]
  OBVIOUS
<1>9b. v9 \in Window /\ Earlier(w, v9)
  <2>1. x9 \in BOOLEAN
    BY <1>9 DEF Window
  <2>2. v9 \in Window
    BY <1>9a, <2>1 DEF Window
  <2>3. v9.turn = w.turn /\ v9.step = w.step /\ v9.mana = w.mana
    BY <1>9a DEF Window
  <2>4. QED
    BY <2>2, <2>3 DEF Earlier, Clock, Window
<1>10. v \in {Logged(v1, "routine"), Logged(v2, "routine"), Logged(v3, "routine"), Logged(v4, "other"),
              Logged(w, "other"), v5, v6, v7, v8, v9}
  BY <1>1, <1>1a, <1>2, <1>2a, <1>3, <1>3a, <1>4, <1>4a, <1>5, <1>5a,
     <1>6, <1>6a, <1>7, <1>7a, <1>8, <1>8a, <1>9, <1>9a
     DEF OtherChanges
<1>11. \A u \in Window : Earlier(w, u) =>
         /\ Logged(u, "routine") \in Window /\ Earlier(w, Logged(u, "routine"))
         /\ Logged(u, "other") \in Window /\ Earlier(w, Logged(u, "other"))
  BY LoggedIsWindow, EarlierChain DEF Happenings
<1>12. QED
  BY <1>1b, <1>2b, <1>3b, <1>4b, <1>5b, <1>6b, <1>7b, <1>8b, <1>9b, <1>10, <1>11, EarlierItself

LEMMA ResolvedIsWindow ==
  ASSUME NEW w \in Window
  PROVE  Resolved(w) \in Window /\ Earlier(w, Resolved(w))
<1>1. PICK v : v = [w EXCEPT !.stack = {}]
  OBVIOUS
<1>2. v \in Window /\ Earlier(w, v)
  BY <1>1 DEF Window, Earlier, Clock
<1>3. QED
  BY <1>1, <1>2, LoggedIsWindow, EarlierChain DEF Resolved, Happenings

LEMMA NextStepIsWindow ==
  ASSUME NEW w \in Window
  PROVE  NextStep(w) \in Window /\ Earlier(w, NextStep(w))
<1>1. CASE w.step = "END"
  <2>1. PICK v : v = [w EXCEPT !.step = "UPKEEP", !.turn = @ + 1, !.mana = 0]
    OBVIOUS
  <2>2. v \in Window /\ v.turn = w.turn + 1 /\ v.step = "UPKEEP"
    <3>1. PICK n \in Nat : n = w.turn + 1
      BY DEF Window
    <3>2. v = [w EXCEPT !.step = "UPKEEP", !.turn = n, !.mana = 0]
      BY <2>1, <3>1
    <3>3. v \in Window
      BY <3>2 DEF Window
    <3>4. QED
      BY <3>1, <3>2, <3>3 DEF Window
  <2>3. QED
    BY <1>1, <2>1, <2>2 DEF NextStep, Earlier, Clock, Window
<1>2. CASE w.step # "END"
  <2>1. PICK v : v = [w EXCEPT !.step = IF @ = "UPKEEP" THEN "PRECOMBAT_MAIN" ELSE "END", !.mana = 0]
    OBVIOUS
  <2>2. v \in Window /\ v.turn = w.turn /\ v.step = IF w.step = "UPKEEP" THEN "PRECOMBAT_MAIN" ELSE "END"
    <3>1. PICK s : s = IF w.step = "UPKEEP" THEN "PRECOMBAT_MAIN" ELSE "END"
      OBVIOUS
    <3>2. v = [w EXCEPT !.step = s, !.mana = 0]
      BY <2>1, <3>1
    <3>3. QED
      BY <3>1, <3>2 DEF Window
  <2>3. QED
    BY <1>2, <2>1, <2>2 DEF NextStep, Earlier, Clock, Window
<1>3. QED
  BY <1>1, <1>2

(***************************************************************************)
(* An authority in a window in which it answers.                           *)
(***************************************************************************)

(* Nothing between the last answer and this window but what is routine.    *)
LEMMA UndisturbedMeans ==
  ASSUME NEW a, Sound(a), NEW w \in Window, Unchanged(a, w)
  PROVE  /\ SameTable(a.prev, w) /\ w.mana = a.seen.mana /\ w.life = a.seen.life
         /\ a.watch => w.foe = a.seen.foe
         /\ Extends(a.seen, w)
         /\ Range(Events(a.seen, w)) \subseteq
              Routine \cup (IF Spell \in a.cards THEN {"spellCast"} ELSE {})
<1>1. a.seen \in Window /\ a.prev \in Window /\ a.watch \in BOOLEAN
  BY DEF Sound, Authority
<1>2. /\ w.hand = a.prev.hand /\ w.board = a.prev.board /\ w.stack = a.prev.stack
      /\ w.mana = a.prev.mana /\ w.life = a.prev.life /\ (a.watch => w.foe = a.prev.foe)
  BY DEF Unchanged, Watched
<1>3. Extends(a.prev, w) /\ Range(Events(a.prev, w)) \subseteq Routine
  BY DEF Unchanged
<1>4. QED
  BY <1>1, <1>2, <1>3, ExtendsChain DEF Sound, FollowsFrom, SameTable

(* The window of a card: only the land came down since the last answer.    *)
LEMMA FollowupMeans ==
  ASSUME NEW a, Sound(a), NEW w \in Window, ReadyFollowupCast(a, w), AtCast(a) \/ AtLand(a)
  PROVE  /\ w.valid /\ ~w.decision
         /\ w.hand = a.seen.hand \ {Land} /\ w.board = a.seen.board \cup {Land} /\ w.stack = a.seen.stack
         /\ w.mana = a.seen.mana /\ w.life = a.seen.life /\ w.foe = a.seen.foe
         /\ Extends(a.seen, w) /\ Range(Events(a.seen, w)) \subseteq Routine
<1>1. /\ a.seen \in Window /\ a.prev \in Window /\ a.cards = {Land} /\ a.watch
      /\ SameTable(a.seen, a.prev)
  BY DEF Sound, Authority, AtCast, AtLand, AtLease, AtFirstWait, AtSpell, AtLastWait, Spell, Land
<1>2. /\ w.valid /\ ~w.decision
      /\ w.stack = a.prev.stack /\ w.mana = a.prev.mana /\ w.life = a.prev.life /\ w.foe = a.prev.foe
      /\ w.hand = a.prev.hand \ {Land} /\ w.board = a.prev.board \cup {Land}
      /\ Extends(a.prev, w) /\ Events(a.prev, w) = <<"permanentEntered">>
  BY DEF ReadyFollowupCast
<1>3. Range(<<"permanentEntered">>) \subseteq Routine
  BY DEF Range, Routine
<1>4. Extends(a.seen, w) /\ Range(Events(a.seen, w)) \subseteq Routine
  BY <1>1, <1>2, <1>3, ExtendsChain DEF Sound, FollowsFrom, Spell, Land
<1>5. QED
  BY <1>1, <1>2, <1>4 DEF Sound, FollowsFrom, SameTable

(* The first window over the spell.                                        *)
LEMMA PostCastMeans ==
  ASSUME NEW a, Sound(a), AtSpell(a), NEW w \in Window, PostCastWaitReady(a, w), Earlier(a.prev, w)
  PROVE  /\ w.hand = a.seen.hand \ {Land, Spell} /\ w.board = a.seen.board \cup {Land}
         /\ w.stack = a.seen.stack \cup {Spell}
         /\ w.mana = a.seen.mana /\ w.life = a.seen.life /\ w.foe = a.seen.foe
         /\ Extends(a.seen, w) /\ Range(Events(a.seen, w)) \subseteq Routine \cup {"spellCast"}
<1>1. /\ a.seen \in Window /\ a.prev \in Window /\ a.cards = {Land, Spell} /\ a.watch
      /\ a.prev.hand = a.seen.hand \ {Land} /\ a.prev.board = a.seen.board \cup {Land}
      /\ a.prev.stack = a.seen.stack
  BY DEF Sound, Authority, AtCast, AtLand, AtLease, AtFirstWait, AtSpell, AtLastWait
<1>2. /\ w.turn = a.prev.turn /\ w.step = a.prev.step
      /\ a.prev.stack = {} /\ w.stack = {Spell} /\ w.life = a.prev.life /\ w.mana = 0
      /\ w.hand = a.prev.hand \ {Spell} /\ w.board = a.prev.board /\ w.foe = a.prev.foe
      /\ Extends(a.prev, w) /\ Events(a.prev, w) = <<"spellCast">>
  BY DEF PostCastWaitReady
<1>3. a.prev.mana = 0
  BY <1>1, <1>2 DEF Earlier, Clock, Window
<1>4. Range(<<"spellCast">>) = {"spellCast"}
  BY DEF Range
<1>5. Extends(a.seen, w) /\ Range(Events(a.seen, w)) \subseteq Routine \cup {"spellCast"}
  BY <1>1, <1>2, <1>4, ExtendsChain DEF Sound, FollowsFrom
<1>6. QED
  BY <1>1, <1>2, <1>3, <1>5 DEF Sound, FollowsFrom

(***************************************************************************)
(* What an authority answers: as reviewed, within what it may, and what is *)
(* put back of it is sound again.                                          *)
(***************************************************************************)

Spans(a) == IF a.kind = "plan" /\ Len(a.steps) \in {2, 4} /\ Spell \in a.cards THEN 2 ELSE 1
Within(a, w) ==
  IF AnswerOf(a, w) = "pass"
  THEN a.used < Spans(a) * (IF a.max < MaxPasses THEN a.max ELSE MaxPasses)
  ELSE AnswerOf(a, w) \notin a.cards
SoundAgain(a, w) ==
  /\ \A x \in PutBack(a, w) : Sound(x) /\ x.prev = w /\ x.stale = a.stale
  /\ PutBack(a, w) = {} \/ \E x : PutBack(a, w) = {x}
Right(a, w) == Reviewed(a, w) /\ Within(a, w) /\ SoundAgain(a, w)

(* One arm applies at a time.                                              *)
LEMMA OneArm ==
  ASSUME NEW a, NEW w
  PROVE  /\ LeasePasses(a, w) => a.kind = "lease"
         /\ CastFollows(a, w) => a.kind = "cast"
         /\ PlanPasses(a, w) => a.kind = "plan" /\ a.waiting /\ ~AtBoundary(a, w)
         /\ PlanPlaysLand(a, w) => a.kind = "plan" /\ a.waiting /\ AtBoundary(a, w)
         /\ PlanCasts(a, w) => a.kind = "plan" /\ ~a.waiting /\ a.last = "PlayLand"
         /\ PlanWaitsAgain(a, w) => a.kind = "plan" /\ ~a.waiting /\ a.last = "CastSpell"
  BY DEF LeasePasses, CastFollows, PlanPasses, PlanPlaysLand, PlanCasts, PlanWaitsAgain, PlanGoesOn

LEMMA AnswersAre ==
  ASSUME NEW a, NEW w
  PROVE  /\ LeasePasses(a, w) \/ PlanPasses(a, w) =>
              AnswerOf(a, w) = "pass" /\ PutBack(a, w) = {Passed(a, w)}
         /\ PlanWaitsAgain(a, w) =>
              /\ AnswerOf(a, w) = "pass"
              /\ PutBack(a, w) = {Passed([a EXCEPT !.waiting = TRUE, !.start = w, !.passes = 0], w)}
         /\ PlanPlaysLand(a, w) =>
              /\ AnswerOf(a, w) = Land
              /\ PutBack(a, w) = IF a.index + 1 < Len(a.steps)
                                 THEN {Onward(a, w, "PlayLand", Land, a.index + 2)} ELSE {}
         /\ PlanCasts(a, w) =>
              /\ AnswerOf(a, w) = Spell
              /\ PutBack(a, w) = IF a.index < Len(a.steps)
                                 THEN {Onward(a, w, "CastSpell", Spell, a.index + 1)} ELSE {}
         /\ CastFollows(a, w) => AnswerOf(a, w) = Spell /\ PutBack(a, w) = {}
         /\ AnswerOf(a, w) # "none" =>
              \/ LeasePasses(a, w) \/ PlanPasses(a, w) \/ PlanWaitsAgain(a, w)
              \/ PlanPlaysLand(a, w) \/ PlanCasts(a, w) \/ CastFollows(a, w)
<1> DEFINE L == LeasePasses(a, w)
           F == PlanPasses(a, w)
           G == PlanWaitsAgain(a, w)
           P == PlanPlaysLand(a, w)
           C == PlanCasts(a, w)
           N == CastFollows(a, w)
<1>1. /\ L => ~P /\ ~C /\ ~N /\ ~G
      /\ F => ~P /\ ~C /\ ~N /\ ~G
      /\ G => ~L /\ ~F /\ ~P /\ ~C /\ ~N
      /\ P => ~L /\ ~F /\ ~G /\ ~C /\ ~N
      /\ C => ~L /\ ~F /\ ~G /\ ~P /\ ~N
      /\ N => ~L /\ ~F /\ ~G /\ ~P /\ ~C
  BY OneArm
<1> HIDE DEF L, F, G, P, C, N
<1>2. AnswerOf(a, w) = CASE L \/ F \/ G -> "pass" [] P -> Land [] N \/ C -> Spell [] OTHER -> "none"
  BY DEF AnswerOf, L, F, G, P, C, N
<1>3. PutBack(a, w) =
        CASE L \/ F -> {Passed(a, w)}
          [] G -> {Passed([a EXCEPT !.waiting = TRUE, !.start = w, !.passes = 0], w)}
          [] P /\ a.index + 1 < Len(a.steps) -> {Onward(a, w, "PlayLand", Land, a.index + 2)}
          [] C /\ a.index < Len(a.steps) -> {Onward(a, w, "CastSpell", Spell, a.index + 1)}
          [] OTHER -> {}
  BY DEF PutBack, L, F, G, P, C, N
<1>4. CASE L \/ F
  BY <1>1, <1>2, <1>3, <1>4 DEF L, F, G, P, C, N
<1>5. CASE G
  BY <1>1, <1>2, <1>3, <1>5 DEF L, F, G, P, C, N
<1>6. CASE P
  BY <1>1, <1>2, <1>3, <1>6 DEF L, F, G, P, C, N
<1>7. CASE C
  BY <1>1, <1>2, <1>3, <1>7 DEF L, F, G, P, C, N
<1>8. CASE N
  BY <1>1, <1>2, <1>3, <1>8 DEF L, F, G, P, C, N
<1>9. CASE ~(L \/ F \/ G \/ P \/ C \/ N)
  BY <1>2, <1>3, <1>9 DEF L, F, G, P, C, N
<1>10. QED
  BY <1>4, <1>5, <1>6, <1>7, <1>8, <1>9

(* The fields that an answer leaves as they are.                           *)
Kept(a, x) ==
  /\ x.kind = a.kind /\ x.steps = a.steps /\ x.until = a.until /\ x.max = a.max /\ x.watch = a.watch
  /\ x.named = a.named /\ x.menu = a.menu /\ x.seen = a.seen /\ x.stale = a.stale

LEMMA PassedIs ==
  ASSUME NEW a \in Authority, NEW w \in Window, a.used <= 2 * a.max
  PROVE  /\ Passed(a, w) \in Authority /\ Kept(a, Passed(a, w))
         /\ Passed(a, w).prev = w /\ Passed(a, w).passes = a.passes + 1
         /\ Passed(a, w).used = a.used + 1
         /\ Passed(a, w).waiting = a.waiting /\ Passed(a, w).start = a.start
         /\ Passed(a, w).last = a.last /\ Passed(a, w).index = a.index /\ Passed(a, w).cards = a.cards
<1>1. a.used \in Nat /\ a.passes \in Nat /\ a.max \in 1..MaxPasses /\ MaxPasses \in Nat
  BY DelegationAssumption DEF Authority
<1>2. ~(a.used > 3 * MaxPasses)
  BY <1>1
<1>3. PICK p \in Nat, u \in Nat : p = a.passes + 1 /\ u = a.used + 1
  BY <1>1
<1>4. Passed(a, w) = [a EXCEPT !.prev = w, !.passes = p, !.used = u]
  BY <1>2, <1>3 DEF Passed
<1>5. PICK x : x = [a EXCEPT !.prev = w, !.passes = p, !.used = u]
  OBVIOUS
<1>6. x \in Authority
  BY <1>5 DEF Authority
<1>7. /\ x.prev = w /\ x.passes = p /\ x.used = u /\ x.waiting = a.waiting /\ x.start = a.start
      /\ x.last = a.last /\ x.index = a.index /\ x.cards = a.cards
  BY <1>5 DEF Authority
<1>8. Kept(a, x)
  BY <1>5 DEF Kept, Authority
<1>9. QED
  BY <1>3, <1>4, <1>5, <1>6, <1>7, <1>8

(* x is what a becomes when it goes on with a card of its own.              *)
Went(a, w, how, card, index, x) ==
  /\ x \in Authority /\ Kept(a, x) /\ x.prev = w /\ x.passes = a.passes /\ x.used = a.used
  /\ x.waiting = FALSE /\ x.last = how /\ x.index = index /\ x.cards = a.cards \cup {card}

LEMMA OnwardIs ==
  ASSUME NEW a \in Authority, NEW w \in Window, NEW how \in {"PlayLand", "CastSpell"},
         NEW card \in {Land, Spell}, NEW index \in Nat
  PROVE  Went(a, w, how, card, index, Onward(a, w, how, card, index))
<1>1. PICK c : c = a.cards \cup {card}
  OBVIOUS
<1>2. c \in SUBSET {Land, Spell}
  BY <1>1 DEF Authority
<1>3. PICK b \in BOOLEAN : b = FALSE
  OBVIOUS
<1>4. PICK x : x = [a EXCEPT !.prev = w, !.waiting = b, !.last = how, !.index = index, !.cards = c]
  OBVIOUS
<1>5. Onward(a, w, how, card, index) = x
  BY <1>1, <1>3, <1>4 DEF Onward
<1>6. x \in Authority
  BY <1>2, <1>4 DEF Authority
<1>7. /\ x.prev = w /\ x.passes = a.passes /\ x.used = a.used /\ x.waiting = b /\ x.last = how
      /\ x.index = index /\ x.cards = c
  BY <1>4 DEF Authority
<1>8. Kept(a, x)
  BY <1>4 DEF Kept, Authority
<1>9. Went(a, w, how, card, index, x)
  BY <1>1, <1>3, <1>6, <1>7, <1>8 DEF Went
<1>10. QED
  BY <1>5, <1>9

(* The stage of an authority says which of its answers may come.           *)
LEMMA StageIs ==
  ASSUME NEW a, Sound(a)
  PROVE  /\ a \in Authority /\ a.max >= 1 /\ a.max <= MaxPasses /\ a.max \in Nat /\ a.used <= 2 * a.max
         /\ a.kind = "lease" => AtLease(a)
         /\ a.kind = "cast" => AtCast(a)
         /\ a.kind = "plan" /\ a.waiting => AtFirstWait(a) \/ AtLastWait(a)
         /\ a.kind = "plan" /\ ~a.waiting /\ a.last = "PlayLand" => AtLand(a)
         /\ a.kind = "plan" /\ ~a.waiting /\ a.last = "CastSpell" => AtSpell(a)
<1>1. a \in Authority /\ a.max \in 1..MaxPasses /\ a.max \in Nat /\ a.used \in Nat /\ a.passes \in Nat
  BY DelegationAssumption DEF Sound, Authority
<1>2. AtLease(a) \/ AtCast(a) \/ AtFirstWait(a) \/ AtLand(a) \/ AtSpell(a) \/ AtLastWait(a)
  BY DEF Sound
<1>3. a.max >= 1 /\ a.max <= MaxPasses
  BY <1>1, DelegationAssumption
<1>4. a.used <= 2 * a.max
  <2>1. AtCast(a) => a.used = 0
    BY DEF AtCast
  <2>2. QED
    BY <1>1, <1>2, <1>3, <2>1 DEF AtLease, AtFirstWait, AtLand, AtSpell, AtLastWait
<1>5. a.kind = "lease" => AtLease(a)
  BY <1>2 DEF AtCast, AtFirstWait, AtLand, AtSpell, AtLastWait
<1>6. a.kind = "cast" => AtCast(a)
  BY <1>2 DEF AtLease, AtFirstWait, AtLand, AtSpell, AtLastWait
<1>7. a.kind = "plan" /\ a.waiting => AtFirstWait(a) \/ AtLastWait(a)
  BY <1>2 DEF AtLease, AtCast, AtLand, AtSpell
<1>8. a.kind = "plan" /\ ~a.waiting /\ a.last = "PlayLand" => AtLand(a)
  BY <1>2 DEF AtLease, AtCast, AtFirstWait, AtSpell, AtLastWait
<1>9. a.kind = "plan" /\ ~a.waiting /\ a.last = "CastSpell" => AtSpell(a)
  BY <1>2 DEF AtLease, AtCast, AtFirstWait, AtLand, AtLastWait
<1>10. QED
  BY <1>1, <1>3, <1>4, <1>5, <1>6, <1>7, <1>8, <1>9

LEMMA WaitIsRight ==
  ASSUME NEW a, Sound(a), NEW w \in Window, LeasePasses(a, w) \/ PlanPasses(a, w)
  PROVE  Right(a, w)
<1>1. /\ w.valid /\ Unspent(a) /\ SameMenu(a, w) /\ Unchanged(a, w)
      /\ a.kind \in {"lease", "plan"} /\ (a.kind = "plan" => a.waiting)
      /\ AnswerOf(a, w) = "pass" /\ PutBack(a, w) = {Passed(a, w)}
  BY AnswersAre DEF LeasePasses, PlanPasses, PlanGoesOn, Continues
<1>2. AtLease(a) \/ AtFirstWait(a) \/ AtLastWait(a)
  BY <1>1, StageIs
<1>3. /\ a \in Authority /\ a.max \in Nat /\ a.max >= 1 /\ a.max <= MaxPasses /\ a.used <= 2 * a.max
      /\ a.used \in Nat /\ a.passes \in Nat /\ a.waiting /\ MaxPasses \in Nat
  BY <1>2, StageIs, DelegationAssumption DEF Authority, AtLease, AtFirstWait, AtLastWait
<1>4. a.passes < a.max
  BY <1>1, <1>3 DEF Unspent
<1>5. /\ SameTable(a.prev, w) /\ w.mana = a.seen.mana /\ w.life = a.seen.life
      /\ a.watch => w.foe = a.seen.foe
      /\ Extends(a.seen, w)
      /\ Range(Events(a.seen, w)) \subseteq Routine \cup (IF Spell \in a.cards THEN {"spellCast"} ELSE {})
  BY <1>1, UndisturbedMeans
<1>6. ~w.decision /\ IF a.named THEN w.ability = a.seen.ability /\ w.turn = a.seen.turn
                     ELSE w.ability = 0 /\ ~LandOffered(w) /\ ~SpellOffered(w)
  <2>1. CASE a.named
    <3>1. w.turn = a.start.turn /\ AbilityKeys(w) = {{"ability"}} /\ w.ability = a.menu
      BY <1>1, <2>1 DEF SameMenu, MenuDigest
    <3>2. NativePass(w)
      BY <3>1 DEF AbilityKeys
    <3>3. AtLease(a)
      BY <1>1, <2>1, StageIs DEF Sound
    <3>4. QED
      BY <2>1, <3>1, <3>2, <3>3 DEF NativePass, AtLease
  <2>2. CASE ~a.named
    BY <1>1, <2>2 DEF SameMenu, PassAndManaOnly, NativePass
  <2>3. QED
    BY <2>1, <2>2
<1>7. /\ w.hand = a.seen.hand \ a.cards
      /\ w.board = a.seen.board \cup (a.cards \cap {Land})
      /\ w.stack = a.seen.stack \cup (a.cards \cap {Spell})
      /\ AtLease(a) \/ AtFirstWait(a) => SameTable(a.seen, w)
      /\ AtLastWait(a) => /\ w.hand = a.seen.hand \ {Land, Spell}
                          /\ w.board = a.seen.board \cup {Land}
                          /\ w.stack = a.seen.stack \cup {Spell}
  <2>1. CASE AtLease(a) \/ AtFirstWait(a)
    <3>1. SameTable(a.seen, a.prev) /\ a.cards = {} /\ ~AtLastWait(a)
      BY <2>1 DEF Sound, AtLease, AtFirstWait, AtSpell, AtLastWait
    <3>2. QED
      BY <1>5, <3>1 DEF SameTable
  <2>2. CASE AtLastWait(a)
    <3>1. /\ a.prev.hand = a.seen.hand \ {Land, Spell} /\ a.prev.board = a.seen.board \cup {Land}
          /\ a.prev.stack = a.seen.stack \cup {Spell} /\ a.cards = {Land, Spell}
          /\ ~AtLease(a) /\ ~AtFirstWait(a)
      BY <2>2 DEF Sound, AtLease, AtCast, AtFirstWait, AtLand, AtSpell, AtLastWait
    <3>2. QED
      BY <1>5, <3>1 DEF SameTable, Land, Spell
  <2>3. QED
    BY <1>2, <2>1, <2>2
<1>8. Reviewed(a, w)
  BY <1>1, <1>5, <1>6, <1>7 DEF Reviewed, SeenSince
<1>9. Within(a, w)
  <2>1. (IF a.max < MaxPasses THEN a.max ELSE MaxPasses) = a.max
    BY <1>3
  <2>2. a.used < Spans(a) * a.max
    <3>1. CASE AtLease(a) \/ AtFirstWait(a)
      BY <1>3, <1>4, <3>1 DEF AtLease, AtFirstWait, Spans
    <3>2. CASE AtLastWait(a)
      <4>1. Spans(a) = 2
        BY <3>2 DEF AtLastWait, Spans
      <4>2. QED
        BY <1>3, <1>4, <3>2, <4>1 DEF AtLastWait
    <3>3. QED
      BY <1>2, <3>1, <3>2
  <2>3. QED
    BY <1>1, <2>1, <2>2 DEF Within
<1>10. PICK x : x = Passed(a, w)
  OBVIOUS
<1>11. /\ x \in Authority /\ Kept(a, x) /\ x.prev = w /\ x.passes = a.passes + 1 /\ x.used = a.used + 1
       /\ x.waiting = a.waiting /\ x.start = a.start /\ x.last = a.last /\ x.index = a.index
       /\ x.cards = a.cards
  BY <1>3, <1>10, PassedIs
<1>12. FollowsFrom(x)
  BY <1>5, <1>11 DEF FollowsFrom, Kept
<1>13. /\ AtLease(a) => AtLease(x) /\ SameTable(x.seen, x.prev)
       /\ AtFirstWait(a) => AtFirstWait(x) /\ SameTable(x.seen, x.prev)
       /\ AtLastWait(a) => AtLastWait(x)
  BY <1>3, <1>4, <1>7, <1>11 DEF AtLease, AtFirstWait, AtLastWait, Kept
<1>14. Sound(x)
  BY <1>2, <1>7, <1>11, <1>12, <1>13 DEF Sound, Kept
<1>15. SoundAgain(a, w)
  BY <1>1, <1>10, <1>11, <1>14 DEF SoundAgain, Kept
<1>16. QED
  BY <1>8, <1>9, <1>15 DEF Right

LEMMA LandIsRight ==
  ASSUME NEW a, Sound(a), NEW w \in Window, PlanPlaysLand(a, w)
  PROVE  Right(a, w)
<1>1. /\ w.valid /\ ~w.decision /\ Unchanged(a, w) /\ a.kind = "plan" /\ a.waiting
      /\ a.index < Len(a.steps) /\ AnswerOf(a, w) = Land
      /\ PutBack(a, w) = IF a.index + 1 < Len(a.steps)
                         THEN {Onward(a, w, "PlayLand", Land, a.index + 2)} ELSE {}
  BY AnswersAre DEF PlanPlaysLand, PlanGoesOn
<1>2. AtFirstWait(a) /\ SameTable(a.seen, a.prev)
  BY <1>1, StageIs DEF Sound, AtFirstWait, AtSpell, AtLastWait
<1>3. a \in Authority /\ a.index = 1 /\ Len(a.steps) \in 1..4 /\ a.cards = {} /\ a.used <= a.max
  BY <1>2, StageIs DEF AtFirstWait
<1>4. /\ SameTable(a.prev, w) /\ w.mana = a.seen.mana /\ w.life = a.seen.life
      /\ a.watch => w.foe = a.seen.foe
      /\ Extends(a.seen, w)
      /\ Range(Events(a.seen, w)) \subseteq Routine \cup (IF Spell \in a.cards THEN {"spellCast"} ELSE {})
  BY <1>1, UndisturbedMeans
<1>5. SameTable(a.seen, w)
  BY <1>2, <1>4 DEF SameTable
<1>6. AnswerOf(a, w) # "pass"
  BY <1>1 DEF Land
<1>7. Reviewed(a, w)
  BY <1>1, <1>3, <1>4, <1>5, <1>6 DEF Reviewed, SeenSince, SameTable
<1>8. Within(a, w)
  BY <1>1, <1>3, <1>6 DEF Within
<1>9. CASE a.index + 1 < Len(a.steps)
  <2>n. PICK n \in 1..4 : n = Len(a.steps)
    BY <1>3
  <2>2. a.index + 2 = 3 /\ Len(a.steps) \in {3, 4}
    <3>1. 2 < n
      BY <1>3, <1>9, <2>n
    <3>2. n \in {3, 4}
      BY <3>1
    <3>3. QED
      BY <1>3, <2>n, <3>2
  <2>1. PICK x : x = Onward(a, w, "PlayLand", Land, 3)
    OBVIOUS
  <2>k. PutBack(a, w) = {x}
    BY <1>1, <1>9, <2>1, <2>2
  <2>3. /\ x \in Authority /\ Kept(a, x) /\ x.prev = w /\ x.used = a.used /\ x.waiting = FALSE
        /\ x.last = "PlayLand" /\ x.index = 3 /\ x.cards = {Land}
    <3>1. "PlayLand" \in {"PlayLand", "CastSpell"} /\ Land \in {Land, Spell} /\ 3 \in Nat
      OBVIOUS
    <3>2. /\ x \in Authority /\ Kept(a, x) /\ x.prev = w /\ x.used = a.used /\ x.waiting = FALSE
          /\ x.last = "PlayLand" /\ x.index = 3 /\ x.cards = a.cards \cup {Land}
      <4>1. Went(a, w, "PlayLand", Land, 3, x)
        BY <1>3, <2>1, <3>1, OnwardIs
      <4>2. QED
        BY <4>1 DEF Went
    <3>3. QED
      BY <1>3, <3>2
  <2>4. Range(Events(a.seen, w)) \subseteq Routine
    BY <1>3, <1>4
  <2>5. FollowsFrom(x)
    BY <1>4, <2>3, <2>4 DEF FollowsFrom, Kept
  <2>6. AtLand(x) /\ SameTable(x.seen, x.prev)
    BY <1>1, <1>3, <1>5, <2>2, <2>3 DEF AtLand, Kept
  <2>7. Sound(x)
    BY <1>1, <2>3, <2>5, <2>6 DEF Sound, Kept
  <2>8. QED
    BY <1>7, <1>8, <2>3, <2>7, <2>k DEF Right, SoundAgain, Kept
<1>10. CASE ~(a.index + 1 < Len(a.steps))
  BY <1>1, <1>7, <1>8, <1>10 DEF Right, SoundAgain
<1>11. QED
  BY <1>9, <1>10

LEMMA CastIsRight ==
  ASSUME NEW a, Sound(a), NEW w \in Window, PlanCasts(a, w) \/ CastFollows(a, w)
  PROVE  Right(a, w)
<1>1. AnswerOf(a, w) = Spell /\ AnswerOf(a, w) # "pass" /\ ReadyFollowupCast(a, w)
  BY AnswersAre DEF PlanCasts, CastFollows, Spell
<1>2. AtCast(a) \/ AtLand(a)
  BY StageIs DEF PlanCasts, CastFollows, PlanGoesOn
<1>3. a \in Authority /\ a.cards = {Land}
  BY <1>2, StageIs DEF AtCast, AtLand
<1>4. /\ w.valid /\ ~w.decision
      /\ w.hand = a.seen.hand \ {Land} /\ w.board = a.seen.board \cup {Land} /\ w.stack = a.seen.stack
      /\ w.mana = a.seen.mana /\ w.life = a.seen.life /\ w.foe = a.seen.foe
      /\ Extends(a.seen, w) /\ Range(Events(a.seen, w)) \subseteq Routine
  BY <1>1, <1>2, FollowupMeans
<1>5. Reviewed(a, w)
  BY <1>1, <1>3, <1>4 DEF Reviewed, SeenSince, Land, Spell
<1>6. Within(a, w)
  BY <1>1, <1>3 DEF Within, Land, Spell
<1>7. CASE CastFollows(a, w)
  BY <1>5, <1>6, <1>7, AnswersAre DEF Right, SoundAgain
<1>8. CASE PlanCasts(a, w)
  <2>1. /\ a.kind = "plan" /\ AtLand(a)
        /\ PutBack(a, w) = IF a.index < Len(a.steps)
                           THEN {Onward(a, w, "CastSpell", Spell, a.index + 1)} ELSE {}
    BY <1>2, <1>8, AnswersAre DEF PlanCasts, PlanGoesOn, AtCast
  <2>2. CASE a.index < Len(a.steps)
    <3>n. PICK n : n = Len(a.steps)
      OBVIOUS
    <3>k. /\ (a.index = 1 /\ n \in {1, 2}) \/ (a.index = 3 /\ n \in {3, 4})
          /\ a.index < n /\ a.used <= a.max
      BY <2>1, <2>2, <3>n DEF AtLand
    <3>m. a.index + 1 = n /\ n \in {2, 4} /\ n \in Nat
      BY <3>k
    <3>1. PICK x : x = Onward(a, w, "CastSpell", Spell, n)
      OBVIOUS
    <3>2. PutBack(a, w) = {x} /\ n = Len(a.steps) /\ Len(a.steps) \in {2, 4} /\ a.used <= a.max
      BY <2>1, <2>2, <3>1, <3>n, <3>k, <3>m
    <3>3. /\ x \in Authority /\ Kept(a, x) /\ x.prev = w /\ x.used = a.used /\ x.waiting = FALSE
          /\ x.last = "CastSpell" /\ x.index = Len(a.steps) /\ x.cards = {Land, Spell}
      <4>1. "CastSpell" \in {"PlayLand", "CastSpell"} /\ Spell \in {Land, Spell}
        OBVIOUS
      <4>2. /\ x \in Authority /\ Kept(a, x) /\ x.prev = w /\ x.used = a.used /\ x.waiting = FALSE
            /\ x.last = "CastSpell" /\ x.index = n /\ x.cards = a.cards \cup {Spell}
        <5>1. Went(a, w, "CastSpell", Spell, n, x)
          BY <1>3, <3>1, <3>m, <4>1, OnwardIs
        <5>2. QED
          BY <5>1 DEF Went
      <4>3. QED
        BY <1>3, <3>2, <4>2
    <3>4. FollowsFrom(x)
      BY <1>4, <3>3 DEF FollowsFrom, Kept
    <3>5. AtSpell(x)
      BY <2>1, <3>2, <3>3 DEF AtSpell, Kept
    <3>6. Sound(x)
      BY <1>4, <2>1, <3>3, <3>4, <3>5 DEF Sound, Kept
    <3>7. QED
      BY <1>5, <1>6, <3>2, <3>3, <3>6 DEF Right, SoundAgain, Kept
  <2>3. CASE ~(a.index < Len(a.steps))
    BY <1>5, <1>6, <2>1, <2>3 DEF Right, SoundAgain
  <2>4. QED
    BY <2>2, <2>3
<1>9. QED
  BY <1>7, <1>8

LEMMA AgainIsRight ==
  ASSUME NEW a, Sound(a), NEW w \in Window, PlanWaitsAgain(a, w), Earlier(a.prev, w)
  PROVE  Right(a, w)
<1>1. /\ w.valid /\ ~w.decision /\ a.kind = "plan" /\ AtSpell(a) /\ PostCastWaitReady(a, w)
      /\ AnswerOf(a, w) = "pass"
      /\ PutBack(a, w) = {Passed([a EXCEPT !.waiting = TRUE, !.start = w, !.passes = 0], w)}
  BY AnswersAre, StageIs DEF PlanWaitsAgain, PlanGoesOn
<1>2. /\ a \in Authority /\ a.max \in Nat /\ a.max >= 1 /\ a.max <= MaxPasses /\ a.used \in Nat
      /\ a.used <= a.max /\ a.cards = {Land, Spell} /\ MaxPasses \in Nat /\ ~a.named /\ a.watch
  BY <1>1, StageIs, DelegationAssumption DEF Sound, Authority, AtSpell
<1>3. /\ w.hand = a.seen.hand \ {Land, Spell} /\ w.board = a.seen.board \cup {Land}
      /\ w.stack = a.seen.stack \cup {Spell}
      /\ w.mana = a.seen.mana /\ w.life = a.seen.life /\ w.foe = a.seen.foe
      /\ Extends(a.seen, w) /\ Range(Events(a.seen, w)) \subseteq Routine \cup {"spellCast"}
  BY <1>1, PostCastMeans
<1>4. w.ability = 0 /\ ~LandOffered(w) /\ ~SpellOffered(w)
  BY <1>1 DEF PostCastWaitReady, PassAndManaOnly
<1>5. Reviewed(a, w)
  BY <1>1, <1>2, <1>3, <1>4 DEF Reviewed, SeenSince, Land, Spell
<1>6. Within(a, w)
  <2>1. Spans(a) = 2
    BY <1>1 DEF Spans, AtSpell
  <2>2. (IF a.max < MaxPasses THEN a.max ELSE MaxPasses) = a.max
    BY <1>2
  <2>3. a.used < 2 * a.max
    BY <1>2
  <2>4. QED
    BY <1>1, <2>1, <2>2, <2>3 DEF Within
<1>7. PICK t \in BOOLEAN : t = TRUE
  OBVIOUS
<1>8. PICK b : b = [a EXCEPT !.waiting = t, !.start = w, !.passes = 0]
  OBVIOUS
<1>9. b \in Authority
  BY <1>2, <1>8 DEF Authority
<1>10. /\ b.waiting = t /\ b.passes = 0 /\ b.used = a.used /\ b.last = a.last /\ b.index = a.index
       /\ b.cards = a.cards /\ b.max = a.max
  BY <1>2, <1>8 DEF Authority
<1>11. Kept(a, b)
  BY <1>2, <1>8 DEF Kept, Authority
<1>12. PICK x : x = Passed(b, w)
  OBVIOUS
<1>13. /\ x \in Authority /\ Kept(b, x) /\ x.prev = w /\ x.passes = 1 /\ x.used = a.used + 1
       /\ x.waiting = t /\ x.last = a.last /\ x.index = a.index /\ x.cards = a.cards
  BY <1>2, <1>9, <1>10, <1>12, PassedIs
<1>14. Kept(a, x)
  BY <1>11, <1>13 DEF Kept
<1>15. FollowsFrom(x)
  BY <1>2, <1>3, <1>13, <1>14 DEF FollowsFrom, Kept
<1>16. AtLastWait(x)
  BY <1>1, <1>2, <1>7, <1>13, <1>14 DEF AtLastWait, AtSpell, Kept
<1>17. Sound(x)
  BY <1>1, <1>2, <1>3, <1>13, <1>14, <1>15, <1>16 DEF Sound, Kept
<1>18. PutBack(a, w) = {x}
  BY <1>1, <1>7, <1>8, <1>12
<1>19. SoundAgain(a, w)
  BY <1>13, <1>14, <1>17, <1>18 DEF SoundAgain, Kept
<1>20. QED
  BY <1>5, <1>6, <1>19 DEF Right

(* Whatever an authority answers is right.                                 *)
LEMMA AnswersAreRight ==
  ASSUME NEW a, Sound(a), NEW w \in Window, Earlier(a.prev, w), AnswerOf(a, w) # "none"
  PROVE  Right(a, w)
  BY AnswersAre, WaitIsRight, LandIsRight, CastIsRight, AgainIsRight

(***************************************************************************)
(* What the pilot gives is sound, and stays so.                            *)
(***************************************************************************)

(* Whether the pilot was asked again does not change what an authority is. *)
LEMMA StaleIsSound ==
  ASSUME NEW a, Sound(a), NEW t \in BOOLEAN
  PROVE  /\ Sound([a EXCEPT !.stale = t])
         /\ [a EXCEPT !.stale = t].prev = a.prev /\ [a EXCEPT !.stale = t].stale = t
<1>1. a \in Authority
  BY DEF Sound
<1>2. PICK b : b = [a EXCEPT !.stale = t]
  OBVIOUS
<1>3. b \in Authority
  BY <1>1, <1>2 DEF Authority
<1>4. /\ b.kind = a.kind /\ b.steps = a.steps /\ b.index = a.index /\ b.until = a.until
      /\ b.max = a.max /\ b.watch = a.watch /\ b.named = a.named /\ b.menu = a.menu
      /\ b.waiting = a.waiting /\ b.start = a.start /\ b.prev = a.prev /\ b.passes = a.passes
      /\ b.last = a.last /\ b.seen = a.seen /\ b.used = a.used /\ b.cards = a.cards
  BY <1>1, <1>2 DEF Authority
<1>5. b.stale = t
  BY <1>1, <1>2 DEF Authority
<1>6. FollowsFrom(b)
  BY <1>4 DEF Sound, FollowsFrom
<1>7. /\ AtLease(a) => AtLease(b)
      /\ AtCast(a) => AtCast(b)
      /\ AtFirstWait(a) => AtFirstWait(b)
      /\ AtLand(a) => AtLand(b)
      /\ AtSpell(a) => AtSpell(b)
      /\ AtLastWait(a) => AtLastWait(b)
  BY <1>4 DEF AtLease, AtCast, AtFirstWait, AtLand, AtSpell, AtLastWait
<1>8. Sound(b)
  BY <1>3, <1>4, <1>6, <1>7 DEF Sound
<1>9. QED
  BY <1>2, <1>4, <1>5, <1>8

LEMMA StandsStill ==
  ASSUME NEW a \in Authority, a.prev = a.seen
  PROVE  FollowsFrom(a) /\ SameTable(a.seen, a.prev)
<1>1. a.seen \in Window
  BY DEF Authority
<1>2. QED
  BY <1>1, ExtendsItself DEF FollowsFrom, SameTable

LEMMA LeaseIsSound ==
  ASSUME NEW w \in Window, NEW until \in {"phase_end", "next_own_main", "none", "turn_end"},
         NEW watch \in BOOLEAN, NEW named \in BOOLEAN
  PROVE  /\ NewLease(w, until, watch, named) \in Authority
         /\ Sound(NewLease(w, until, watch, named))
<1>1. PICK x : x = NewLease(w, until, watch, named)
  OBVIOUS
<1>2. MaxPasses \in 1..MaxPasses /\ 0 <= MaxPasses /\ w.ability \in {0, 1, 2}
  BY DelegationAssumption DEF Window
<1>3. x \in Authority
  BY <1>1, <1>2 DEF NewLease, Authority, MenuDigest
<1>4. /\ x.kind = "lease" /\ x.waiting = TRUE /\ x.cards = {} /\ x.used = 0 /\ x.passes = 0
      /\ x.max = MaxPasses /\ x.start = w /\ x.prev = w /\ x.seen = w /\ x.menu = w.ability
  BY <1>1 DEF NewLease, MenuDigest
<1>5. AtLease(x)
  BY <1>2, <1>4 DEF AtLease
<1>6. Sound(x)
  BY <1>3, <1>4, <1>5, StandsStill DEF Sound
<1>7. QED
  BY <1>1, <1>3, <1>6

LEMMA CastIsSound ==
  ASSUME NEW w \in Window
  PROVE  Sound(NewCast(w)) /\ NewCast(w).prev = w /\ NewCast(w).stale = FALSE
<1>1. PICK l : l = NewLease(w, "none", TRUE, FALSE)
  OBVIOUS
<1>2. l \in Authority
  BY <1>1, LeaseIsSound
<1>3. PICK f \in BOOLEAN, c \in SUBSET {Land, Spell} : f = FALSE /\ c = {Land}
  OBVIOUS
<1>4. PICK x : x = [l EXCEPT !.kind = "cast", !.waiting = f, !.last = "PlayLand", !.cards = c]
  OBVIOUS
<1>5. NewCast(w) = x
  BY <1>1, <1>3, <1>4 DEF NewCast
<1>6. x \in Authority
  BY <1>2, <1>4 DEF Authority
<1>7. /\ x.kind = "cast" /\ x.waiting = f /\ x.last = "PlayLand" /\ x.cards = c
      /\ x.used = l.used /\ x.prev = l.prev /\ x.seen = l.seen /\ x.watch = l.watch
      /\ x.named = l.named /\ x.stale = l.stale
  BY <1>2, <1>4 DEF Authority
<1>8. /\ l.used = 0 /\ l.prev = w /\ l.seen = w /\ l.watch = TRUE /\ l.named = FALSE
      /\ l.stale = FALSE
  BY <1>1 DEF NewLease
<1>9. AtCast(x)
  BY <1>3, <1>7, <1>8 DEF AtCast
<1>10. Sound(x)
  BY <1>6, <1>7, <1>8, <1>9, StandsStill DEF Sound
<1>11. QED
  BY <1>5, <1>7, <1>8, <1>10

FreshFor(x, w) == Sound(x) /\ x.prev = w /\ x.stale = FALSE

LEMMA PlanIsSound ==
  ASSUME NEW w \in Window, NEW kind \in {"PassPriority", "PlayLand"},
         NEW steps \in Seq({"wait", "playLand", "cast"}),
         \/ kind = "PassPriority" /\ Len(steps) \in 1..4
         \/ kind = "PlayLand" /\ Len(steps) \in {1, 2},
         NEW until \in {"phase_end", "next_own_main"}, NEW max \in 1..MaxPasses
  PROVE  FreshFor(NewPlan(w, kind, steps, until, max), w)
<1>1. PICK l : l = NewLease(w, until, TRUE, FALSE)
  OBVIOUS
<1>2. l \in Authority
  BY <1>1, LeaseIsSound
<1>3. PICK t \in BOOLEAN, c \in SUBSET {Land, Spell} :
        t = (kind = "PassPriority") /\ c = IF kind = "PlayLand" THEN {Land} ELSE {}
  OBVIOUS
<1>4. PICK x : x = [l EXCEPT !.kind = "plan", !.steps = steps, !.max = max, !.waiting = t,
                             !.last = kind, !.cards = c]
  OBVIOUS
<1>5. NewPlan(w, kind, steps, until, max) = x
  BY <1>1, <1>3, <1>4 DEF NewPlan
<1>6. x \in Authority
  BY <1>2, <1>4 DEF Authority
<1>7. /\ x.kind = "plan" /\ x.steps = steps /\ x.max = max /\ x.waiting = t /\ x.last = kind
      /\ x.cards = c /\ x.index = l.index /\ x.passes = l.passes
      /\ x.used = l.used /\ x.prev = l.prev /\ x.seen = l.seen /\ x.watch = l.watch
      /\ x.named = l.named /\ x.stale = l.stale
  BY <1>2, <1>4 DEF Authority
<1>8. /\ l.used = 0 /\ l.prev = w /\ l.seen = w /\ l.watch = TRUE /\ l.named = FALSE
      /\ l.stale = FALSE /\ l.index = 1 /\ l.passes = 0
  BY <1>1 DEF NewLease
<1>9. 0 <= max
  BY DelegationAssumption
<1>10. Sound(x)
  <2>1. AtFirstWait(x) \/ AtLand(x)
    BY <1>3, <1>7, <1>8, <1>9 DEF AtFirstWait, AtLand
  <2>2. x.watch /\ ~x.named
    BY <1>7, <1>8
  <2>3. QED
    BY <1>6, <1>7, <1>8, <2>1, <2>2, StandsStill DEF Sound
<1>11. QED
  BY <1>5, <1>7, <1>8, <1>10 DEF FreshFor

(* Whatever a directive of the pilot founds is sound.                      *)
LEMMA FoundedIsSound ==
  ASSUME conf \in Confs, NEW w \in Window, NEW answer, NEW x \in Founded(w, answer)
  PROVE  Sound(x) /\ x.prev = w /\ x.stale = FALSE
<1>1. /\ conf.named \in BOOLEAN /\ conf.until \in {"phase_end", "next_own_main"}
      /\ conf.max \in 1..MaxPasses
  BY DelegationAssumption DEF Conf
<1>2. x \in Delegations(w) \cup ThenCasts(w) \cup Continuations(w)
  BY DEF Founded, Land
<1>3. CASE x \in Delegations(w)
  <2>1. \/ \E watch \in BOOLEAN : x = NewLease(w, conf.until, conf.named \/ watch, FALSE)
        \/ x = NewLease(w, "turn_end", TRUE, TRUE)
    BY <1>3 DEF Delegations
  <2>2. \A until \in {"phase_end", "next_own_main", "none", "turn_end"}, watch, named \in BOOLEAN :
          /\ Sound(NewLease(w, until, watch, named))
          /\ NewLease(w, until, watch, named).prev = w
          /\ NewLease(w, until, watch, named).stale = FALSE
    BY LeaseIsSound DEF NewLease
  <2>3. CASE x = NewLease(w, "turn_end", TRUE, TRUE)
    BY <2>2, <2>3
  <2>4. ASSUME NEW watch \in BOOLEAN, x = NewLease(w, conf.until, conf.named \/ watch, FALSE)
        PROVE  Sound(x) /\ x.prev = w /\ x.stale = FALSE
    <3>1. PICK b \in BOOLEAN : b = (conf.named \/ watch)
      OBVIOUS
    <3>2. x = NewLease(w, conf.until, b, FALSE)
      BY <2>4, <3>1
    <3>3. QED
      BY <1>1, <2>2, <3>2
  <2>5. QED
    BY <2>1, <2>3, <2>4
<1>4. CASE x \in ThenCasts(w)
  BY <1>4, CastIsSound DEF ThenCasts
<1>5. CASE x \in Continuations(w)
  <2>1. \/ \E s \in WaitPlans(w) : x = NewPlan(w, "PassPriority", s, conf.until, conf.max)
        \/ \E s \in {<<"cast">>, <<"cast", "wait">>} : x = NewPlan(w, "PlayLand", s, conf.until, conf.max)
    BY <1>5 DEF Continuations
  <2>2. \A s \in {<<"cast">>, <<"cast", "wait">>} :
          s \in Seq({"wait", "playLand", "cast"}) /\ Len(s) \in {1, 2}
    <3>1. <<"cast">> \in Seq({"wait", "playLand", "cast"}) /\ Len(<<"cast">>) = 1
      OBVIOUS
    <3>2. <<"cast", "wait">> \in Seq({"wait", "playLand", "cast"}) /\ Len(<<"cast", "wait">>) = 2
      OBVIOUS
    <3>3. QED
      BY <3>1, <3>2
  <2>3. \A s \in WaitPlans(w) : s \in Seq({"wait", "playLand", "cast"}) /\ Len(s) \in 1..4
    <3>1. PICK p, q, r, t : /\ p = <<"wait">> /\ q = <<"wait", "playLand">>
                            /\ r = <<"wait", "playLand", "cast">>
                            /\ t = <<"wait", "playLand", "cast", "wait">>
      OBVIOUS
    <3>2. p \in Seq({"wait", "playLand", "cast"}) /\ Len(p) = 1
      BY <3>1
    <3>3. q \in Seq({"wait", "playLand", "cast"}) /\ Len(q) = 2
      BY <3>1
    <3>4. r \in Seq({"wait", "playLand", "cast"}) /\ Len(r) = 3
      BY <3>1
    <3>5. t \in Seq({"wait", "playLand", "cast"}) /\ Len(t) = 4
      BY <3>1
    <3>6. WaitPlans(w) \subseteq {p, q, r, t}
      BY <3>1 DEF WaitPlans
    <3>7. QED
      BY <3>2, <3>3, <3>4, <3>5, <3>6
  <2>4. ASSUME NEW s \in WaitPlans(w), x = NewPlan(w, "PassPriority", s, conf.until, conf.max)
        PROVE  Sound(x) /\ x.prev = w /\ x.stale = FALSE
    <3>1. s \in Seq({"wait", "playLand", "cast"}) /\ Len(s) \in 1..4
      BY <2>3
    <3>2. PICK k \in {"PassPriority", "PlayLand"} : k = "PassPriority"
      OBVIOUS
    <3>3. PICK u \in {"phase_end", "next_own_main"}, m \in 1..MaxPasses : u = conf.until /\ m = conf.max
      BY <1>1
    <3>4. FreshFor(NewPlan(w, k, s, u, m), w)
      BY <3>1, <3>2, PlanIsSound
    <3>5. QED
      BY <2>4, <3>2, <3>3, <3>4 DEF FreshFor
  <2>5. ASSUME NEW s \in {<<"cast">>, <<"cast", "wait">>},
               x = NewPlan(w, "PlayLand", s, conf.until, conf.max)
        PROVE  Sound(x) /\ x.prev = w /\ x.stale = FALSE
    <3>1. s \in Seq({"wait", "playLand", "cast"}) /\ Len(s) \in {1, 2}
      BY <2>2
    <3>2. PICK k \in {"PassPriority", "PlayLand"} : k = "PlayLand"
      OBVIOUS
    <3>3. PICK u \in {"phase_end", "next_own_main"}, m \in 1..MaxPasses : u = conf.until /\ m = conf.max
      BY <1>1
    <3>4. FreshFor(NewPlan(w, k, s, u, m), w)
      BY <3>1, <3>2, PlanIsSound
    <3>5. QED
      BY <2>5, <3>2, <3>3, <3>4 DEF FreshFor
  <2>6. QED
    BY <2>1, <2>4, <2>5
<1>6. QED
  BY <1>2, <1>3, <1>4, <1>5

(***************************************************************************)
(* The steps of the seat.                                                  *)
(***************************************************************************)

(* The game moves on, and the seat does nothing.                           *)
LEMMA GameMovesOn ==
  ASSUME AutopassInv, win' \in Window, Earlier(win, win'), waits' \subseteq Calls,
         UNCHANGED <<conf, store, calls>>
  PROVE  AutopassInv'
<1>1. AutopassTypes'
  BY DEF AutopassInv, AutopassTypes
<1>2. StoreOK'
  <2>1. ASSUME NEW a \in store
        PROVE  Sound(a) /\ Earlier(a.prev, win')
    BY EarlierChain DEF AutopassInv, AutopassTypes, StoreOK, Authority
  <2>2. QED
    BY <2>1 DEF StoreOK
<1>3. HeldOK'
  <2>1. ASSUME NEW c \in Calls
        PROVE  Earlier(calls[c].obs, win')
    BY EarlierChain DEF AutopassInv, AutopassTypes, HeldOK, OneCall
  <2>2. QED
    BY <2>1 DEF AutopassInv, HeldOK
<1>4. AloneOK'
  BY DEF AutopassInv, AloneOK
<1>5. QED
  BY <1>1, <1>2, <1>3, <1>4 DEF AutopassInv

LEMMA OthersStep == AutopassInv /\ Others => AutopassInv'
  BY OthersAreWindows, GameMovesOn DEF AutopassInv, AutopassTypes, Others

LEMMA AdvanceStep == AutopassInv /\ Advance => AutopassInv'
  BY ResolvedIsWindow, NextStepIsWindow, GameMovesOn DEF AutopassInv, AutopassTypes, Advance

LEMMA GiveUpStep == AutopassInv /\ GiveUp => AutopassInv'
  BY EarlierItself, GameMovesOn DEF AutopassInv, AutopassTypes, GiveUp

LEMMA IdleIsACall ==
  /\ Idle \in OneCall /\ Idle.pc = "idle" /\ Idle.obs = FirstWindow /\ Idle.held = {} /\ Idle.stale = FALSE
  /\ FirstWindow \in Window
<1>1. FirstWindow \in Window
  <2>1. <<>> \in Seq(Happenings)
    OBVIOUS
  <2>2. QED
    BY <2>1 DEF FirstWindow, Window, CardNames
<1>2. QED
  BY <1>1 DEF Idle, OneCall

LEMMA AskStep ==
  ASSUME AutopassInv, NEW c \in Calls, Ask(c)
  PROVE  AutopassInv'
<1>1. PICK x : x = [Idle EXCEPT !.pc = "popped", !.obs = win, !.held = store]
  OBVIOUS
<1>2. /\ x.pc = "popped" /\ x.obs = win /\ x.held = store /\ x.stale = FALSE
      /\ x = [pc |-> "popped", obs |-> win, held |-> store, stale |-> FALSE]
  BY <1>1, IdleIsACall DEF Idle
<1>3. x \in OneCall
  BY <1>2 DEF OneCall, AutopassInv, AutopassTypes
<1>4. /\ calls' = [calls EXCEPT ![c] = x] /\ store' = {} /\ waits' = {c}
      /\ UNCHANGED <<conf, win>> /\ calls[c].pc = "idle"
      /\ conf.recorded => \A d \in Calls : calls[d].pc = "idle"
  BY <1>1 DEF Ask
<1>5. /\ calls' \in [Calls -> OneCall] /\ calls'[c] = x
      /\ \A d \in Calls : d # c => calls'[d] = calls[d]
  BY <1>3, <1>4 DEF AutopassInv, AutopassTypes
<1>6. AutopassTypes'
  BY <1>2, <1>4, <1>5 DEF AutopassInv, AutopassTypes
<1>7. StoreOK'
  BY <1>4 DEF StoreOK
<1>8. HeldOK'
  <2>1. ASSUME NEW d \in Calls
        PROVE  /\ Earlier(calls'[d].obs, win)
               /\ \A a \in calls'[d].held : Sound(a) /\ Earlier(a.prev, calls'[d].obs)
    BY <1>2, <1>5, EarlierItself DEF AutopassInv, AutopassTypes, HeldOK, StoreOK
  <2>2. QED
    BY <1>4, <2>1 DEF HeldOK
<1>9. AloneOK'
  BY <1>2, <1>4, <1>5 DEF AutopassInv, AloneOK
<1>10. QED
  BY <1>6, <1>7, <1>8, <1>9 DEF AutopassInv

(* A call returns, and leaves sound authorities behind: one, with a        *)
(* recorder.                                                               *)
LEMMA ReturnStep ==
  ASSUME AutopassInv, NEW c \in Calls, calls[c].pc # "idle", NEW answer, Returns(c, answer), conf' = conf,
         \A a \in store' : Sound(a) /\ Earlier(a.prev, win),
         conf.recorded => store' = {} \/ \E a : store' = {a} /\ ~a.stale
  PROVE  AutopassInv'
<1>1. win' \in Window /\ Earlier(win, win')
  BY ExecutedIsWindow, EarlierItself DEF AutopassInv, AutopassTypes, Returns
<1>2. /\ calls' = [calls EXCEPT ![c] = Idle] /\ waits' = waits \ {c}
  BY DEF Returns
<1>3. /\ calls' \in [Calls -> OneCall] /\ calls'[c] = Idle
      /\ \A d \in Calls : d # c => calls'[d] = calls[d]
  BY <1>2, IdleIsACall DEF AutopassInv, AutopassTypes
<1>4. store' \subseteq Authority
  BY DEF Sound
<1>5. AutopassTypes'
  BY <1>1, <1>2, <1>3, <1>4 DEF AutopassInv, AutopassTypes
<1>6. StoreOK'
  <2>1. ASSUME NEW a \in store'
        PROVE  Sound(a) /\ Earlier(a.prev, win')
    BY <1>1, <1>4, EarlierChain DEF AutopassInv, AutopassTypes, Authority
  <2>2. QED
    BY <2>1 DEF StoreOK
<1>7. HeldOK'
  <2>1. ASSUME NEW d \in Calls, d # c
        PROVE  Earlier(calls'[d].obs, win')
    BY <1>1, <1>3, <2>1, EarlierChain DEF AutopassInv, AutopassTypes, HeldOK, OneCall
  <2>2. Earlier(calls'[c].obs, win')
    <3>1. Clock(win') \in Nat /\ Clock(win') >= 0 /\ win'.mana >= 0
      BY <1>1 DEF Clock, Window
    <3>2. Clock(FirstWindow) = 0 /\ FirstWindow.mana = 0
      BY DEF Clock, FirstWindow
    <3>3. QED
      BY <1>3, <3>1, <3>2, IdleIsACall DEF Earlier
  <2>3. ASSUME NEW d \in Calls, NEW a \in calls'[d].held
        PROVE  Sound(a) /\ Earlier(a.prev, calls'[d].obs)
    BY <1>3, <2>3, IdleIsACall DEF AutopassInv, HeldOK
  <2>4. QED
    BY <2>1, <2>2, <2>3 DEF HeldOK
<1>8. AloneOK'
  <2>1. ASSUME conf.recorded
        PROVE  \A d \in Calls : calls'[d] = Idle
    BY <1>3, <2>1 DEF AutopassInv, AutopassTypes, AloneOK
  <2>2. QED
    BY <2>1, IdleIsACall DEF AloneOK
<1>9. QED
  BY <1>5, <1>6, <1>7, <1>8 DEF AutopassInv

LEMMA DelegatesStep ==
  ASSUME AutopassInv, NEW c \in Calls, NEW a, Delegates(c, a)
  PROVE  AutopassInv' /\ Right(a, calls[c].obs) /\ a \in calls[c].held
<1>1. PICK w : w = calls[c].obs
  OBVIOUS
<1>2. /\ a \in calls[c].held /\ AnswerOf(a, w) # "none" /\ calls[c].pc = "popped"
  BY <1>1 DEF Delegates, Chosen, Able
<1>3. /\ w \in Window /\ Earlier(w, win) /\ Sound(a) /\ Earlier(a.prev, w)
  BY <1>1, <1>2 DEF AutopassInv, AutopassTypes, HeldOK, OneCall
<1>4. Right(a, w)
  BY <1>2, <1>3, AnswersAreRight
<1>5. PICK P : P = PutBack(a, w)
  OBVIOUS
<1>6. /\ \A x \in P : Sound(x) /\ x.prev = w /\ x.stale = a.stale
      /\ P = {} \/ \E x : P = {x}
  BY <1>4, <1>5 DEF Right, SoundAgain
<1>7. /\ store' = {x \in store : \A y \in P : y.kind # x.kind} \cup P
      /\ Returns(c, AnswerOf(a, w)) /\ conf' = conf
  BY <1>1, <1>5 DEF Delegates
<1>8. \A x \in store' : Sound(x) /\ Earlier(x.prev, win)
  BY <1>3, <1>6, <1>7 DEF AutopassInv, StoreOK
<1>9. conf.recorded => store' = {} \/ \E x : store' = {x} /\ ~x.stale
  <2>1. ASSUME conf.recorded
        PROVE  store = {} /\ ~a.stale
    BY <1>2, <2>1 DEF AutopassInv, AloneOK
  <2>2. ASSUME conf.recorded
        PROVE  store' = P
    BY <1>7, <2>1, <2>2
  <2>3. QED
    BY <1>6, <2>1, <2>2
<1>10. AutopassInv'
  BY <1>2, <1>7, <1>8, <1>9, ReturnStep
<1>11. QED
  BY <1>1, <1>2, <1>4, <1>10

LEMMA SupersededAreSound ==
  ASSUME NEW S, \A a \in S : Sound(a)
  PROVE  \A x \in Superseded(S) : Sound(x) /\ \E a \in S : x.prev = a.prev
<1>1. ASSUME NEW x \in Superseded(S)
      PROVE  Sound(x) /\ \E a \in S : x.prev = a.prev
  <2>1. PICK a \in S : x = [a EXCEPT !.stale = TRUE]
    BY DEF Superseded
  <2>2. PICK t \in BOOLEAN : t = TRUE
    OBVIOUS
  <2>3. x = [a EXCEPT !.stale = t]
    BY <2>1, <2>2
  <2>4. QED
    BY <2>3, StaleIsSound
<1>2. QED
  BY <1>1

LEMMA WakesStep ==
  ASSUME AutopassInv, NEW c \in Calls, Wakes(c)
  PROVE  AutopassInv'
<1>1. /\ calls[c].pc = "popped" /\ store' = Superseded(store) /\ UNCHANGED <<conf, win, waits>>
      /\ calls' = [d \in Calls |->
           IF d = c THEN [calls[c] EXCEPT !.pc = "asking", !.held = {}]
           ELSE [calls[d] EXCEPT !.stale = calls[d].pc # "idle", !.held = Superseded(@)]]
  BY DEF Wakes
<1>2. \A d \in Calls : calls[d] \in OneCall /\ \A a \in calls[d].held : Sound(a)
  BY DEF AutopassInv, AutopassTypes, HeldOK
<1>3. /\ calls'[c] \in OneCall /\ calls'[c].pc = "asking" /\ calls'[c].held = {}
      /\ calls'[c].obs = calls[c].obs /\ calls'[c].stale = calls[c].stale
  <2>1. PICK x : x = [calls[c] EXCEPT !.pc = "asking", !.held = {}]
    OBVIOUS
  <2>2. calls'[c] = x
    BY <1>1, <2>1
  <2>3. x \in OneCall
    BY <1>2, <2>1 DEF OneCall
  <2>4. x.pc = "asking" /\ x.held = {} /\ x.obs = calls[c].obs /\ x.stale = calls[c].stale
    BY <1>2, <2>1 DEF OneCall
  <2>5. QED
    BY <2>2, <2>3, <2>4
<1>4. ASSUME NEW d \in Calls, d # c
      PROVE  /\ calls'[d] \in OneCall /\ calls'[d].pc = calls[d].pc /\ calls'[d].obs = calls[d].obs
             /\ calls'[d].held = Superseded(calls[d].held)
             /\ calls[d].pc = "idle" => calls'[d] = Idle
  <2>1. PICK t \in BOOLEAN : t = (calls[d].pc # "idle")
    OBVIOUS
  <2>h. PICK h : h = Superseded(calls[d].held)
    OBVIOUS
  <2>2. PICK x : x = [calls[d] EXCEPT !.stale = t, !.held = h]
    OBVIOUS
  <2>3. calls'[d] = x
    BY <1>1, <1>4, <2>1, <2>2, <2>h
  <2>4. h \subseteq Authority
    BY <1>2, <2>h, SupersededAreSound DEF Sound
  <2>5. x \in OneCall
    BY <1>2, <2>2, <2>4 DEF OneCall
  <2>6. x.pc = calls[d].pc /\ x.obs = calls[d].obs /\ x.held = h /\ x.stale = t
    BY <1>2, <2>2 DEF OneCall
  <2>7. ASSUME calls[d].pc = "idle"
        PROVE  x = Idle
    <3>1. calls[d] = Idle
      BY <2>7 DEF AutopassInv, AutopassTypes
    <3>2. h = {} /\ t = FALSE
      BY <2>1, <2>7, <2>h, <3>1, IdleIsACall DEF Superseded
    <3>3. x \in OneCall /\ Idle \in OneCall /\ x.pc = Idle.pc /\ x.obs = Idle.obs
          /\ x.held = Idle.held /\ x.stale = Idle.stale
      BY <2>1, <2>5, <2>6, <3>1, <3>2, IdleIsACall
    <3>4. QED
      BY <3>3 DEF OneCall
  <2>8. QED
    BY <2>1, <2>3, <2>5, <2>6, <2>7, <2>h
<1>5. AutopassTypes'
  <2>1. calls' \in [Calls -> OneCall]
    BY <1>1, <1>3, <1>4
  <2>2. \A d \in Calls : calls'[d].pc = "idle" => calls'[d] = Idle
    BY <1>3, <1>4
  <2>3. store' \subseteq Authority
    BY <1>1, SupersededAreSound DEF AutopassInv, StoreOK, Sound
  <2>4. QED
    BY <1>1, <2>1, <2>2, <2>3 DEF AutopassInv, AutopassTypes
<1>6. StoreOK'
  <2>1. \A a \in store : Sound(a) /\ Earlier(a.prev, win)
    BY DEF AutopassInv, StoreOK
  <2>2. \A x \in Superseded(store) : Sound(x) /\ \E a \in store : x.prev = a.prev
    BY <2>1, SupersededAreSound
  <2>3. QED
    BY <1>1, <2>1, <2>2 DEF StoreOK
<1>7. HeldOK'
  <2>1. ASSUME NEW d \in Calls
        PROVE  Earlier(calls'[d].obs, win)
    BY <1>3, <1>4 DEF AutopassInv, HeldOK
  <2>2. ASSUME NEW d \in Calls, d # c, NEW x \in calls'[d].held
        PROVE  Sound(x) /\ Earlier(x.prev, calls'[d].obs)
    <3>1. \A a \in calls[d].held : Sound(a) /\ Earlier(a.prev, calls[d].obs)
      BY DEF AutopassInv, HeldOK
    <3>2. Sound(x) /\ \E a \in calls[d].held : x.prev = a.prev
      BY <1>4, <2>2, <3>1, SupersededAreSound
    <3>3. QED
      BY <1>4, <2>2, <3>1, <3>2
  <2>3. QED
    BY <1>1, <1>3, <2>1, <2>2 DEF HeldOK
<1>8. AloneOK'
  <2>1. ASSUME conf.recorded
        PROVE  /\ store' = {} /\ ~calls'[c].stale
               /\ \A d \in Calls : d # c => calls'[d] = Idle
    <3>1. /\ store = {} /\ ~calls[c].stale
          /\ \A d \in Calls : d # c => calls[d].pc = "idle"
      BY <1>1, <2>1 DEF AutopassInv, AloneOK
    <3>2. store' = {}
      BY <1>1, <3>1 DEF Superseded
    <3>3. QED
      BY <1>3, <1>4, <3>1, <3>2
  <2>2. QED
    BY <1>1, <1>3, <2>1, IdleIsACall DEF AloneOK
<1>9. QED
  BY <1>5, <1>6, <1>7, <1>8 DEF AutopassInv

LEMMA PilotAnswersStep ==
  ASSUME AutopassInv, NEW c \in Calls, PilotAnswers(c)
  PROVE  AutopassInv'
<1>1. PICK w : w = calls[c].obs
  OBVIOUS
<1>2. PICK answer \in Answerable(w) :
        /\ store' = store \/ \E a \in Founded(w, answer) : store' = Arm(c, a)
        /\ Returns(c, answer)
  BY <1>1 DEF PilotAnswers
<1>3. /\ calls[c].pc = "asking" /\ conf' = conf /\ w \in Window /\ Earlier(w, win)
      /\ conf \in Confs /\ calls[c].stale \in BOOLEAN
  BY <1>1 DEF PilotAnswers, AutopassInv, AutopassTypes, HeldOK, OneCall
<1>4. conf.recorded => store = {} /\ ~calls[c].stale
  BY <1>3 DEF AutopassInv, AloneOK
<1>5. CASE store' = store
  <2>1. \A x \in store' : Sound(x) /\ Earlier(x.prev, win)
    BY <1>5 DEF AutopassInv, StoreOK
  <2>2. QED
    BY <1>2, <1>3, <1>4, <1>5, <2>1, ReturnStep
<1>6. ASSUME NEW a \in Founded(w, answer), store' = Arm(c, a)
      PROVE  AutopassInv'
  <2>1. Sound(a) /\ a.prev = w
    BY <1>3, FoundedIsSound
  <2>2. PICK x : x = [a EXCEPT !.stale = calls[c].stale]
    OBVIOUS
  <2>3. Sound(x) /\ x.prev = w /\ x.stale = calls[c].stale
    BY <1>3, <2>1, <2>2, StaleIsSound
  <2>4. store' = {y \in store : y.kind # x.kind} \cup {x}
    BY <1>6, <2>2 DEF Arm, Put
  <2>5. \A y \in store' : Sound(y) /\ Earlier(y.prev, win)
    BY <1>3, <2>3, <2>4 DEF AutopassInv, StoreOK
  <2>6. conf.recorded => store' = {x} /\ ~x.stale
    BY <1>4, <2>3, <2>4
  <2>7. QED
    BY <1>2, <1>3, <2>5, <2>6, ReturnStep
<1>7. QED
  BY <1>2, <1>5, <1>6

LEMMA PilotRaisesStep ==
  ASSUME AutopassInv, NEW c \in Calls, PilotRaises(c)
  PROVE  AutopassInv'
<1>1. /\ calls[c].pc = "asking" /\ Returns(c, "none") /\ conf' = conf /\ store' = store
  BY DEF PilotRaises
<1>2. \A x \in store' : Sound(x) /\ Earlier(x.prev, win)
  BY <1>1 DEF AutopassInv, StoreOK
<1>3. conf.recorded => store' = {}
  BY <1>1 DEF AutopassInv, AloneOK
<1>4. QED
  BY <1>1, <1>2, <1>3, ReturnStep

LEMMA AutopassInductive ==
  /\ AutopassInit => AutopassInv
  /\ AutopassInv /\ [AutopassNext]_autopassVars => AutopassInv'
<1>1. AutopassInit => AutopassInv
  <2>1. SUFFICES ASSUME AutopassInit
                 PROVE  AutopassInv
    OBVIOUS
  <2>2. conf \in Confs /\ win = FirstWindow /\ waits = {} /\ store = {} /\ calls = [c \in Calls |-> Idle]
    BY <2>1 DEF AutopassInit
  <2>3. AutopassTypes
    BY <2>2, IdleIsACall DEF AutopassTypes
  <2>4. StoreOK /\ HeldOK /\ AloneOK
    BY <2>2, IdleIsACall, EarlierItself DEF StoreOK, HeldOK, AloneOK
  <2>5. QED
    BY <2>3, <2>4 DEF AutopassInv
<1>2. AutopassInv /\ [AutopassNext]_autopassVars => AutopassInv'
  <2>1. SUFFICES ASSUME AutopassInv, [AutopassNext]_autopassVars
                 PROVE  AutopassInv'
    OBVIOUS
  <2>2. CASE UNCHANGED autopassVars
    BY <2>1, <2>2 DEF autopassVars, AutopassInv, AutopassTypes, StoreOK, HeldOK, AloneOK
  <2>3. ASSUME NEW c \in Calls, Ask(c) \/ Serve(c)
        PROVE  AutopassInv'
    BY <2>1, <2>3, AskStep, DelegatesStep, WakesStep, PilotAnswersStep, PilotRaisesStep DEF Serve, Delegate
  <2>4. QED
    BY <2>1, <2>2, <2>3, OthersStep, AdvanceStep, GiveUpStep DEF AutopassNext
<1>3. QED
  BY <1>1, <1>2

(* Whatever is answered in the pilot's place was delegated by it, and is   *)
(* still: the window is the one it saw but for its own cards and what is   *)
(* routine (DelegatedIsReviewed), the passes and cards are not used up     *)
(* (AuthorityIsSpent), and with a recorder there is one authority, none    *)
(* older than the last time the pilot was asked (WakeDiscards).            *)
THEOREM DelegationSound == AutopassSpec => DelegationIsSound
<1> DEFINE OfOthers == \A c \in Calls : \A a \in calls[c].held : Delegates(c, a) => Reviewed(a, calls[c].obs)
           InLimits == \A c \in Calls : \A a \in calls[c].held : Delegates(c, a) => Within(a, calls[c].obs)
           NotOld == conf.recorded => \A c \in Calls : \A a \in calls[c].held : Delegates(c, a) => ~a.stale
<1>1. AutopassInv /\ [AutopassNext]_autopassVars => OfOthers /\ InLimits
  BY DelegatesStep DEF Right
<1>2. AutopassInv => NotOld
  BY DEF AutopassInv, AloneOK
<1>3. AutopassInv /\ AutopassInv' /\ [AutopassNext]_autopassVars =>
        /\ \A c \in Calls : \A a \in calls[c].held : Delegates(c, a) => Reviewed(a, calls[c].obs)
        /\ \A c \in Calls : \A a \in calls[c].held :
             Delegates(c, a) =>
               LET answer == AnswerOf(a, calls[c].obs)
                   spans == IF a.kind = "plan" /\ Len(a.steps) \in {2, 4} /\ Spell \in a.cards
                            THEN 2 ELSE 1
               IN IF answer = "pass" THEN a.used < spans * (IF a.max < MaxPasses THEN a.max ELSE MaxPasses)
                  ELSE answer \notin a.cards
  BY <1>1 DEF Within, Spans
<1>4. AutopassInv /\ AutopassInv' /\ [AutopassNext]_autopassVars =>
        (conf.recorded => /\ Cardinality(store') <= 1
                          /\ \A c \in Calls : \A a \in calls[c].held : Delegates(c, a) => ~a.stale)
  <2>1. conf' = conf \/ ~[AutopassNext]_autopassVars
    BY DEF AutopassNext, autopassVars, Others, Advance, GiveUp, Ask, Serve, Delegate, Delegates, Wakes,
           PilotAnswers, PilotRaises
  <2>2. AutopassInv' => (conf'.recorded => Cardinality(store') <= 1)
    <3>1. SUFFICES ASSUME AutopassInv', conf'.recorded
                   PROVE  Cardinality(store') <= 1
      OBVIOUS
    <3>2. store' = {} \/ \E a : store' = {a}
      BY <3>1 DEF AutopassInv, AloneOK
    <3>3. CASE store' = {}
      BY <3>3, FS_EmptySet
    <3>4. ASSUME NEW a, store' = {a}
          PROVE  Cardinality(store') <= 1
      <4>1. Cardinality({a}) = 1
        BY FS_Singleton
      <4>2. Cardinality(store') = 1
        BY <3>4, <4>1
      <4>3. QED
        BY <4>2
    <3>5. QED
      BY <3>2, <3>3, <3>4
  <2>3. QED
    BY <1>2, <2>1, <2>2
<1>5. QED
  BY <1>3, <1>4, AutopassInductive, PTL
     DEF AutopassSpec, DelegationIsSound, DelegatedIsReviewed, AuthorityIsSpent, WakeDiscards

=============================================================================
