------------------------ MODULE RecorderBridge_proofs ------------------------
(***************************************************************************)
(* What the recorder bridge keeps true of every game's callbacks, for any  *)
(* seats, number of turns, length of a backlog, number of tries and        *)
(* faults; and that it implements SeatTurns.                               *)
(***************************************************************************)
EXTENDS RecorderBridge, TLAPS

(* A choice was made and its record is on its way: the pilot was asked and *)
(* the thread has gone past the choice.                                    *)
Ended(c) == sidecar[c].at \in {"finished", "answered", "failed"} /\ sidecar[c].asked

(* No request for the callback has gone out.                               *)
NotBegun(c) ==
  \/ c[2] > native[c[1]].turn
  \/ c[2] = native[c[1]].turn /\ native[c[1]].at = "register"

(* Controllers: nothing was acted on that was not begun, what is under way *)
(* was not acted on, and HTTP answered 200 only for a recorded choice.     *)
ControllersInOrder ==
  \A s \in Seats :
    /\ native[s].acted \subseteq 1..native[s].turn
    /\ native[s].at # "idle" => native[s].turn >= 1 /\ native[s].turn \notin native[s].acted
    /\ native[s].ok => native[s].at = "closed" /\ On(TurnOf(s), "finished")

(* Threads: a pilot is asked once, after the start was acknowledged, and   *)
(* an answer of 200 leaves only after the end was.                         *)
ThreadsInOrder ==
  \A c \in Callbacks :
    /\ NotBegun(c) => sidecar[c].at = "idle"
    /\ sidecar[c].at \in {"idle", "requested", "started"} => ~sidecar[c].asked
    /\ sidecar[c].at \in {"choosing", "finished", "answered"} => sidecar[c].asked
    /\ sidecar[c].at = "choosing" => On(c, "started")
    /\ sidecar[c].at = "answered" => On(c, "finished")

(* The end of a choice is recorded, or waits to be, only after the choice. *)
EndsAfterChoice ==
  /\ \A c \in Callbacks : On(c, "finished") => Ended(c)
  /\ \A r \in Roles : \A i \in 1..Len(backlog[r]) :
       backlog[r][i].op = "finished" => Ended(backlog[r][i].cb)

(* One callback of a seat at a time has started and not finished.          *)
OnePending ==
  \A c, d \in Callbacks : SeatOf(c) = SeatOf(d) /\ Pending(c) /\ Pending(d) => c = d

BoundsOK == bounds \in [turns : 0..MaxTurns, kinds : SUBSET AllKinds, faults : Nat]

IInv ==
  /\ TypeOK /\ BoundsOK /\ ReceiptsInOrder /\ OnePending /\ AcknowledgedIsDurable
  /\ EndsAfterChoice /\ ThreadsInOrder /\ ControllersInOrder /\ ActedIsRecorded
-----------------------------------------------------------------------------
(***************************************************************************)
(* The journal's rows.                                                     *)
(***************************************************************************)

RowOf(m) == [cb |-> m.cb, op |-> m.op]

(* One listener wrote the message it took.                                 *)
Wrote(r) ==
  /\ backlog[r] # <<>> /\ Appends(Head(backlog[r]))
  /\ Write(Head(backlog[r]))

(* What a listener takes next is a message.                                *)
LEMMA HeadIsMessage ==
  ASSUME TypeOK, NEW r \in Roles, backlog[r] # <<>>
  PROVE  /\ Head(backlog[r]) \in Message
         /\ Len(backlog[r]) >= 1 /\ Head(backlog[r]) = backlog[r][1]
BY DEF TypeOK

(* A controller's turn is a callback of its seat.                          *)
LEMMA TurnIsCallback ==
  ASSUME TypeOK, NEW s \in Seats, native[s].turn >= 1
  PROVE  TurnOf(s) \in Callbacks /\ SeatOf(TurnOf(s)) = s
BY BridgeAssumption DEF TypeOK, TurnOf, Callbacks, SeatOf, Turns

(* A step adds at most one row, and that one is a message a listener took  *)
(* and the journal admits.                                                 *)
LEMMA OneRow ==
  ASSUME [Next]_vars
  PROVE  UNCHANGED receipts \/ \E r \in Roles : Wrote(r)
<1>1. ASSUME NEW s \in Seats, BeginTurn(s) \/ NativeStep(s)
      PROVE  UNCHANGED receipts
  BY <1>1 DEF BeginTurn, NativeStep, NativeGivesUp, Registered, HttpAnswers, HttpFails, Closed,
     OthersOfNative
<1>2. ASSUME NEW c \in Callbacks,
             \/ Arrives(c) \/ SidecarGivesUp(c) \/ AsksPilot(c)
             \/ PilotEnds(c) \/ RequestFails(c) \/ Answers(c) \/ Expire(c)
      PROVE  UNCHANGED receipts
  BY <1>2 DEF Arrives, SidecarGivesUp, AsksPilot, PilotEnds, RequestFails, Answers, Expire,
     OthersOfSidecar
<1>3. ASSUME NEW r \in Roles,
             HandleKnown(r) \/ HandleNew(r) \/ HandleFailing(r) \/ HandleRefused(r) \/ DiesWriting(r)
      PROVE  UNCHANGED receipts \/ Wrote(r)
  BY <1>3 DEF HandleKnown, HandleNew, HandleFailing, HandleRefused, DiesWriting, Take, Wrote
<1>4. CASE SidecarCrash \/ FinalizerStarts \/ FinalizerEnds \/ ScanTrouble \/ StopRequested
           \/ Ends \/ Boot \/ UNCHANGED vars
  BY <1>4 DEF SidecarCrash, FinalizerStarts, FinalizerEnds, ScanTrouble, StopRequested, Ends, Boot,
     vars
<1>5. QED
  BY <1>1, <1>2, <1>3, <1>4 DEF Next

(* What a written row adds to what is on record.                           *)
LEMMA WrittenIsOn ==
  ASSUME TypeOK, NEW r \in Roles, Wrote(r), NEW c \in Callbacks, NEW op \in Ops
  PROVE  On(c, op)' <=> On(c, op) \/ (Head(backlog[r]).cb = c /\ Head(backlog[r]).op = op)
<1> DEFINE m == Head(backlog[r])
<1>1. m \in Message
  BY HeadIsMessage DEF Wrote
<1>2. /\ receipts \in Seq(Receipt) /\ RowOf(m) \in Receipt /\ receipts' = Append(receipts, RowOf(m))
  BY <1>1 DEF TypeOK, Wrote, Write, RowOf, Message, Receipt
<1>3. /\ Len(receipts') = Len(receipts) + 1 /\ Len(receipts) \in Nat
      /\ \A i \in 1..Len(receipts) : receipts'[i] = receipts[i]
      /\ receipts'[Len(receipts) + 1] = RowOf(m)
  BY <1>2
<1>4. RowOf(m) = [cb |-> c, op |-> op] <=> m.cb = c /\ m.op = op
  BY DEF RowOf
<1>5. QED
  BY <1>3, <1>4 DEF On

(* What is on record stays on record.                                      *)
LEMMA RecordStays ==
  ASSUME TypeOK, [Next]_vars, NEW c \in Callbacks, NEW op \in Ops, On(c, op)
  PROVE  On(c, op)'
<1>1. CASE UNCHANGED receipts
  BY <1>1 DEF On
<1>2. CASE \E r \in Roles : Wrote(r)
  BY <1>2, WrittenIsOn
<1>3. QED
  BY <1>1, <1>2, OneRow

(* A sealed journal stays sealed.                                          *)
LEMMA SealStays ==
  ASSUME [Next]_vars, game = "sealed"
  PROVE  game' = "sealed"
<1>1. ASSUME NEW s \in Seats, BeginTurn(s) \/ NativeStep(s)
      PROVE  UNCHANGED game
  BY <1>1 DEF BeginTurn, NativeStep, NativeGivesUp, Registered, HttpAnswers, HttpFails, Closed,
     OthersOfNative
<1>2. ASSUME NEW c \in Callbacks,
             \/ Arrives(c) \/ SidecarGivesUp(c) \/ AsksPilot(c)
             \/ PilotEnds(c) \/ RequestFails(c) \/ Answers(c) \/ Expire(c)
      PROVE  UNCHANGED game
  BY <1>2 DEF Arrives, SidecarGivesUp, AsksPilot, PilotEnds, RequestFails, Answers, Expire,
     OthersOfSidecar
<1>3. ASSUME NEW r \in Roles,
             HandleKnown(r) \/ HandleNew(r) \/ HandleFailing(r) \/ HandleRefused(r) \/ DiesWriting(r)
      PROVE  UNCHANGED game
  BY <1>3 DEF HandleKnown, HandleNew, HandleFailing, HandleRefused, DiesWriting, Appends
<1>4. CASE SidecarCrash \/ FinalizerStarts \/ FinalizerEnds \/ ScanTrouble \/ StopRequested
           \/ Ends \/ Boot \/ UNCHANGED vars
  BY <1>4 DEF SidecarCrash, FinalizerStarts, FinalizerEnds, ScanTrouble, StopRequested, Ends, Boot,
     vars
<1>5. QED
  BY <1>1, <1>2, <1>3, <1>4 DEF Next

-----------------------------------------------------------------------------
(***************************************************************************)
(* The journal tells one story per callback.                               *)
(***************************************************************************)

(* On record, row by row.                                                  *)
LEMMA RowIsOn ==
  ASSUME TypeOK, NEW i \in 1..Len(receipts)
  PROVE  /\ receipts[i] \in Receipt
         /\ receipts[i].cb \in Callbacks /\ receipts[i].op \in Ops
         /\ receipts[i] = [cb |-> receipts[i].cb, op |-> receipts[i].op]
         /\ On(receipts[i].cb, receipts[i].op)
<1>1. receipts[i] \in Receipt
  BY DEF TypeOK
<1>2. receipts[i] = [cb |-> receipts[i].cb, op |-> receipts[i].op]
  BY <1>1 DEF Receipt
<1>3. QED
  BY <1>1, <1>2 DEF Receipt, On

(* A start written now follows the ends of all earlier starts of its seat. *)
LEMMA EarlierEnded ==
  ASSUME TypeOK, ReceiptsInOrder, NEW r \in Roles, Wrote(r),
         Head(backlog[r]).op = "started",
         NEW i \in 1..Len(receipts), receipts[i].op = "started",
         SeatOf(receipts[i].cb) = SeatOf(Head(backlog[r]).cb)
  PROVE  \E k \in 1..Len(receipts) : k > i /\ At(k, receipts[i].cb, "finished")
<1> DEFINE m == Head(backlog[r])  c == receipts[i].cb
<1>1. m \in Message
  BY HeadIsMessage DEF Wrote
<1>2. c \in Callbacks /\ On(c, "started")
  BY RowIsOn
<1>3. ~PendingOfSeat(m.cb)
  BY DEF Wrote, Appends, Admits
<1>4. On(c, "finished")
  BY <1>2, <1>3 DEF PendingOfSeat, Pending
<1>5. PICK k \in 1..Len(receipts) : receipts[k] = [cb |-> c, op |-> "finished"]
  BY <1>4 DEF On
<1>6. receipts[k].cb = c /\ receipts[k].op = "finished"
  BY <1>5
<1>7. ~(k < i)
  BY <1>6 DEF ReceiptsInOrder
<1>8. k # i
  BY <1>6
<1>9. QED
  BY <1>5, <1>7, <1>8 DEF At, TypeOK

(* The rows of a callback start with its registration.                     *)
LEMMA RegisteredFirst ==
  ASSUME TypeOK, ReceiptsInOrder, NEW i \in 1..Len(receipts)
  PROVE  On(receipts[i].cb, "register")
<1>1. /\ receipts[i].cb \in Callbacks /\ receipts[i].op \in Ops
      /\ On(receipts[i].cb, receipts[i].op)
  BY RowIsOn
<1>2. QED
  BY <1>1 DEF ReceiptsInOrder, Ops, OpsOf

(* The order of the rows survives every step.                              *)
LEMMA OrderStep ==
  ASSUME TypeOK, ReceiptsInOrder, [Next]_vars
  PROVE  ReceiptsInOrder'
<1>1. CASE UNCHANGED receipts
  <2>1. \A c \in Callbacks, op \in Ops : On(c, op)' <=> On(c, op)
    BY <1>1 DEF On
  <2>2. {"register", "started", "finished", "closed"} \subseteq Ops
    BY DEF Ops, OpsOf
  <2>3. \A c \in Callbacks :
          /\ On(c, "finished")' => On(c, "started")'
          /\ On(c, "started")' \/ On(c, "closed")' => On(c, "register")'
    BY <2>1, <2>2 DEF ReceiptsInOrder
  <2>4. ASSUME NEW i \in 1..Len(receipts'), NEW j \in 1..Len(receipts'), i < j
        PROVE  /\ receipts'[i] # receipts'[j]
               /\ receipts'[j].op # "register" \/ receipts'[i].cb # receipts'[j].cb
               /\ \/ receipts'[j].op # "started" \/ receipts'[i].cb # receipts'[j].cb
                  \/ receipts'[i].op = "register"
               /\ receipts'[i].op = "started" /\ receipts'[j].op = "started"
                    /\ SeatOf(receipts'[i].cb) = SeatOf(receipts'[j].cb)
                  => \E k \in i..j : At(k, receipts[i].cb, "finished")'
    BY <1>1, <2>4 DEF ReceiptsInOrder, At
  <2>5. QED
    BY <2>3, <2>4 DEF ReceiptsInOrder, At
<1>2. ASSUME NEW r \in Roles, Wrote(r)
      PROVE  ReceiptsInOrder'
  <2> DEFINE m == Head(backlog[r])  n == Len(receipts) + 1
  <2>1. m \in Message /\ m.cb \in Callbacks /\ m.op \in Ops
    BY <1>2, HeadIsMessage DEF Wrote, Message
  <2>2. /\ receipts \in Seq(Receipt) /\ RowOf(m) \in Receipt /\ receipts' = Append(receipts, RowOf(m))
    BY <1>2, <2>1 DEF TypeOK, Wrote, Write, RowOf, Receipt
  <2>3. /\ Len(receipts') = n /\ n \in Nat
        /\ \A i \in 1..Len(receipts) : receipts'[i] = receipts[i]
        /\ receipts'[n] = RowOf(m)
    BY <2>2
  <2>4. /\ ~On(m.cb, m.op)
        /\ m.op # "register" => On(m.cb, "register")
        /\ m.op = "started" => ~On(m.cb, "closed") /\ ~PendingOfSeat(m.cb)
        /\ m.op = "finished" => On(m.cb, "started")
    BY <1>2, <2>1 DEF Wrote, Appends, Duplicate, Admits, Pending, Ops, OpsOf
  <2>5. ASSUME NEW c \in Callbacks
        PROVE  /\ On(c, "finished")' => On(c, "started")'
               /\ On(c, "started")' \/ On(c, "closed")' => On(c, "register")'
    <3>1. \A op \in Ops : On(c, op)' <=> On(c, op) \/ (m.cb = c /\ m.op = op)
      BY <1>2, WrittenIsOn
    <3>2. {"register", "started", "finished", "closed"} \subseteq Ops
      BY DEF Ops, OpsOf
    <3>3. QED
      BY <3>1, <3>2, <2>4 DEF ReceiptsInOrder
  <2>6. ASSUME NEW i \in 1..Len(receipts)
        PROVE  /\ receipts[i] # RowOf(m)
               /\ m.op # "register" \/ receipts[i].cb # m.cb
               /\ m.op # "started" \/ receipts[i].cb # m.cb \/ receipts[i].op = "register"
               /\ m.op = "started" /\ receipts[i].op = "started"
                    /\ SeatOf(receipts[i].cb) = SeatOf(m.cb)
                  => \E k \in 1..Len(receipts) : k > i /\ At(k, receipts[i].cb, "finished")
    <3>1. /\ receipts[i].cb \in Callbacks /\ receipts[i].op \in Ops
          /\ On(receipts[i].cb, receipts[i].op) /\ On(receipts[i].cb, "register")
      BY RowIsOn, RegisteredFirst
    <3>2. receipts[i] # RowOf(m)
      BY <2>4, <3>1 DEF RowOf
    <3>3. m.op # "register" \/ receipts[i].cb # m.cb
      BY <2>4, <3>1
    <3>4. m.op = "started" /\ receipts[i].cb = m.cb => receipts[i].op = "register"
      BY <2>4, <3>1 DEF ReceiptsInOrder, Ops, OpsOf
    <3>5. QED
      BY <1>2, <3>2, <3>3, <3>4, EarlierEnded
  <2>7. ASSUME NEW i \in 1..Len(receipts'), NEW j \in 1..Len(receipts'), i < j
        PROVE  /\ receipts'[i] # receipts'[j]
               /\ receipts'[j].op # "register" \/ receipts'[i].cb # receipts'[j].cb
               /\ \/ receipts'[j].op # "started" \/ receipts'[i].cb # receipts'[j].cb
                  \/ receipts'[i].op = "register"
               /\ receipts'[i].op = "started" /\ receipts'[j].op = "started"
                    /\ SeatOf(receipts'[i].cb) = SeatOf(receipts'[j].cb)
                  => \E k \in i..j : At(k, receipts[i].cb, "finished")'
    <3>1. CASE j \in 1..Len(receipts)
      <4>1. /\ i \in 1..Len(receipts) /\ receipts'[i] = receipts[i] /\ receipts'[j] = receipts[j]
            /\ \A k \in i..j : receipts'[k] = receipts[k]
        BY <2>3, <2>7, <3>1
      <4>2. QED
        BY <4>1, <3>1, <2>7 DEF ReceiptsInOrder, At
    <3>2. CASE j = n
      <4>1. /\ i \in 1..Len(receipts) /\ receipts'[i] = receipts[i] /\ receipts'[j] = RowOf(m)
            /\ RowOf(m).cb = m.cb /\ RowOf(m).op = m.op
        BY <2>3, <2>7, <3>2 DEF RowOf
      <4>2. ASSUME NEW k \in 1..Len(receipts), k > i, At(k, receipts[i].cb, "finished")
            PROVE  k \in i..j /\ At(k, receipts[i].cb, "finished")'
        BY <2>3, <3>2, <4>1, <4>2 DEF At
      <4>3. QED
        BY <2>6, <4>1, <4>2
    <3>3. QED
      BY <2>3, <2>7, <3>1, <3>2
  <2>8. QED
    BY <2>3, <2>5, <2>7 DEF ReceiptsInOrder, At
<1>3. QED
  BY <1>1, <1>2, OneRow

(* A start is admitted only while nothing of its seat is pending.          *)
LEMMA PendingStep ==
  ASSUME TypeOK, ReceiptsInOrder, OnePending, [Next]_vars
  PROVE  OnePending'
<1>1. CASE UNCHANGED receipts
  BY <1>1 DEF OnePending, Pending, On
<1>2. ASSUME NEW r \in Roles, Wrote(r)
      PROVE  OnePending'
  <2> DEFINE m == Head(backlog[r])
  <2>1. m \in Message /\ m.cb \in Callbacks /\ m.op \in Ops
    BY <1>2, HeadIsMessage DEF Wrote, Message
  <2>2. m.op = "started" => ~PendingOfSeat(m.cb)
    BY <1>2 DEF Wrote, Appends, Admits
  <2>3. ASSUME NEW c \in Callbacks
        PROVE  Pending(c)' => Pending(c) \/ (m.cb = c /\ m.op = "started")
    <3>1. \A op \in Ops : On(c, op)' <=> On(c, op) \/ (m.cb = c /\ m.op = op)
      BY <1>2, WrittenIsOn
    <3>2. {"started", "finished"} \subseteq Ops
      BY DEF Ops, OpsOf
    <3>3. QED
      BY <3>1, <3>2 DEF Pending
  <2>4. QED
    BY <2>1, <2>2, <2>3 DEF OnePending, PendingOfSeat
<1>3. QED
  BY <1>1, <1>2, OneRow

-----------------------------------------------------------------------------
(***************************************************************************)
(* Types.                                                                  *)
(***************************************************************************)

NativeType ==
  [turn : 0..MaxTurns, at : {"idle", "register", "http", "closed"}, try : 1..Tries, ok : BOOLEAN,
   acted : SUBSET Turns]
SidecarType ==
  [at : {"idle", "requested", "started", "choosing", "finished", "answered", "failed"},
   try : 1..Tries, ok : BOOLEAN, asked : BOOLEAN]
RecorderType ==
  [at : {"up", "stopping", "down"}, failed : BOOLEAN, errors : SUBSET {"bridge", "native"}]

(* A client sends a message at least once.                                 *)
LEMMA OneTry == 1 \in 1..Tries
BY BridgeAssumption

(* The state of a controller, or of a request's thread, after its step.    *)
NativeIs(s, turn, at, try, ok, acted) ==
  /\ native' \in [Seats -> NativeType]
  /\ native'[s].turn = turn /\ native'[s].at = at /\ native'[s].try = try
  /\ native'[s].ok = ok /\ native'[s].acted = acted
  /\ \A q \in Seats \ {s} : native'[q] = native[q]
SidecarIs(c, at, try, ok, asked) ==
  /\ sidecar' \in [Callbacks -> SidecarType]
  /\ sidecar'[c].at = at /\ sidecar'[c].try = try
  /\ sidecar'[c].ok = ok /\ sidecar'[c].asked = asked
  /\ \A d \in Callbacks \ {c} : sidecar'[d] = sidecar[d]

(* Every wait of a controller is for a callback of its.                    *)
LEMMA TurnBegun ==
  ASSUME TypeOK, ControllersInOrder, NEW s \in Seats, native[s].at # "idle"
  PROVE  native[s].turn \in Turns /\ TurnOf(s) \in Callbacks /\ SeatOf(TurnOf(s)) = s
<1>1. native[s].turn >= 1
  BY DEF ControllersInOrder
<1>2. native[s].turn \in Turns
  BY <1>1, BridgeAssumption DEF TypeOK, Turns
<1>3. QED
  BY <1>1, <1>2, TurnIsCallback

(* What each kind of step makes of a controller.                           *)
LEMMA NativeForms ==
  ASSUME TypeOK, BoundsOK, ControllersInOrder, NEW s \in Seats
  PROVE  /\ BeginTurn(s) =>
              NativeIs(s, native[s].turn + 1, "register", 1, FALSE, native[s].acted)
         /\ Throws(s) =>
              NativeIs(s, native[s].turn, "idle", 1, FALSE, native[s].acted)
         /\ MayTry(native[s].try) /\ native' = [native EXCEPT ![s].try = NextTry(@)] =>
              NativeIs(s, native[s].turn, native[s].at, NextTry(native[s].try), native[s].ok,
                       native[s].acted)
         /\ Registered(s) =>
              NativeIs(s, native[s].turn, "http", 1, native[s].ok, native[s].acted)
         /\ \A ok \in BOOLEAN :
              Close(s, ok) => NativeIs(s, native[s].turn, "closed", 1, ok, native[s].acted)
         /\ Closed(s) =>
              NativeIs(s, native[s].turn, "idle", 1, FALSE, native[s].acted \cup ActsOn(s))
<1>1. native[s] \in NativeType /\ native \in [Seats -> NativeType]
  BY DEF TypeOK, NativeType
<1>2. ASSUME BeginTurn(s)
      PROVE  NativeIs(s, native[s].turn + 1, "register", 1, FALSE, native[s].acted)
  <2>1. /\ native'[s] = [native[s] EXCEPT !.turn = @ + 1, !.at = "register", !.try = 1, !.ok = FALSE]
        /\ native' = [q \in Seats |-> native'[q]] /\ \A q \in Seats \ {s} : native'[q] = native[q]
    BY <1>2, <1>1 DEF BeginTurn
  <2>2. native[s].turn + 1 \in 0..MaxTurns
    BY <1>2, <1>1, BridgeAssumption DEF BeginTurn, BoundsOK, NativeType
  <2>3. native'[s] \in NativeType
    BY <2>1, <2>2, <1>1, OneTry DEF NativeType
  <2>4. /\ native'[s].turn = native[s].turn + 1
        /\ native'[s].at = "register"
        /\ native'[s].try = 1
        /\ native'[s].ok = FALSE
        /\ native'[s].acted = native[s].acted
    BY <2>1, <1>1 DEF NativeType
  <2>5. native' \in [Seats -> NativeType]
    BY <2>1, <2>3, <1>1
  <2>6. QED
    BY <2>1, <2>4, <2>5 DEF NativeIs
<1>3. ASSUME Throws(s)
      PROVE  NativeIs(s, native[s].turn, "idle", 1, FALSE, native[s].acted)
  <2>1. /\ native'[s] = [native[s] EXCEPT !.at = "idle", !.try = 1, !.ok = FALSE]
        /\ native' = [q \in Seats |-> native'[q]] /\ \A q \in Seats \ {s} : native'[q] = native[q]
    BY <1>3, <1>1 DEF Throws
  <2>3. native'[s] \in NativeType
    BY <2>1, <1>1, OneTry DEF NativeType
  <2>4. /\ native'[s].turn = native[s].turn
        /\ native'[s].at = "idle"
        /\ native'[s].try = 1
        /\ native'[s].ok = FALSE
        /\ native'[s].acted = native[s].acted
    BY <2>1, <1>1 DEF NativeType
  <2>5. native' \in [Seats -> NativeType]
    BY <2>1, <2>3, <1>1
  <2>6. QED
    BY <2>1, <2>4, <2>5 DEF NativeIs
<1>4. ASSUME MayTry(native[s].try) /\ native' = [native EXCEPT ![s].try = NextTry(@)]
      PROVE  NativeIs(s, native[s].turn, native[s].at, NextTry(native[s].try), native[s].ok,
                       native[s].acted)
  <2>1. /\ native'[s] = [native[s] EXCEPT !.try = NextTry(@)]
        /\ native' = [q \in Seats |-> native'[q]] /\ \A q \in Seats \ {s} : native'[q] = native[q]
    BY <1>4, <1>1
  <2>2. NextTry(native[s].try) \in 1..Tries
    BY <1>4, <1>1, BridgeAssumption DEF MayTry, NextTry, NativeType
  <2>3. native'[s] \in NativeType
    BY <2>1, <2>2, <1>1, OneTry DEF NativeType
  <2>4. /\ native'[s].turn = native[s].turn
        /\ native'[s].at = native[s].at
        /\ native'[s].try = NextTry(native[s].try)
        /\ native'[s].ok = native[s].ok
        /\ native'[s].acted = native[s].acted
    BY <2>1, <1>1 DEF NativeType
  <2>5. native' \in [Seats -> NativeType]
    BY <2>1, <2>3, <1>1
  <2>6. QED
    BY <2>1, <2>4, <2>5 DEF NativeIs
<1>5. ASSUME Registered(s)
      PROVE  NativeIs(s, native[s].turn, "http", 1, native[s].ok, native[s].acted)
  <2>1. /\ native'[s] = [native[s] EXCEPT !.at = "http", !.try = 1]
        /\ native' = [q \in Seats |-> native'[q]] /\ \A q \in Seats \ {s} : native'[q] = native[q]
    BY <1>5, <1>1 DEF Registered
  <2>3. native'[s] \in NativeType
    BY <2>1, <1>1, OneTry DEF NativeType
  <2>4. /\ native'[s].turn = native[s].turn
        /\ native'[s].at = "http"
        /\ native'[s].try = 1
        /\ native'[s].ok = native[s].ok
        /\ native'[s].acted = native[s].acted
    BY <2>1, <1>1 DEF NativeType
  <2>5. native' \in [Seats -> NativeType]
    BY <2>1, <2>3, <1>1
  <2>6. QED
    BY <2>1, <2>4, <2>5 DEF NativeIs
<1>6. ASSUME NEW ok \in BOOLEAN, Close(s, ok)
      PROVE  NativeIs(s, native[s].turn, "closed", 1, ok, native[s].acted)
  <2>1. /\ native'[s] = [native[s] EXCEPT !.at = "closed", !.try = 1, !.ok = ok]
        /\ native' = [q \in Seats |-> native'[q]] /\ \A q \in Seats \ {s} : native'[q] = native[q]
    BY <1>6, <1>1 DEF Close
  <2>3. native'[s] \in NativeType
    BY <2>1, <1>1, OneTry DEF NativeType
  <2>4. /\ native'[s].turn = native[s].turn
        /\ native'[s].at = "closed"
        /\ native'[s].try = 1
        /\ native'[s].ok = ok
        /\ native'[s].acted = native[s].acted
    BY <2>1, <1>1 DEF NativeType
  <2>5. native' \in [Seats -> NativeType]
    BY <2>1, <2>3, <1>1
  <2>6. QED
    BY <2>1, <2>4, <2>5 DEF NativeIs
<1>7. ASSUME Closed(s)
      PROVE  NativeIs(s, native[s].turn, "idle", 1, FALSE, native[s].acted \cup ActsOn(s))
  <2>1. /\ native'[s] = [native[s] EXCEPT !.at = "idle", !.try = 1, !.ok = FALSE,
                                     !.acted = @ \cup ActsOn(s)]
        /\ native' = [q \in Seats |-> native'[q]] /\ \A q \in Seats \ {s} : native'[q] = native[q]
    BY <1>7, <1>1 DEF Closed
  <2>2. native[s].acted \cup ActsOn(s) \in SUBSET Turns
    BY <1>7, <1>1, TurnBegun DEF Closed, ActsOn, NativeType
  <2>3. native'[s] \in NativeType
    BY <2>1, <2>2, <1>1, OneTry DEF NativeType
  <2>4. /\ native'[s].turn = native[s].turn
        /\ native'[s].at = "idle"
        /\ native'[s].try = 1
        /\ native'[s].ok = FALSE
        /\ native'[s].acted = native[s].acted \cup ActsOn(s)
    BY <2>1, <1>1 DEF NativeType
  <2>5. native' \in [Seats -> NativeType]
    BY <2>1, <2>3, <1>1
  <2>6. QED
    BY <2>1, <2>4, <2>5 DEF NativeIs
<1>8. QED
  BY <1>2, <1>3, <1>4, <1>5, <1>6, <1>7

(* What each kind of step makes of a request's thread.                     *)
LEMMA SidecarForms ==
  ASSUME TypeOK, NEW c \in Callbacks
  PROVE  /\ \A op \in {"started", "finished"}, ok \in BOOLEAN :
              Reports(c, op, ok) => SidecarIs(c, op, 1, ok, sidecar[c].asked)
         /\ Fails(c) =>
              SidecarIs(c, "failed", 1, FALSE, sidecar[c].asked)
         /\ MayTry(sidecar[c].try) /\ sidecar' = [sidecar EXCEPT ![c].try = NextTry(@)] =>
              SidecarIs(c, sidecar[c].at, NextTry(sidecar[c].try), sidecar[c].ok, sidecar[c].asked)
         /\ sidecar' = [sidecar EXCEPT ![c].at = "requested"] =>
              SidecarIs(c, "requested", sidecar[c].try, sidecar[c].ok, sidecar[c].asked)
         /\ AsksPilot(c) =>
              SidecarIs(c, "choosing", 1, sidecar[c].ok, TRUE)
         /\ sidecar' = [sidecar EXCEPT ![c].at = "answered", ![c].try = 1] =>
              SidecarIs(c, "answered", 1, sidecar[c].ok, sidecar[c].asked)
<1>1. sidecar[c] \in SidecarType /\ sidecar \in [Callbacks -> SidecarType]
  BY DEF TypeOK, SidecarType
<1>2. ASSUME NEW op \in {"started", "finished"}, NEW ok \in BOOLEAN, Reports(c, op, ok)
      PROVE  SidecarIs(c, op, 1, ok, sidecar[c].asked)
  <2>1. /\ sidecar'[c] = [sidecar[c] EXCEPT !.at = op, !.try = 1, !.ok = ok]
        /\ sidecar' = [d \in Callbacks |-> sidecar'[d]]
        /\ \A d \in Callbacks \ {c} : sidecar'[d] = sidecar[d]
    BY <1>2, <1>1 DEF Reports
  <2>3. sidecar'[c] \in SidecarType
    BY <2>1, <1>1, OneTry DEF SidecarType
  <2>4. /\ sidecar'[c].at = op
        /\ sidecar'[c].try = 1
        /\ sidecar'[c].ok = ok
        /\ sidecar'[c].asked = sidecar[c].asked
    BY <2>1, <1>1 DEF SidecarType
  <2>5. sidecar' \in [Callbacks -> SidecarType]
    BY <2>1, <2>3, <1>1
  <2>6. QED
    BY <2>1, <2>4, <2>5 DEF SidecarIs
<1>3. ASSUME Fails(c)
      PROVE  SidecarIs(c, "failed", 1, FALSE, sidecar[c].asked)
  <2>1. /\ sidecar'[c] = [sidecar[c] EXCEPT !.at = "failed", !.try = 1, !.ok = FALSE]
        /\ sidecar' = [d \in Callbacks |-> sidecar'[d]]
        /\ \A d \in Callbacks \ {c} : sidecar'[d] = sidecar[d]
    BY <1>3, <1>1 DEF Fails
  <2>3. sidecar'[c] \in SidecarType
    BY <2>1, <1>1, OneTry DEF SidecarType
  <2>4. /\ sidecar'[c].at = "failed"
        /\ sidecar'[c].try = 1
        /\ sidecar'[c].ok = FALSE
        /\ sidecar'[c].asked = sidecar[c].asked
    BY <2>1, <1>1 DEF SidecarType
  <2>5. sidecar' \in [Callbacks -> SidecarType]
    BY <2>1, <2>3, <1>1
  <2>6. QED
    BY <2>1, <2>4, <2>5 DEF SidecarIs
<1>4. ASSUME MayTry(sidecar[c].try) /\ sidecar' = [sidecar EXCEPT ![c].try = NextTry(@)]
      PROVE  SidecarIs(c, sidecar[c].at, NextTry(sidecar[c].try), sidecar[c].ok, sidecar[c].asked)
  <2>1. /\ sidecar'[c] = [sidecar[c] EXCEPT !.try = NextTry(@)]
        /\ sidecar' = [d \in Callbacks |-> sidecar'[d]]
        /\ \A d \in Callbacks \ {c} : sidecar'[d] = sidecar[d]
    BY <1>4, <1>1
  <2>2. NextTry(sidecar[c].try) \in 1..Tries
    BY <1>4, <1>1, BridgeAssumption DEF MayTry, NextTry, SidecarType
  <2>3. sidecar'[c] \in SidecarType
    BY <2>1, <2>2, <1>1, OneTry DEF SidecarType
  <2>4. /\ sidecar'[c].at = sidecar[c].at
        /\ sidecar'[c].try = NextTry(sidecar[c].try)
        /\ sidecar'[c].ok = sidecar[c].ok
        /\ sidecar'[c].asked = sidecar[c].asked
    BY <2>1, <1>1 DEF SidecarType
  <2>5. sidecar' \in [Callbacks -> SidecarType]
    BY <2>1, <2>3, <1>1
  <2>6. QED
    BY <2>1, <2>4, <2>5 DEF SidecarIs
<1>5. ASSUME sidecar' = [sidecar EXCEPT ![c].at = "requested"]
      PROVE  SidecarIs(c, "requested", sidecar[c].try, sidecar[c].ok, sidecar[c].asked)
  <2>1. /\ sidecar'[c] = [sidecar[c] EXCEPT !.at = "requested"]
        /\ sidecar' = [d \in Callbacks |-> sidecar'[d]]
        /\ \A d \in Callbacks \ {c} : sidecar'[d] = sidecar[d]
    BY <1>5, <1>1
  <2>3. sidecar'[c] \in SidecarType
    BY <2>1, <1>1, OneTry DEF SidecarType
  <2>4. /\ sidecar'[c].at = "requested"
        /\ sidecar'[c].try = sidecar[c].try
        /\ sidecar'[c].ok = sidecar[c].ok
        /\ sidecar'[c].asked = sidecar[c].asked
    BY <2>1, <1>1 DEF SidecarType
  <2>5. sidecar' \in [Callbacks -> SidecarType]
    BY <2>1, <2>3, <1>1
  <2>6. QED
    BY <2>1, <2>4, <2>5 DEF SidecarIs
<1>6. ASSUME AsksPilot(c)
      PROVE  SidecarIs(c, "choosing", 1, sidecar[c].ok, TRUE)
  <2>1. /\ sidecar'[c] = [sidecar[c] EXCEPT !.at = "choosing", !.try = 1, !.asked = TRUE]
        /\ sidecar' = [d \in Callbacks |-> sidecar'[d]]
        /\ \A d \in Callbacks \ {c} : sidecar'[d] = sidecar[d]
    BY <1>6, <1>1 DEF AsksPilot
  <2>3. sidecar'[c] \in SidecarType
    BY <2>1, <1>1, OneTry DEF SidecarType
  <2>4. /\ sidecar'[c].at = "choosing"
        /\ sidecar'[c].try = 1
        /\ sidecar'[c].ok = sidecar[c].ok
        /\ sidecar'[c].asked = TRUE
    BY <2>1, <1>1 DEF SidecarType
  <2>5. sidecar' \in [Callbacks -> SidecarType]
    BY <2>1, <2>3, <1>1
  <2>6. QED
    BY <2>1, <2>4, <2>5 DEF SidecarIs
<1>7. ASSUME sidecar' = [sidecar EXCEPT ![c].at = "answered", ![c].try = 1]
      PROVE  SidecarIs(c, "answered", 1, sidecar[c].ok, sidecar[c].asked)
  <2>1. /\ sidecar'[c] = [sidecar[c] EXCEPT !.at = "answered", !.try = 1]
        /\ sidecar' = [d \in Callbacks |-> sidecar'[d]]
        /\ \A d \in Callbacks \ {c} : sidecar'[d] = sidecar[d]
    BY <1>7, <1>1
  <2>3. sidecar'[c] \in SidecarType
    BY <2>1, <1>1, OneTry DEF SidecarType
  <2>4. /\ sidecar'[c].at = "answered"
        /\ sidecar'[c].try = 1
        /\ sidecar'[c].ok = sidecar[c].ok
        /\ sidecar'[c].asked = sidecar[c].asked
    BY <2>1, <1>1 DEF SidecarType
  <2>5. sidecar' \in [Callbacks -> SidecarType]
    BY <2>1, <2>3, <1>1
  <2>6. QED
    BY <2>1, <2>4, <2>5 DEF SidecarIs
<1>8. QED
  BY <1>2, <1>3, <1>4, <1>5, <1>6, <1>7

(* A recorder that starts, that is told of trouble, or that is gone.       *)
LEMMA RecorderForms ==
  ASSUME TypeOK
  PROVE  /\ FreshRecorder \in RecorderType /\ [FreshRecorder EXCEPT !.at = "down"] \in RecorderType
         /\ Troubled => recorder' \in RecorderType
         /\ recorder' = [recorder EXCEPT !.failed = TRUE, !.errors = @ \cup {"bridge"}] =>
              recorder' \in RecorderType
         /\ \A f \in BOOLEAN : recorder' = [recorder EXCEPT !.failed = f] => recorder' \in RecorderType
<1>1. recorder \in RecorderType
  BY DEF TypeOK, RecorderType
<1>2. FreshRecorder \in RecorderType /\ [FreshRecorder EXCEPT !.at = "down"] \in RecorderType
  BY DEF FreshRecorder, RecorderType
<1>3. Troubled => recorder' \in RecorderType
  BY <1>1 DEF Troubled, RecorderType
<1>4. recorder' = [recorder EXCEPT !.failed = TRUE, !.errors = @ \cup {"bridge"}] =>
        recorder' \in RecorderType
  BY <1>1 DEF RecorderType
<1>5. \A f \in BOOLEAN : recorder' = [recorder EXCEPT !.failed = f] => recorder' \in RecorderType
  BY <1>1 DEF RecorderType
<1>6. QED
  BY <1>2, <1>3, <1>4, <1>5

(* A recorder that is gone leaves no backlog.                              *)
LEMMA NoBacklogIsTyped == [r \in Roles |-> <<>>] \in [Roles -> Seq(Message)]
OBVIOUS

(* A message that is sent waits, or is lost.                               *)
LEMMA SendIsTyped ==
  ASSUME backlog \in [Roles -> Seq(Message)], NEW r \in Roles, NEW m \in Message, Send(r, m)
  PROVE  /\ backlog' \in [Roles -> Seq(Message)]
         /\ \A q \in Roles : \A i \in 1..Len(backlog'[q]) :
              (i \in 1..Len(backlog[q]) /\ backlog'[q][i] = backlog[q][i]) \/ backlog'[q][i] = m
<1>1. CASE UNCHANGED backlog
  BY <1>1
<1>2. CASE backlog' = [backlog EXCEPT ![r] = Append(@, m)]
  <2>1. \A q \in Roles : backlog'[q] = IF q = r THEN Append(backlog[r], m) ELSE backlog[q]
    BY <1>2
  <2>2. Append(backlog[r], m) \in Seq(Message)
    OBVIOUS
  <2>3. \A i \in 1..Len(Append(backlog[r], m)) :
          \/ i \in 1..Len(backlog[r]) /\ Append(backlog[r], m)[i] = backlog[r][i]
          \/ Append(backlog[r], m)[i] = m
    OBVIOUS
  <2>4. QED
    BY <1>2, <2>1, <2>2, <2>3
<1>3. QED
  BY <1>1, <1>2 DEF Send

(* The messages of the clients.                                            *)
LEMMA MsgIsTyped ==
  ASSUME NEW c \in Callbacks, NEW op \in Ops, NEW try \in 1..Tries
  PROVE  Msg(c, op, try) \in Message /\ Msg(c, op, try).cb = c /\ Msg(c, op, try).op = op
BY DEF Msg, Message

(* What a listener takes, it takes from the front.                         *)
LEMMA TakeIsTyped ==
  ASSUME backlog \in [Roles -> Seq(Message)], NEW r \in Roles, Take(r)
  PROVE  /\ backlog' \in [Roles -> Seq(Message)]
         /\ \A q \in Roles : \A i \in 1..Len(backlog'[q]) :
              \E j \in 1..Len(backlog[q]) : backlog'[q][i] = backlog[q][j]
<1>1. backlog[r] \in Seq(Message) /\ backlog[r] # <<>>
  BY DEF Take
<1>2. /\ Tail(backlog[r]) \in Seq(Message)
      /\ \A i \in 1..Len(Tail(backlog[r])) :
           i + 1 \in 1..Len(backlog[r]) /\ Tail(backlog[r])[i] = backlog[r][i + 1]
  BY <1>1
<1>3. \A q \in Roles : backlog'[q] = IF q = r THEN Tail(backlog[r]) ELSE backlog[q]
  BY DEF Take
<1>4. backlog' \in [Roles -> Seq(Message)]
  BY <1>2 DEF Take
<1>5. QED
  BY <1>2, <1>3, <1>4

(* What is told is told of the message that was taken.                     *)
LEMMA TellIsTyped ==
  ASSUME TypeOK, NEW m \in Message, NEW ok \in BOOLEAN, Tell(m, ok)
  PROVE  /\ answers' \subseteq Answer
         /\ \A a \in answers' : a \in answers \/ a = Reply(m, ok)
BY DEF TypeOK, Tell, Reply, Message, Answer

(* A fault uses up the bounds.                                             *)
LEMMA FaultIsTyped ==
  ASSUME BoundsOK, NEW kind, Fault(kind)
  PROVE  BoundsOK'
BY DEF BoundsOK, Fault

(* The journal's rows, and the bounds.                                     *)
LEMMA ReceiptsTyped ==
  ASSUME TypeOK, [Next]_vars
  PROVE  receipts' \in Seq(Receipt)
<1>1. CASE UNCHANGED receipts
  BY <1>1 DEF TypeOK
<1>2. ASSUME NEW r \in Roles, Wrote(r)
      PROVE  receipts' \in Seq(Receipt)
  <2>1. Head(backlog[r]) \in Message
    BY <1>2, HeadIsMessage DEF Wrote
  <2>2. QED
    BY <1>2, <2>1 DEF TypeOK, Wrote, Write, Message, Receipt
<1>3. QED
  BY <1>1, <1>2, OneRow

(* The bounds stay bounds.                                                 *)
LEMMA BoundsStep == BoundsOK /\ [Next]_vars => BoundsOK'
<1> SUFFICES ASSUME BoundsOK, [Next]_vars PROVE BoundsOK'
  OBVIOUS
<1>1. (\E kind : Fault(kind)) \/ UNCHANGED bounds
  <2>1. ASSUME NEW s \in Seats, BeginTurn(s) \/ NativeStep(s)
        PROVE  UNCHANGED bounds
    BY <2>1 DEF BeginTurn, NativeStep, NativeGivesUp, Registered, HttpAnswers, HttpFails, Closed,
       OthersOfNative
  <2>2. ASSUME NEW c \in Callbacks,
               \/ Arrives(c) \/ SidecarGivesUp(c) \/ AsksPilot(c)
               \/ PilotEnds(c) \/ RequestFails(c) \/ Answers(c) \/ Expire(c)
        PROVE  Fault("late") \/ UNCHANGED bounds
    BY <2>2 DEF Arrives, SidecarGivesUp, AsksPilot, PilotEnds, RequestFails, Answers, Expire,
       OthersOfSidecar
  <2>3. ASSUME NEW r \in Roles,
               \/ HandleKnown(r) \/ HandleNew(r) \/ HandleFailing(r) \/ HandleRefused(r)
               \/ DiesWriting(r)
        PROVE  Fault("write") \/ Fault("death") \/ UNCHANGED bounds
    BY <2>3 DEF HandleKnown, HandleNew, HandleFailing, HandleRefused, DiesWriting, Down
  <2>4. CASE SidecarCrash \/ FinalizerStarts \/ FinalizerEnds \/ ScanTrouble \/ StopRequested
             \/ Ends \/ Boot \/ UNCHANGED vars
    BY <2>4 DEF SidecarCrash, FinalizerStarts, FinalizerEnds, ScanTrouble, StopRequested, Ends,
       Down, Boot, vars
  <2>5. QED
    BY <2>1, <2>2, <2>3, <2>4 DEF Next
<1>2. QED
  BY <1>1, FaultIsTyped DEF BoundsOK

(* The operations, and who asks for them.                                  *)
LEMMA OpsAre == /\ Ops = {"register", "closed", "started", "finished"}
                /\ Roles = {"native", "sidecar"}
BY DEF Roles, Ops, OpsOf

(* What a client sends when its thread reaches an operation, or once more. *)
LEMMA SendsAre ==
  ASSUME TypeOK, NEW r \in Roles, NEW c \in Callbacks, NEW op \in Ops, NEW try \in 1..Tries,
         Send(r, Msg(c, op, try))
  PROVE  /\ backlog' \in [Roles -> Seq(Message)]
         /\ \A q \in Roles : \A i \in 1..Len(backlog'[q]) :
              \/ i \in 1..Len(backlog[q]) /\ backlog'[q][i] = backlog[q][i]
              \/ backlog'[q][i].cb = c /\ backlog'[q][i].op = op
<1>1. /\ Msg(c, op, try) \in Message
      /\ Msg(c, op, try).cb = c /\ Msg(c, op, try).op = op
  BY MsgIsTyped
<1>2. backlog \in [Roles -> Seq(Message)]
  BY DEF TypeOK
<1>3. QED
  BY <1>1, <1>2, SendIsTyped

(* The controllers' steps and the threads' keep the types.                 *)
LEMMA ControllersTyped ==
  ASSUME TypeOK, BoundsOK, ControllersInOrder, NEW s \in Seats, BeginTurn(s) \/ NativeStep(s)
  PROVE  /\ native' \in [Seats -> NativeType] /\ sidecar' \in [Callbacks -> SidecarType]
         /\ backlog' \in [Roles -> Seq(Message)] /\ answers' \subseteq Answer
<1>1. /\ backlog \in [Roles -> Seq(Message)] /\ answers \subseteq Answer
      /\ sidecar \in [Callbacks -> SidecarType] /\ native[s] \in NativeType
  BY DEF TypeOK, SidecarType, NativeType
<1>2. CASE BeginTurn(s)
  <2>1. <<s, native[s].turn + 1>> \in Callbacks
    BY <1>1, <1>2, BridgeAssumption DEF BeginTurn, BoundsOK, Turns, Callbacks, NativeType
  <2>2. backlog' \in [Roles -> Seq(Message)]
    BY <1>2, <2>1, OneTry, OpsAre, SendsAre DEF BeginTurn
  <2>3. QED
    BY <1>1, <1>2, <2>2, NativeForms DEF BeginTurn, NativeIs
<1>3. CASE NativeGivesUp(s)
  <2>1. native[s].at \in Ops /\ TurnOf(s) \in Callbacks
    BY <1>3, OpsAre, TurnBegun DEF NativeGivesUp, OpsOf
  <2>2. answers' \subseteq Answer /\ UNCHANGED sidecar
    BY <1>1, <1>3 DEF NativeGivesUp, Forget
  <2>3. CASE Throws(s) /\ UNCHANGED backlog
    BY <1>1, <2>2, <2>3, NativeForms DEF NativeIs
  <2>4. CASE /\ MayTry(native[s].try) /\ native' = [native EXCEPT ![s].try = NextTry(@)]
             /\ Send("native", Msg(TurnOf(s), native[s].at, NextTry(native[s].try)))
    <3>1. NextTry(native[s].try) \in 1..Tries
      BY <1>1, <2>4, BridgeAssumption DEF MayTry, NextTry, NativeType
    <3>2. backlog' \in [Roles -> Seq(Message)]
      BY <2>1, <2>4, <3>1, OpsAre, SendsAre
    <3>3. native' \in [Seats -> NativeType]
      BY <2>4, NativeForms DEF NativeIs
    <3>4. QED
      BY <1>1, <2>2, <3>2, <3>3
  <2>5. QED
    BY <1>3, <2>3, <2>4 DEF NativeGivesUp
<1>4. CASE Registered(s)
  <2>1. TurnOf(s) \in Callbacks
    BY <1>4, TurnBegun DEF Registered
  <2>2. sidecar' \in [Callbacks -> SidecarType]
    BY <1>4, <2>1, SidecarForms DEF Registered, SidecarIs
  <2>3. QED
    BY <1>1, <1>4, <2>2, NativeForms DEF Registered, NativeIs, Forget
<1>5. CASE HttpAnswers(s) \/ HttpFails(s)
  <2>1. PICK ok \in BOOLEAN : Close(s, ok)
    BY <1>5 DEF HttpAnswers, HttpFails
  <2>2. TurnOf(s) \in Callbacks
    BY <1>5, TurnBegun DEF HttpAnswers, HttpFails
  <2>3. backlog' \in [Roles -> Seq(Message)]
    BY <2>1, <2>2, OneTry, OpsAre, SendsAre DEF Close
  <2>4. QED
    BY <1>1, <1>5, <2>1, <2>3, NativeForms DEF HttpAnswers, HttpFails, NativeIs
<1>6. CASE Closed(s)
  BY <1>1, <1>6, NativeForms DEF Closed, NativeIs, Forget
<1>7. QED
  BY <1>2, <1>3, <1>4, <1>5, <1>6 DEF NativeStep

(* The threads' steps keep the types.                                      *)
LEMMA ThreadsTyped ==
  ASSUME TypeOK, NEW c \in Callbacks,
         \/ Arrives(c) \/ SidecarGivesUp(c) \/ AsksPilot(c)
         \/ PilotEnds(c) \/ RequestFails(c) \/ Answers(c)
  PROVE  /\ sidecar' \in [Callbacks -> SidecarType]
         /\ backlog' \in [Roles -> Seq(Message)] /\ answers' \subseteq Answer
<1>1. /\ backlog \in [Roles -> Seq(Message)] /\ answers \subseteq Answer
      /\ sidecar[c] \in SidecarType
  BY DEF TypeOK, SidecarType
<1>2. ASSUME NEW op \in {"started", "finished"}, NEW ok \in BOOLEAN, Reports(c, op, ok)
      PROVE  sidecar' \in [Callbacks -> SidecarType] /\ backlog' \in [Roles -> Seq(Message)]
  <2>1. backlog' \in [Roles -> Seq(Message)]
    BY <1>2, OneTry, OpsAre, SendsAre DEF Reports
  <2>2. sidecar' \in [Callbacks -> SidecarType]
    BY <1>2, SidecarForms DEF SidecarIs
  <2>3. QED
    BY <2>1, <2>2
<1>3. CASE Arrives(c) \/ PilotEnds(c)
  BY <1>1, <1>2, <1>3 DEF Arrives, PilotEnds
<1>4. CASE SidecarGivesUp(c)
  <2>1. answers' \subseteq Answer
    BY <1>1, <1>4 DEF SidecarGivesUp, Forget
  <2>2. CASE Fails(c) /\ UNCHANGED backlog
    BY <1>1, <2>1, <2>2, SidecarForms DEF SidecarIs
  <2>3. CASE /\ MayTry(sidecar[c].try) /\ sidecar' = [sidecar EXCEPT ![c].try = NextTry(@)]
             /\ Send("sidecar", Msg(c, sidecar[c].at, NextTry(sidecar[c].try)))
    <3>1. NextTry(sidecar[c].try) \in 1..Tries
      BY <1>1, <2>3, BridgeAssumption DEF MayTry, NextTry, SidecarType
    <3>2. sidecar[c].at \in Ops
      BY <1>4, OpsAre DEF SidecarGivesUp, OpsOf
    <3>3. QED
      BY <2>1, <2>3, <3>1, <3>2, OpsAre, SendsAre, SidecarForms DEF SidecarIs
  <2>4. QED
    BY <1>4, <2>2, <2>3 DEF SidecarGivesUp
<1>5. CASE AsksPilot(c)
  BY <1>1, <1>5, SidecarForms DEF AsksPilot, SidecarIs, Forget
<1>6. CASE RequestFails(c)
  BY <1>1, <1>6, SidecarForms DEF RequestFails, SidecarIs
<1>7. CASE Answers(c)
  BY <1>1, <1>7, SidecarForms DEF Answers, SidecarIs, Forget
<1>8. QED
  BY <1>3, <1>4, <1>5, <1>6, <1>7

(* Every step keeps the types.                                             *)
LEMMA TypeStep ==
  ASSUME TypeOK, BoundsOK, ControllersInOrder, [Next]_vars
  PROVE  TypeOK'
<1>1. /\ receipts' \in Seq(Receipt)
      /\ bounds'.turns \in 0..MaxTurns /\ bounds'.faults \in Nat
  BY ReceiptsTyped, BoundsStep DEF BoundsOK
<1>2. TypeOK <=>
        /\ receipts \in Seq(Receipt)
        /\ game \in {"live", "finalizing", "sealed", "unpublished", "damaged"}
        /\ recorder \in RecorderType /\ expired \subseteq Callbacks
        /\ backlog \in [Roles -> Seq(Message)] /\ answers \subseteq Answer
        /\ native \in [Seats -> NativeType] /\ sidecar \in [Callbacks -> SidecarType]
        /\ bounds.turns \in 0..MaxTurns /\ bounds.faults \in Nat
  BY DEF TypeOK, RecorderType, NativeType, SidecarType
<1>3. TypeOK' <=>
        /\ receipts' \in Seq(Receipt)
        /\ game' \in {"live", "finalizing", "sealed", "unpublished", "damaged"}
        /\ recorder' \in RecorderType /\ expired' \subseteq Callbacks
        /\ backlog' \in [Roles -> Seq(Message)] /\ answers' \subseteq Answer
        /\ native' \in [Seats -> NativeType] /\ sidecar' \in [Callbacks -> SidecarType]
        /\ bounds'.turns \in 0..MaxTurns /\ bounds'.faults \in Nat
  BY DEF TypeOK, RecorderType, NativeType, SidecarType
<1>4. ASSUME NEW s \in Seats, BeginTurn(s) \/ NativeStep(s)
      PROVE  TypeOK'
  <2>1. UNCHANGED OthersOfNative
    BY <1>4 DEF BeginTurn, NativeStep, NativeGivesUp, Registered, HttpAnswers, HttpFails, Closed,
       OthersOfNative
  <2>2. QED
    BY <1>1, <1>2, <1>3, <1>4, <2>1, ControllersTyped DEF OthersOfNative
<1>5. ASSUME NEW c \in Callbacks,
             \/ Arrives(c) \/ SidecarGivesUp(c) \/ AsksPilot(c)
             \/ PilotEnds(c) \/ RequestFails(c) \/ Answers(c)
      PROVE  TypeOK'
  <2>1. UNCHANGED OthersOfSidecar
    BY <1>5 DEF Arrives, SidecarGivesUp, AsksPilot, PilotEnds, RequestFails, Answers
  <2>2. QED
    BY <1>1, <1>2, <1>3, <1>5, <2>1, ThreadsTyped DEF OthersOfSidecar
<1>6. ASSUME NEW c \in Callbacks, Expire(c)
      PROVE  TypeOK'
  BY <1>1, <1>2, <1>3, <1>6 DEF Expire
<1>7. ASSUME NEW r \in Roles, HandleKnown(r) \/ HandleNew(r) \/ HandleFailing(r) \/ HandleRefused(r)
      PROVE  TypeOK'
  <2>1. Take(r) /\ backlog[r] # <<>> /\ Head(backlog[r]) \in Message
    BY <1>7, HeadIsMessage DEF HandleKnown, HandleNew, HandleFailing, HandleRefused, Take
  <2>2. backlog' \in [Roles -> Seq(Message)]
    BY <1>2, <2>1, TakeIsTyped
  <2>3. answers' \subseteq Answer
    BY <1>7, <2>1, TellIsTyped DEF HandleKnown, HandleNew, HandleFailing, HandleRefused, TellFailed
  <2>4. recorder' \in RecorderType
    BY <1>2, <1>7, RecorderForms DEF HandleKnown, HandleNew, HandleFailing, HandleRefused
  <2>5. UNCHANGED <<game, OthersOfRecorder>>
    BY <1>7 DEF HandleKnown, HandleNew, HandleFailing, HandleRefused
  <2>6. QED
    BY <1>1, <1>2, <1>3, <2>2, <2>3, <2>4, <2>5 DEF OthersOfRecorder
<1>8. ASSUME NEW r \in Roles, DiesWriting(r)
      PROVE  TypeOK'
  BY <1>1, <1>2, <1>3, <1>8, RecorderForms, NoBacklogIsTyped DEF DiesWriting, Down
<1>9. CASE SidecarCrash
  <2>1. ASSUME NEW c \in Callbacks
        PROVE  [sidecar[c] EXCEPT !.at = "failed", !.try = 1, !.ok = FALSE] \in SidecarType
    BY <1>2, OneTry DEF SidecarType
  <2>2. sidecar' \in [Callbacks -> SidecarType]
    BY <1>2, <1>9, <2>1 DEF SidecarCrash
  <2>3. QED
    BY <1>1, <1>2, <1>3, <1>9, <2>2 DEF SidecarCrash
<1>10. CASE FinalizerStarts \/ FinalizerEnds
  BY <1>1, <1>2, <1>3, <1>10, RecorderForms DEF FinalizerStarts, FinalizerEnds
<1>11. CASE ScanTrouble \/ StopRequested
  <2>1. recorder' \in RecorderType
    <3>1. CASE ScanTrouble
      <4>1. \/ recorder' = [recorder EXCEPT !.errors = @ \cup {"native"}]
            \/ recorder' = [recorder EXCEPT !.errors = @ \ {"native"}]
        BY <3>1 DEF ScanTrouble
      <4>2. QED
        BY <1>2, <4>1 DEF RecorderType
    <3>2. CASE StopRequested
      BY <1>2, <3>2 DEF StopRequested, RecorderType
    <3>3. QED
      BY <1>11, <3>1, <3>2
  <2>2. QED
    BY <1>1, <1>2, <1>3, <1>11, <2>1 DEF ScanTrouble, StopRequested
<1>12. CASE Ends
  <2>1. game' \in {"live", "finalizing", "sealed", "unpublished", "damaged"}
    BY <1>2, <1>12 DEF Ends
  <2>2. QED
    BY <1>1, <1>2, <1>3, <1>12, <2>1, RecorderForms, NoBacklogIsTyped DEF Ends, Down
<1>13. CASE Boot
  BY <1>1, <1>2, <1>3, <1>13, RecorderForms DEF Boot
<1>14. CASE UNCHANGED vars
  BY <1>2, <1>3, <1>14 DEF vars
<1>15. QED
  BY <1>4, <1>5, <1>6, <1>7, <1>8, <1>9, <1>10, <1>11, <1>12, <1>13, <1>14 DEF Next

-----------------------------------------------------------------------------
(***************************************************************************)
(* Acknowledgments.                                                        *)
(***************************************************************************)

(* A step tells at most that what it took is, or now is, on record.        *)
LEMMA NewAnswers ==
  ASSUME TypeOK, [Next]_vars, NEW a \in answers', a \notin answers, a.ok
  PROVE  \E r \in Roles :
           /\ backlog[r] # <<>> /\ a.cb = Head(backlog[r]).cb /\ a.op = Head(backlog[r]).op
           /\ Acknowledges(Head(backlog[r])) \/ Wrote(r)
<1>1. ASSUME NEW s \in Seats, BeginTurn(s) \/ NativeStep(s)
      PROVE  answers' \subseteq answers
  BY <1>1 DEF BeginTurn, NativeStep, NativeGivesUp, Registered, HttpAnswers, HttpFails, Closed, Forget
<1>2. ASSUME NEW c \in Callbacks,
             \/ Arrives(c) \/ SidecarGivesUp(c) \/ AsksPilot(c)
             \/ PilotEnds(c) \/ RequestFails(c) \/ Answers(c) \/ Expire(c)
      PROVE  answers' \subseteq answers
  BY <1>2 DEF Arrives, SidecarGivesUp, AsksPilot, PilotEnds, RequestFails, Answers, Expire, Forget
<1>3. ASSUME NEW r \in Roles, HandleFailing(r) \/ HandleRefused(r) \/ DiesWriting(r)
      PROVE  FALSE
  BY <1>3 DEF HandleFailing, HandleRefused, DiesWriting, Down, TellFailed, Tell, Reply
<1>4. ASSUME NEW r \in Roles, HandleKnown(r) \/ HandleNew(r)
      PROVE  /\ backlog[r] # <<>> /\ a.cb = Head(backlog[r]).cb /\ a.op = Head(backlog[r]).op
             /\ Acknowledges(Head(backlog[r])) \/ Wrote(r)
  <2>1. a = Reply(Head(backlog[r]), TRUE)
    BY <1>4 DEF HandleKnown, HandleNew, Tell
  <2>2. QED
    BY <1>4, <2>1 DEF HandleKnown, HandleNew, Take, Wrote, Reply
<1>5. CASE SidecarCrash \/ FinalizerStarts \/ FinalizerEnds \/ ScanTrouble \/ StopRequested
           \/ Ends \/ Boot \/ UNCHANGED vars
  BY <1>5 DEF SidecarCrash, FinalizerStarts, FinalizerEnds, ScanTrouble, StopRequested, Ends, Down,
     Boot, vars
<1>6. QED
  BY <1>1, <1>2, <1>3, <1>4, <1>5 DEF Next

(* What was acknowledged stays durable.                                    *)
LEMMA AcknowledgedStep ==
  ASSUME TypeOK, TypeOK', AcknowledgedIsDurable, [Next]_vars
  PROVE  AcknowledgedIsDurable'
<1> SUFFICES ASSUME NEW a \in answers', a.ok
             PROVE  \/ On(a.cb, a.op)'
                    \/ a.op = "closed" /\ game' = "sealed" /\ On(a.cb, "finished")'
  BY DEF AcknowledgedIsDurable
<1>1. a.cb \in Callbacks /\ a.op \in Ops /\ "finished" \in Ops
  BY OpsAre DEF TypeOK, Answer
<1>2. CASE a \in answers
  BY <1>1, <1>2, RecordStays, SealStays DEF AcknowledgedIsDurable
<1>3. CASE a \notin answers
  <2>1. PICK r \in Roles :
          /\ backlog[r] # <<>> /\ a.cb = Head(backlog[r]).cb /\ a.op = Head(backlog[r]).op
          /\ Acknowledges(Head(backlog[r])) \/ Wrote(r)
    BY <1>3, NewAnswers
  <2>2. CASE Wrote(r)
    BY <1>1, <2>1, <2>2, WrittenIsOn
  <2>3. CASE Acknowledges(Head(backlog[r]))
    BY <1>1, <2>1, <2>3, RecordStays, SealStays DEF Acknowledges, Duplicate, ClosedBySealing
  <2>4. QED
    BY <2>1, <2>2, <2>3
<1>4. QED
  BY <1>2, <1>3
-----------------------------------------------------------------------------
(***************************************************************************)
(* The threads of the sidecar.                                             *)
(***************************************************************************)

(* What a step makes of a request's thread.                                *)
LEMMA ThreadMoves ==
  ASSUME TypeOK, BoundsOK, ControllersInOrder, [Next]_vars, NEW c \in Callbacks
  PROVE  \/ sidecar'[c].at = sidecar[c].at /\ sidecar'[c].asked = sidecar[c].asked
         \/ /\ sidecar'[c].at = "requested" /\ sidecar'[c].asked = sidecar[c].asked
            /\ c = TurnOf(SeatOf(c))
            /\ native[SeatOf(c)].at = "register" /\ native'[SeatOf(c)].at = "http"
         \/ /\ sidecar[c].at = "requested" /\ sidecar'[c].at = "started"
            /\ sidecar'[c].asked = sidecar[c].asked
         \/ AsksPilot(c) /\ sidecar'[c].at = "choosing" /\ sidecar'[c].asked
         \/ /\ sidecar[c].at = "choosing" /\ sidecar'[c].at = "finished"
            /\ sidecar'[c].asked = sidecar[c].asked
         \/ /\ sidecar[c].at = "finished" /\ sidecar'[c].at = "answered" /\ Answers(c)
            /\ sidecar'[c].asked = sidecar[c].asked
         \/ /\ sidecar[c].at \notin {"idle", "answered"} /\ sidecar'[c].at = "failed"
            /\ sidecar'[c].asked = sidecar[c].asked
<1>1. ASSUME NEW s \in Seats,
             BeginTurn(s) \/ NativeGivesUp(s) \/ HttpAnswers(s) \/ HttpFails(s) \/ Closed(s)
      PROVE  UNCHANGED sidecar
  BY <1>1 DEF BeginTurn, NativeGivesUp, HttpAnswers, HttpFails, Closed
<1>2. ASSUME NEW s \in Seats, Registered(s), TurnOf(s) = c
      PROVE  /\ sidecar'[c].at = "requested" /\ sidecar'[c].asked = sidecar[c].asked
             /\ c = TurnOf(SeatOf(c)) /\ native[SeatOf(c)].at = "register"
             /\ native'[SeatOf(c)].at = "http"
  <2>1. SeatOf(c) = s
    BY <1>2 DEF TurnOf, SeatOf
  <2>2. SidecarIs(c, "requested", sidecar[c].try, sidecar[c].ok, sidecar[c].asked)
    BY <1>2, SidecarForms DEF Registered
  <2>3. native'[s].at = "http"
    BY <1>2, NativeForms DEF NativeIs
  <2>4. QED
    BY <1>2, <2>1, <2>2, <2>3 DEF Registered, SidecarIs
<1>3. ASSUME NEW s \in Seats, Registered(s), TurnOf(s) # c
      PROVE  sidecar'[c] = sidecar[c]
  BY <1>3 DEF Registered, TypeOK
<1>4. ASSUME NEW d \in Callbacks, d # c,
             \/ Arrives(d) \/ SidecarGivesUp(d) \/ AsksPilot(d)
             \/ PilotEnds(d) \/ RequestFails(d) \/ Answers(d)
      PROVE  sidecar'[c] = sidecar[c]
  BY <1>4 DEF Arrives, SidecarGivesUp, AsksPilot, PilotEnds, RequestFails, Answers, Reports, Fails,
     TypeOK
<1>5. CASE Arrives(c)
  BY <1>5, SidecarForms DEF Arrives, SidecarIs
<1>6. CASE SidecarGivesUp(c)
  <2>1. sidecar[c].at \in {"started", "finished"}
    BY <1>6 DEF SidecarGivesUp, OpsOf
  <2>2. \/ SidecarIs(c, sidecar[c].at, NextTry(sidecar[c].try), sidecar[c].ok, sidecar[c].asked)
        \/ SidecarIs(c, "failed", 1, FALSE, sidecar[c].asked)
    BY <1>6, SidecarForms DEF SidecarGivesUp
  <2>3. QED
    BY <2>1, <2>2 DEF SidecarIs
<1>7. CASE AsksPilot(c)
  BY <1>7, SidecarForms DEF SidecarIs
<1>8. CASE PilotEnds(c)
  <2>1. PICK ok \in BOOLEAN : Reports(c, "finished", ok)
    BY <1>8 DEF PilotEnds
  <2>2. SidecarIs(c, "finished", 1, ok, sidecar[c].asked)
    BY <2>1, SidecarForms
  <2>3. QED
    BY <1>8, <2>2 DEF PilotEnds, SidecarIs
<1>9. CASE RequestFails(c)
  BY <1>9, SidecarForms DEF RequestFails, SidecarIs
<1>10. CASE Answers(c)
  BY <1>10, SidecarForms DEF Answers, SidecarIs
<1>11. CASE SidecarCrash
  <2>1. sidecar[c] \in SidecarType
    BY DEF TypeOK, SidecarType
  <2>2. CASE sidecar[c].at \in {"idle", "answered"}
    BY <1>11, <2>2 DEF SidecarCrash
  <2>3. CASE sidecar[c].at \notin {"idle", "answered"}
    <3>1. sidecar'[c] = [sidecar[c] EXCEPT !.at = "failed", !.try = 1, !.ok = FALSE]
      BY <1>11, <2>3 DEF SidecarCrash
    <3>2. QED
      BY <2>1, <2>3, <3>1 DEF SidecarType
  <2>4. QED
    BY <2>2, <2>3
<1>12. ASSUME NEW r \in Roles,
              HandleKnown(r) \/ HandleNew(r) \/ HandleFailing(r) \/ HandleRefused(r) \/ DiesWriting(r)
       PROVE  UNCHANGED sidecar
  BY <1>12 DEF HandleKnown, HandleNew, HandleFailing, HandleRefused, DiesWriting, OthersOfRecorder,
     Down
<1>13. CASE \/ FinalizerStarts \/ FinalizerEnds \/ ScanTrouble \/ StopRequested \/ Ends \/ Boot
            \/ (\E d \in Callbacks : Expire(d)) \/ UNCHANGED vars
  BY <1>13 DEF FinalizerStarts, FinalizerEnds, ScanTrouble, StopRequested, Ends, Down, Boot, Expire,
     vars
<1>14. QED
  BY <1>1, <1>2, <1>3, <1>4, <1>5, <1>6, <1>7, <1>8, <1>9, <1>10, <1>11, <1>12, <1>13
     DEF Next, NativeStep

-----------------------------------------------------------------------------
(***************************************************************************)
(* The controllers.                                                        *)
(***************************************************************************)

(* A controller begins a turn, stays, gives up, or goes on to the next     *)
(* wait; ok is true only after HTTP answered, acted grows only at the end. *)
Same(s) ==
  /\ native'[s].turn = native[s].turn /\ native'[s].at = native[s].at
  /\ native'[s].ok = native[s].ok /\ native'[s].acted = native[s].acted
Begins(s) ==
  /\ native[s].at = "idle" /\ native'[s].at = "register" /\ ~native'[s].ok
  /\ native'[s].turn = native[s].turn + 1 /\ native'[s].acted = native[s].acted
GivesUp(s) ==
  /\ native[s].at # "idle" /\ native'[s].at = "idle" /\ ~native'[s].ok
  /\ native'[s].turn = native[s].turn /\ native'[s].acted = native[s].acted
Requests(s) ==
  /\ native[s].at = "register" /\ native'[s].at = "http" /\ native'[s].ok = native[s].ok
  /\ native'[s].turn = native[s].turn /\ native'[s].acted = native[s].acted
Closes(s) ==
  /\ native[s].at = "http" /\ native'[s].at = "closed"
  /\ native'[s].ok => sidecar[TurnOf(s)].at = "answered"
  /\ native'[s].turn = native[s].turn /\ native'[s].acted = native[s].acted
Acts(s) ==
  /\ Closed(s)
  /\ native[s].at = "closed" /\ native'[s].at = "idle" /\ ~native'[s].ok
  /\ \E a \in answers : a.ok /\ a.cb = TurnOf(s) /\ a.op = "closed"
  /\ native'[s].turn = native[s].turn /\ native'[s].acted = native[s].acted \cup ActsOn(s)

(* Every step is one of these for every controller.                        *)
LEMMA ControllerMoves ==
  ASSUME TypeOK, BoundsOK, ControllersInOrder, [Next]_vars, NEW s \in Seats
  PROVE  Same(s) \/ Begins(s) \/ GivesUp(s) \/ Requests(s) \/ Closes(s) \/ Acts(s)
<1>1. ASSUME NEW q \in Seats, q # s, BeginTurn(q) \/ NativeStep(q)
      PROVE  Same(s)
  BY <1>1, NativeForms DEF Same, NativeStep, NativeGivesUp, HttpAnswers, HttpFails, NativeIs
<1>2. CASE BeginTurn(s)
  BY <1>2, NativeForms DEF BeginTurn, Begins, NativeIs
<1>3. CASE NativeGivesUp(s)
  BY <1>3, NativeForms DEF NativeGivesUp, OpsOf, Same, GivesUp, NativeIs
<1>4. CASE Registered(s)
  BY <1>4, NativeForms DEF Registered, Requests, NativeIs
<1>5. CASE HttpAnswers(s)
  <2>1. PICK ok \in BOOLEAN : Close(s, ok) /\ ok = (sidecar[TurnOf(s)].at = "answered")
    BY <1>5 DEF HttpAnswers
  <2>2. NativeIs(s, native[s].turn, "closed", 1, ok, native[s].acted)
    BY <2>1, NativeForms
  <2>3. QED
    BY <1>5, <2>1, <2>2 DEF HttpAnswers, Closes, NativeIs
<1>6. CASE HttpFails(s)
  <2>1. NativeIs(s, native[s].turn, "closed", 1, FALSE, native[s].acted)
    BY <1>6, NativeForms DEF HttpFails
  <2>2. QED
    BY <1>6, <2>1 DEF HttpFails, Closes, NativeIs
<1>7. CASE Closed(s)
  <2>1. \E a \in answers : a.ok /\ a.cb = TurnOf(s) /\ a.op = "closed"
    BY <1>7 DEF Closed, Acked, Reply, Msg
  <2>2. NativeIs(s, native[s].turn, "idle", 1, FALSE, native[s].acted \cup ActsOn(s))
    BY <1>7, NativeForms
  <2>3. QED
    BY <1>7, <2>1, <2>2 DEF Closed, Acts, NativeIs
<1>8. ASSUME NEW c \in Callbacks,
             \/ Arrives(c) \/ SidecarGivesUp(c) \/ AsksPilot(c)
             \/ PilotEnds(c) \/ RequestFails(c) \/ Answers(c) \/ Expire(c)
      PROVE  UNCHANGED native
  BY <1>8 DEF Arrives, SidecarGivesUp, AsksPilot, PilotEnds, RequestFails, Answers, Expire,
     OthersOfSidecar
<1>9. ASSUME NEW r \in Roles,
             HandleKnown(r) \/ HandleNew(r) \/ HandleFailing(r) \/ HandleRefused(r) \/ DiesWriting(r)
      PROVE  UNCHANGED native
  BY <1>9 DEF HandleKnown, HandleNew, HandleFailing, HandleRefused, DiesWriting, OthersOfRecorder,
     Down
<1>10. ASSUME \/ SidecarCrash \/ FinalizerStarts \/ FinalizerEnds \/ ScanTrouble \/ StopRequested
              \/ Ends \/ Boot \/ UNCHANGED vars
       PROVE  UNCHANGED native
  BY <1>10 DEF SidecarCrash, FinalizerStarts, FinalizerEnds, ScanTrouble, StopRequested, Ends, Down,
     Boot, vars
<1>11. UNCHANGED native => Same(s)
  BY DEF Same
<1>12. QED
  BY <1>1, <1>2, <1>3, <1>4, <1>5, <1>6, <1>7, <1>8, <1>9, <1>10, <1>11 DEF Next, NativeStep

(* What has not begun now had not begun before.                            *)
LEMMA BeginsOnce ==
  ASSUME TypeOK, BoundsOK, ControllersInOrder, [Next]_vars, NEW c \in Callbacks, NotBegun(c)'
  PROVE  NotBegun(c) /\ ~(Requests(c[1]) /\ c[2] = native[c[1]].turn)
<1>1. c[1] \in Seats /\ c[2] \in Nat /\ native[c[1]].turn \in Nat
  BY BridgeAssumption DEF Callbacks, Turns, TypeOK
<1>2. \/ Same(c[1]) \/ Begins(c[1]) \/ GivesUp(c[1]) \/ Requests(c[1]) \/ Closes(c[1]) \/ Acts(c[1])
  BY <1>1, ControllerMoves
<1>3. CASE Requests(c[1])
  <2>1. native'[c[1]].turn = native[c[1]].turn /\ native'[c[1]].at # "register"
    BY <1>3 DEF Requests
  <2>2. QED
    BY <1>1, <2>1 DEF NotBegun
<1>4. CASE Begins(c[1])
  <2>1. native'[c[1]].turn = native[c[1]].turn + 1 /\ native[c[1]].at = "idle"
    BY <1>4 DEF Begins
  <2>2. QED
    BY <1>1, <2>1 DEF NotBegun, Requests
<1>5. CASE Same(c[1])
  BY <1>5 DEF NotBegun, Same, Requests
<1>6. CASE GivesUp(c[1]) \/ Closes(c[1]) \/ Acts(c[1])
  BY <1>6 DEF NotBegun, GivesUp, Closes, Acts, Requests
<1>7. QED
  BY <1>2, <1>3, <1>4, <1>5, <1>6


(* A controller sends no end.                                              *)
LEMMA ControllersSend ==
  ASSUME TypeOK, NEW c \in Callbacks, NEW op \in {"register", "closed"}, NEW try \in 1..Tries,
         Send("native", Msg(c, op, try)),
         NEW r \in Roles, NEW i \in 1..Len(backlog'[r]), backlog'[r][i].op = "finished"
  PROVE  \E j \in 1..Len(backlog[r]) : backlog'[r][i] = backlog[r][j]
<1>1. op \in Ops /\ "native" \in Roles
  BY OpsAre
<1>2. \/ i \in 1..Len(backlog[r]) /\ backlog'[r][i] = backlog[r][i]
      \/ backlog'[r][i].op = op
  BY <1>1, SendsAre
<1>3. QED
  BY <1>2

(* The end of a choice is sent by the thread that got it.                  *)
LEMMA EndIsSent ==
  ASSUME TypeOK, BoundsOK, ControllersInOrder, [Next]_vars,
         NEW r \in Roles, NEW i \in 1..Len(backlog'[r]), backlog'[r][i].op = "finished"
  PROVE  \/ \E j \in 1..Len(backlog[r]) : backlog'[r][i] = backlog[r][j]
         \/ \E c \in Callbacks :
              /\ backlog'[r][i].cb = c /\ sidecar'[c].at = "finished"
              /\ sidecar[c].at \in {"choosing", "finished"}
<1> DEFINE Kept == \E j \in 1..Len(backlog[r]) : backlog'[r][i] = backlog[r][j]
<1>1. UNCHANGED backlog => Kept
  OBVIOUS
<1>2. ASSUME NEW s \in Seats, BeginTurn(s)
      PROVE  Kept
  <2>1. PICK c \in Callbacks : c = <<s, native[s].turn + 1>>
    BY <1>2, BridgeAssumption DEF BeginTurn, BoundsOK, Turns, Callbacks, TypeOK
  <2>2. Send("native", Msg(c, "register", 1))
    BY <1>2, <2>1 DEF BeginTurn
  <2>3. QED
    BY <2>1, <2>2, OneTry, ControllersSend
<1>3. ASSUME NEW s \in Seats, NativeGivesUp(s)
      PROVE  Kept
  <2>1. native[s].at \in {"register", "closed"} /\ TurnOf(s) \in Callbacks
    BY <1>3, TurnBegun DEF NativeGivesUp, OpsOf
  <2>2. CASE /\ MayTry(native[s].try)
             /\ Send("native", Msg(TurnOf(s), native[s].at, NextTry(native[s].try)))
    <3>1. NextTry(native[s].try) \in 1..Tries
      BY <2>2, BridgeAssumption DEF MayTry, NextTry, TypeOK
    <3>2. QED
      BY <2>1, <2>2, <3>1, ControllersSend
  <2>3. QED
    BY <1>1, <1>3, <2>2 DEF NativeGivesUp
<1>4. ASSUME NEW s \in Seats, HttpAnswers(s) \/ HttpFails(s)
      PROVE  Kept
  <2>1. TurnOf(s) \in Callbacks /\ Send("native", Msg(TurnOf(s), "closed", 1))
    BY <1>4, TurnBegun DEF HttpAnswers, HttpFails, Close
  <2>2. QED
    BY <2>1, OneTry, ControllersSend
<1>5. ASSUME NEW s \in Seats, Registered(s) \/ Closed(s)
      PROVE  Kept
  BY <1>1, <1>5 DEF Registered, Closed
<1>6. ASSUME NEW c \in Callbacks, Arrives(c)
      PROVE  Kept
  BY <1>6, OneTry, OpsAre, SendsAre DEF Arrives, Reports
<1>7. ASSUME NEW c \in Callbacks, PilotEnds(c)
      PROVE  Kept \/ (/\ backlog'[r][i].cb = c /\ sidecar'[c].at = "finished"
                      /\ sidecar[c].at = "choosing")
  <2>1. Send("sidecar", Msg(c, "finished", 1)) /\ sidecar[c].at = "choosing"
    BY <1>7 DEF PilotEnds, Reports
  <2>2. sidecar'[c].at = "finished"
    <3>1. PICK ok \in BOOLEAN : Reports(c, "finished", ok)
      BY <1>7 DEF PilotEnds
    <3>2. QED
      BY <3>1, SidecarForms DEF SidecarIs
  <2>3. QED
    BY <2>1, <2>2, OneTry, OpsAre, SendsAre
<1>8. ASSUME NEW c \in Callbacks, SidecarGivesUp(c)
      PROVE  Kept \/ (/\ backlog'[r][i].cb = c /\ sidecar'[c].at = "finished"
                      /\ sidecar[c].at = "finished")
  <2>1. sidecar[c].at \in {"started", "finished"}
    BY <1>8 DEF SidecarGivesUp, OpsOf
  <2>2. CASE /\ MayTry(sidecar[c].try) /\ sidecar' = [sidecar EXCEPT ![c].try = NextTry(@)]
             /\ Send("sidecar", Msg(c, sidecar[c].at, NextTry(sidecar[c].try)))
    <3>1. NextTry(sidecar[c].try) \in 1..Tries
      BY <2>2, BridgeAssumption DEF MayTry, NextTry, TypeOK
    <3>2. sidecar'[c].at = sidecar[c].at
      BY <2>2, SidecarForms DEF SidecarIs
    <3>3. QED
      BY <2>1, <2>2, <3>1, <3>2, OpsAre, SendsAre
  <2>3. QED
    BY <1>1, <1>8, <2>2 DEF SidecarGivesUp
<1>9. ASSUME NEW c \in Callbacks, AsksPilot(c) \/ RequestFails(c) \/ Answers(c) \/ Expire(c)
      PROVE  Kept
  BY <1>1, <1>9 DEF AsksPilot, RequestFails, Answers, Expire
<1>10. ASSUME NEW q \in Roles, HandleKnown(q) \/ HandleNew(q) \/ HandleFailing(q) \/ HandleRefused(q)
       PROVE  Kept
  <2>1. Take(q)
    BY <1>10 DEF HandleKnown, HandleNew, HandleFailing, HandleRefused
  <2>2. QED
    BY <2>1, TakeIsTyped DEF TypeOK
<1>11. ASSUME (\E q \in Roles : DiesWriting(q)) \/ Ends
       PROVE  FALSE
  BY <1>11 DEF DiesWriting, Ends, Down
<1>12. CASE SidecarCrash \/ FinalizerStarts \/ FinalizerEnds \/ ScanTrouble \/ StopRequested
            \/ Boot \/ UNCHANGED vars
  BY <1>1, <1>12 DEF SidecarCrash, FinalizerStarts, FinalizerEnds, ScanTrouble, StopRequested, Boot,
     vars
<1>13. QED
  BY <1>2, <1>3, <1>4, <1>5, <1>6, <1>7, <1>8, <1>9, <1>10, <1>11, <1>12 DEF Next, NativeStep

(* A choice that was made stays made.                                      *)
LEMMA EndedStays ==
  ASSUME TypeOK, BoundsOK, ControllersInOrder, ThreadsInOrder, [Next]_vars,
         NEW c \in Callbacks, Ended(c)
  PROVE  Ended(c)'
<1>1. c = TurnOf(SeatOf(c)) /\ native[SeatOf(c)].at = "register" => sidecar[c].at = "idle"
  BY DEF ThreadsInOrder, NotBegun, TurnOf, SeatOf, Callbacks
<1>2. sidecar[c].at \in {"finished", "answered", "failed"} /\ sidecar[c].asked
  BY DEF Ended
<1>3. ~AsksPilot(c)
  BY <1>2 DEF AsksPilot
<1>4. QED
  BY <1>1, <1>2, <1>3, ThreadMoves DEF Ended

(* Ends stay behind their choices.                                         *)
LEMMA EndsStep ==
  ASSUME TypeOK, BoundsOK, ControllersInOrder, ThreadsInOrder, EndsAfterChoice, [Next]_vars
  PROVE  EndsAfterChoice'
<1>1. ASSUME NEW c \in Callbacks, On(c, "finished")'
      PROVE  Ended(c)'
  <2>1. CASE On(c, "finished")
    BY <2>1, EndedStays DEF EndsAfterChoice
  <2>2. CASE ~On(c, "finished")
    <3>1. PICK r \in Roles : Wrote(r)
      BY <1>1, <2>2, OneRow DEF On
    <3>2. Head(backlog[r]).cb = c /\ Head(backlog[r]).op = "finished"
      BY <1>1, <2>2, <3>1, OpsAre, WrittenIsOn
    <3>3. Len(backlog[r]) >= 1 /\ Head(backlog[r]) = backlog[r][1] /\ Len(backlog[r]) \in Nat
      BY <3>1, HeadIsMessage DEF Wrote, TypeOK
    <3>4. Ended(c)
      BY <3>2, <3>3 DEF EndsAfterChoice
    <3>5. QED
      BY <3>4, EndedStays
  <2>3. QED
    BY <2>1, <2>2
<1>2. ASSUME NEW r \in Roles, NEW i \in 1..Len(backlog'[r]), backlog'[r][i].op = "finished"
      PROVE  \E d \in Callbacks : d = backlog'[r][i].cb /\ Ended(d)'
  <2>1. CASE \E j \in 1..Len(backlog[r]) : backlog'[r][i] = backlog[r][j]
    <3>1. PICK j \in 1..Len(backlog[r]) : backlog'[r][i] = backlog[r][j]
      BY <2>1
    <3>2. backlog[r][j] \in Message
      BY DEF TypeOK
    <3>3. PICK d \in Callbacks : d = backlog[r][j].cb
      BY <3>2 DEF Message
    <3>4. Ended(d)
      BY <1>2, <3>1, <3>3 DEF EndsAfterChoice
    <3>5. QED
      BY <3>1, <3>3, <3>4, EndedStays
  <2>2. ASSUME NEW c \in Callbacks, backlog'[r][i].cb = c, sidecar'[c].at = "finished",
               sidecar[c].at \in {"choosing", "finished"}
        PROVE  Ended(c)'
    <3>1. sidecar[c].asked
      BY <2>2 DEF ThreadsInOrder
    <3>2. sidecar'[c].asked
      BY <2>2, <3>1, ThreadMoves
    <3>3. QED
      BY <2>2, <3>2 DEF Ended
  <2>3. QED
    BY <1>2, <2>1, <2>2, EndIsSent
<1>3. \A r \in Roles : \A i \in 1..Len(backlog'[r]) :
        backlog'[r][i].op = "finished" =>
          /\ sidecar'[backlog'[r][i].cb].at \in {"finished", "answered", "failed"}
          /\ sidecar'[backlog'[r][i].cb].asked
  BY <1>2 DEF Ended
<1>4. \A c \in Callbacks : On(c, "finished")' => Ended(c)'
  BY <1>1
<1>5. QED
  BY <1>3, <1>4 DEF EndsAfterChoice, Ended

(* The threads stay in order.                                              *)
LEMMA ThreadsStep ==
  ASSUME TypeOK, TypeOK', BoundsOK, ControllersInOrder, ThreadsInOrder, AcknowledgedIsDurable,
         [Next]_vars
  PROVE  ThreadsInOrder'
<1> SUFFICES ASSUME NEW c \in Callbacks
    PROVE  /\ NotBegun(c)' => sidecar'[c].at = "idle"
           /\ sidecar'[c].at \in {"idle", "requested", "started"} => ~sidecar'[c].asked
           /\ sidecar'[c].at \in {"choosing", "finished", "answered"} => sidecar'[c].asked
           /\ sidecar'[c].at = "choosing" => On(c, "started")'
           /\ sidecar'[c].at = "answered" => On(c, "finished")'
  BY DEF ThreadsInOrder
<1>1. /\ NotBegun(c) => sidecar[c].at = "idle"
      /\ sidecar[c].at \in {"idle", "requested", "started"} => ~sidecar[c].asked
      /\ sidecar[c].at \in {"choosing", "finished", "answered"} => sidecar[c].asked
      /\ sidecar[c].at = "choosing" => On(c, "started")
      /\ sidecar[c].at = "answered" => On(c, "finished")
  BY DEF ThreadsInOrder
<1>2. /\ On(c, "started") => On(c, "started")'
      /\ On(c, "finished") => On(c, "finished")'
  BY RecordStays, OpsAre
<1>3. AsksPilot(c) => sidecar[c].at = "started" /\ On(c, "started")
  BY DEF AsksPilot, Acked, Reply, Msg, AcknowledgedIsDurable
<1>4. Answers(c) => On(c, "finished")
  BY DEF Answers, Acked, Reply, Msg, AcknowledgedIsDurable
<1>5. c = TurnOf(SeatOf(c)) /\ native[SeatOf(c)].at = "register" => sidecar[c].at = "idle"
  BY <1>1 DEF NotBegun, TurnOf, SeatOf, Callbacks
<1>6. sidecar'[c].at = "requested" /\ sidecar[c].at # "requested" => ~NotBegun(c)'
  <2>1. SUFFICES ASSUME sidecar'[c].at = "requested", sidecar[c].at # "requested", NotBegun(c)'
                 PROVE  FALSE
    OBVIOUS
  <2>2. /\ c = TurnOf(SeatOf(c)) /\ native[SeatOf(c)].at = "register"
        /\ native'[SeatOf(c)].at = "http"
    BY <2>1, ThreadMoves
  <2>3. c[1] \in Seats /\ c[1] = SeatOf(c) /\ c[2] = native[c[1]].turn
    BY <2>2 DEF TurnOf, SeatOf, Callbacks
  <2>4. Requests(c[1])
    BY <2>2, <2>3, ControllerMoves DEF Same, Begins, GivesUp, Closes, Acts
  <2>5. QED
    BY <2>1, <2>3, <2>4, BeginsOnce
<1>7. NotBegun(c)' => sidecar'[c].at = "idle"
  BY <1>1, <1>3, <1>6, ThreadMoves, BeginsOnce
<1>8. QED
  BY <1>1, <1>2, <1>3, <1>4, <1>5, <1>7, ThreadMoves


(* HTTP answers a controller 200 only once the choice is on record.        *)
LEMMA ControllersStep ==
  ASSUME TypeOK, TypeOK', BoundsOK, ControllersInOrder, ThreadsInOrder, [Next]_vars
  PROVE  ControllersInOrder'
<1> SUFFICES ASSUME NEW s \in Seats
    PROVE  /\ native'[s].acted \subseteq 1..native'[s].turn
           /\ native'[s].at # "idle" =>
                native'[s].turn >= 1 /\ native'[s].turn \notin native'[s].acted
           /\ native'[s].ok => native'[s].at = "closed" /\ On(TurnOf(s), "finished")'
  BY DEF ControllersInOrder
<1>1. /\ native[s].acted \subseteq 1..native[s].turn
      /\ native[s].at # "idle" => native[s].turn >= 1 /\ native[s].turn \notin native[s].acted
      /\ native[s].ok => native[s].at = "closed" /\ On(TurnOf(s), "finished")
  BY DEF ControllersInOrder
<1>2. native[s].turn \in Nat
  BY BridgeAssumption DEF TypeOK
<1>3. native[s].at # "idle" => TurnOf(s) \in Callbacks
  BY TurnBegun
<1>4. /\ native[s].at # "idle" /\ On(TurnOf(s), "finished") /\ native'[s].turn = native[s].turn
      => On(TurnOf(s), "finished")'
  <2>1. SUFFICES ASSUME native[s].at # "idle", On(TurnOf(s), "finished"),
                        native'[s].turn = native[s].turn
                 PROVE  On(TurnOf(s), "finished")'
    OBVIOUS
  <2>2. PICK c \in Callbacks : c = TurnOf(s)
    BY <1>3, <2>1
  <2>3. On(c, "finished")'
    BY <2>1, <2>2, OpsAre, RecordStays
  <2>4. c = TurnOf(s)'
    BY <2>1, <2>2 DEF TurnOf
  <2>5. QED
    BY <2>3, <2>4 DEF On
<1>5. CASE Same(s)
  BY <1>1, <1>4, <1>5 DEF Same
<1>6. CASE Begins(s)
  BY <1>1, <1>2, <1>6 DEF Begins
<1>7. CASE GivesUp(s)
  BY <1>1, <1>7 DEF GivesUp
<1>8. CASE Requests(s)
  BY <1>1, <1>8 DEF Requests
<1>9. CASE Closes(s)
  <2>1. native'[s].ok => On(TurnOf(s), "finished")
    BY <1>3, <1>9 DEF Closes, ThreadsInOrder
  <2>2. QED
    BY <1>1, <1>4, <1>9, <2>1 DEF Closes
<1>10. CASE Acts(s)
  <2>1. ActsOn(s) \subseteq 1..native[s].turn
    BY <1>1, <1>2, <1>10 DEF Acts, ActsOn
  <2>2. QED
    BY <1>1, <1>10, <2>1 DEF Acts
<1>11. QED
  BY <1>5, <1>6, <1>7, <1>8, <1>9, <1>10, ControllerMoves

(* What the engine acts on has all its rows.                               *)
LEMMA RecordedAtClose ==
  ASSUME TypeOK, ReceiptsInOrder, AcknowledgedIsDurable, ControllersInOrder,
         NEW s \in Seats, Acts(s), native[s].ok
  PROVE  /\ TurnOf(s) \in Callbacks
         /\ On(TurnOf(s), "register") /\ On(TurnOf(s), "started") /\ On(TurnOf(s), "finished")
         /\ On(TurnOf(s), "closed") \/ game = "sealed"
<1>1. TurnOf(s) \in Callbacks
  BY TurnBegun DEF Acts
<1>2. On(TurnOf(s), "finished")
  BY DEF ControllersInOrder
<1>3. On(TurnOf(s), "closed") \/ game = "sealed"
  BY DEF Acts, AcknowledgedIsDurable
<1>4. QED
  BY <1>1, <1>2, <1>3 DEF ReceiptsInOrder

(* What the engine acted on stays recorded.                                *)
LEMMA ActedStep ==
  ASSUME TypeOK, TypeOK', BoundsOK, ControllersInOrder, ReceiptsInOrder, AcknowledgedIsDurable,
         ActedIsRecorded, [Next]_vars
  PROVE  ActedIsRecorded'
<1> SUFFICES ASSUME NEW c \in Callbacks, ActedOn(c)'
    PROVE  /\ On(c, "register")' /\ On(c, "started")' /\ On(c, "finished")'
           /\ On(c, "closed")' \/ game' = "sealed"
  BY DEF ActedIsRecorded
<1>1. c[1] \in Seats /\ c = <<c[1], c[2]>>
  BY DEF Callbacks
<1>2. /\ On(c, "register") /\ On(c, "started") /\ On(c, "finished")
      /\ On(c, "closed") \/ game = "sealed"
  <2>1. CASE ActedOn(c)
    BY <2>1 DEF ActedIsRecorded
  <2>2. CASE ~ActedOn(c)
    <3>1. Acts(c[1])
      BY <1>1, <2>2, ControllerMoves DEF ActedOn, Same, Begins, GivesUp, Requests, Closes
    <3>2. c[2] \in ActsOn(c[1])
      BY <2>2, <3>1 DEF ActedOn, Acts
    <3>3. native[c[1]].ok /\ TurnOf(c[1]) = c
      BY <1>1, <3>2 DEF ActsOn, TurnOf
    <3>4. QED
      BY <1>1, <3>1, <3>3, RecordedAtClose
  <2>3. QED
    BY <2>1, <2>2
<1>3. QED
  BY <1>2, OpsAre, RecordStays, SealStays
-----------------------------------------------------------------------------
(***************************************************************************)
(* The theorems.                                                           *)
(***************************************************************************)

(* The invariant holds at first ...                                        *)
LEMMA InitIInv == Init => IInv
<1> SUFFICES ASSUME Init PROVE IInv
  OBVIOUS
<1> USE BridgeAssumption DEF Init
<1>1. TypeOK /\ BoundsOK
  <2>1. recorder \in [at : {"up", "stopping", "down"}, failed : BOOLEAN,
                      errors : SUBSET {"bridge", "native"}]
    BY DEF FreshRecorder
  <2>2. BoundsOK
    BY DEF BoundsOK
  <2>3. bounds.turns \in 0..MaxTurns /\ bounds.faults \in Nat
    BY <2>2 DEF BoundsOK
  <2>4. QED
    BY <2>1, <2>2, <2>3, OneTry, NoBacklogIsTyped DEF TypeOK
<1>2. \A c \in Callbacks, op \in Ops : ~On(c, op)
  BY DEF On
<1>3. ReceiptsInOrder /\ OnePending /\ AcknowledgedIsDurable /\ EndsAfterChoice
  BY <1>2, OpsAre DEF ReceiptsInOrder, OnePending, Pending, AcknowledgedIsDurable, EndsAfterChoice
<1>4. ThreadsInOrder /\ ControllersInOrder /\ ActedIsRecorded
  BY DEF ThreadsInOrder, ControllersInOrder, ActedIsRecorded, ActedOn, Callbacks
<1>5. QED
  BY <1>1, <1>3, <1>4 DEF IInv

(* ... and every step keeps it.                                            *)
LEMMA NextIInv == IInv /\ [Next]_vars => IInv'
BY TypeStep, BoundsStep, OrderStep, PendingStep, AcknowledgedStep, EndsStep, ThreadsStep,
   ControllersStep, ActedStep DEF IInv

(* The inductive invariant holds in every reachable state.                 *)
THEOREM Invariance == Spec => []IInv
BY InitIInv, NextIInv, PTL DEF Spec

(* A pilot that is choosing has a start on record and no end, and is the   *)
(* only one of its seat.                                                   *)
LEMMA ChoosingIsPending ==
  ASSUME TypeOK, OnePending, EndsAfterChoice, ThreadsInOrder
  PROVE  OneChoiceAtATime
<1>1. \A c \in Callbacks : sidecar[c].at = "choosing" => Pending(c)
  BY DEF Pending, ThreadsInOrder, EndsAfterChoice, Ended
<1>2. QED
  BY <1>1 DEF OneChoiceAtATime, OnePending

(* recorder_bridge.py, post: whatever is lost, repeated, refused, answered *)
(* late or restarted, the engine acts only on choices whose callback,      *)
(* start and end are in the journal, a seat's pilot is asked about one     *)
(* callback at a time, the journal tells one story per callback, and what  *)
(* a client was told is durable.                                           *)
THEOREM ReceiptsSound == Spec => []ReceiptsAreSound
<1>1. IInv => ReceiptsAreSound
  BY ChoosingIsPending DEF IInv, ReceiptsAreSound
<1>2. QED
  BY <1>1, Invariance, PTL

-----------------------------------------------------------------------------
(***************************************************************************)
(* The refinement: a written row advances one callback's phase, asking a   *)
(* pilot asks, closing a callback that has a choice chooses, and all other *)
(* steps stutter.                                                          *)
(***************************************************************************)

Phase == [c \in Callbacks |-> PhaseOf(c)]
Chosen == {c \in Callbacks : ActedOn(c)}

(* Phases, as what is on record.                                           *)
LEMMA PhaseTurns ==
  ASSUME TypeOK, ReceiptsInOrder, NEW c \in Callbacks
  PROVE  /\ Phase[c] = "none" <=> ~On(c, "register")
         /\ Phase[c] = "registered" <=> On(c, "register") /\ ~On(c, "started")
         /\ Phase[c] = "started" <=> On(c, "started") /\ ~On(c, "finished")
         /\ Phase[c] = "finished" <=> On(c, "finished")
BY DEF Phase, PhaseOf, ReceiptsInOrder

(* A step that writes a row touches no controller and no thread.           *)
LEMMA WriteOnly ==
  ASSUME [Next]_vars, ~UNCHANGED receipts
  PROVE  UNCHANGED <<native, sidecar>>
<1>1. ASSUME NEW s \in Seats, BeginTurn(s) \/ NativeStep(s)
      PROVE  FALSE
  BY <1>1 DEF BeginTurn, NativeStep, NativeGivesUp, Registered, HttpAnswers, HttpFails, Closed,
     OthersOfNative
<1>2. ASSUME NEW c \in Callbacks,
             \/ Arrives(c) \/ SidecarGivesUp(c) \/ AsksPilot(c)
             \/ PilotEnds(c) \/ RequestFails(c) \/ Answers(c) \/ Expire(c)
      PROVE  FALSE
  BY <1>2 DEF Arrives, SidecarGivesUp, AsksPilot, PilotEnds, RequestFails, Answers, Expire,
     OthersOfSidecar
<1>3. ASSUME NEW r \in Roles,
             HandleKnown(r) \/ HandleNew(r) \/ HandleFailing(r) \/ HandleRefused(r) \/ DiesWriting(r)
      PROVE  UNCHANGED <<native, sidecar>>
  BY <1>3 DEF HandleKnown, HandleNew, HandleFailing, HandleRefused, DiesWriting, Down,
     OthersOfRecorder
<1>4. ASSUME \/ SidecarCrash \/ FinalizerStarts \/ FinalizerEnds \/ ScanTrouble \/ StopRequested
             \/ Ends \/ Boot \/ UNCHANGED vars
      PROVE  FALSE
  BY <1>4 DEF SidecarCrash, FinalizerStarts, FinalizerEnds, ScanTrouble, StopRequested, Ends, Boot,
     vars
<1>5. QED
  BY <1>1, <1>2, <1>3, <1>4 DEF Next

(* A written row advances its callback, or leaves every phase alone.       *)
LEMMA WriteAdvances ==
  ASSUME IInv, IInv', NEW r \in Roles, Wrote(r), UNCHANGED <<native, sidecar>>
  PROVE  [Turn!Next]_(Turn!vars)
<1> DEFINE m == Head(backlog[r])
<1>1. TypeOK /\ TypeOK' /\ ReceiptsInOrder /\ ReceiptsInOrder' /\ EndsAfterChoice
  BY DEF IInv
<1>2. m \in Message /\ m.cb \in Callbacks /\ m.op \in Ops
  BY <1>1, HeadIsMessage DEF Wrote, Message
<1>3. PICK k \in Callbacks : k = m.cb
  BY <1>2
<1>4. UNCHANGED Asked /\ UNCHANGED Chosen
  BY DEF Asked, Chosen, ActedOn
<1>5. \A c \in Callbacks, op \in Ops : On(c, op)' <=> On(c, op) \/ (k = c /\ m.op = op)
  BY <1>1, <1>3, WrittenIsOn
<1>6. \A c \in Callbacks :
        /\ On(c, "register")' <=> On(c, "register") \/ (k = c /\ m.op = "register")
        /\ On(c, "started")' <=> On(c, "started") \/ (k = c /\ m.op = "started")
        /\ On(c, "finished")' <=> On(c, "finished") \/ (k = c /\ m.op = "finished")
  BY <1>5, OpsAre
<1>7. \A c \in Callbacks : c # k => PhaseOf(c)' = PhaseOf(c)
  BY <1>6 DEF PhaseOf
<1>8. ~On(k, m.op) /\ Admits(m)
  BY <1>3 DEF Wrote, Appends, Duplicate
<1>9. ASSUME NEW from, NEW to, PhaseOf(k) = from, PhaseOf(k)' = to
      PROVE  Phase[k] = from /\ Phase' = [Phase EXCEPT ![k] = to]
  BY <1>7, <1>9 DEF Phase
<1>10. CASE m.op = "register"
  <2>1. ~On(k, "register") /\ ~On(k, "started") /\ ~On(k, "finished")
    BY <1>1, <1>8, <1>10 DEF ReceiptsInOrder
  <2>2. PhaseOf(k) = "none" /\ PhaseOf(k)' = "registered"
    BY <1>6, <1>10, <2>1 DEF PhaseOf
  <2>3. Turn!Advance(k, "none", "registered")
    BY <1>4, <1>9, <2>2 DEF Turn!Advance, Phase, Chosen
  <2>4. QED
    BY <2>3 DEF Turn!Next
<1>11. CASE m.op = "started"
  <2>1. On(k, "register") /\ ~On(k, "started") /\ ~PendingOfSeat(k)
    BY <1>3, <1>8, <1>11 DEF Admits
  <2>2. ~On(k, "finished")
    BY <1>1, <2>1 DEF ReceiptsInOrder
  <2>3. PhaseOf(k) = "registered" /\ PhaseOf(k)' = "started"
    BY <1>6, <1>11, <2>1, <2>2 DEF PhaseOf
  <2>4. \A d \in Callbacks : SeatOf(d) = SeatOf(k) => Phase[d] # "started"
    BY <1>1, <2>1, PhaseTurns DEF PendingOfSeat, Pending
  <2>5. Turn!Start(k)
    BY <1>4, <1>9, <2>3, <2>4 DEF Turn!Start, Turn!Advance, Phase, Chosen
  <2>6. QED
    BY <2>5 DEF Turn!Next
<1>12. CASE m.op = "finished"
  <2>1. On(k, "started") /\ ~On(k, "finished")
    BY <1>3, <1>8, <1>12 DEF Admits, Pending
  <2>2. PhaseOf(k) = "started" /\ PhaseOf(k)' = "finished"
    BY <1>6, <1>12, <2>1 DEF PhaseOf
  <2>3. k \in Asked
    <3>1. Len(backlog[r]) >= 1 /\ m = backlog[r][1] /\ Len(backlog[r]) \in Nat
      BY <1>1, HeadIsMessage DEF Wrote, TypeOK
    <3>2. Ended(k)
      BY <1>1, <1>3, <1>12, <3>1 DEF EndsAfterChoice
    <3>3. QED
      BY <3>2 DEF Ended, Asked
  <2>4. Turn!Finish(k)
    BY <1>4, <1>9, <2>2, <2>3 DEF Turn!Finish, Turn!Advance, Phase, Chosen
  <2>5. QED
    BY <2>4 DEF Turn!Next
<1>13. CASE m.op = "closed"
  <2>1. \A c \in Callbacks : PhaseOf(c)' = PhaseOf(c)
    BY <1>6, <1>13 DEF PhaseOf
  <2>2. QED
    BY <1>4, <2>1 DEF Turn!vars, Chosen
<1>14. QED
  BY <1>2, <1>10, <1>11, <1>12, <1>13, OpsAre

(* Every step is a step of SeatTurns, or stutters.                         *)
LEMMA StepIsTurn ==
  ASSUME IInv, IInv', [Next]_vars
  PROVE  [Turn!Next]_(Turn!vars)
<1>1. TypeOK /\ BoundsOK /\ ControllersInOrder /\ ThreadsInOrder /\ ReceiptsInOrder
      /\ AcknowledgedIsDurable /\ EndsAfterChoice
  BY DEF IInv
<1>2. CASE ~UNCHANGED receipts
  <2>1. PICK r \in Roles : Wrote(r)
    BY <1>2, OneRow
  <2>2. QED
    BY <1>2, <2>1, WriteOnly, WriteAdvances
<1>3. UNCHANGED receipts => UNCHANGED Phase
  BY DEF Phase, PhaseOf, On
<1>4. ASSUME UNCHANGED receipts, NEW c \in Callbacks, AsksPilot(c)
      PROVE  Turn!Ask(c)
  <2>1. On(c, "started") /\ ~On(c, "finished") /\ c \notin Asked
    BY <1>1, <1>4 DEF AsksPilot, Acked, Reply, Msg, AcknowledgedIsDurable, EndsAfterChoice, Ended,
       ThreadsInOrder, Asked
  <2>2. Phase[c] = "started"
    BY <1>1, <2>1, PhaseTurns
  <2>3. Asked' = Asked \cup {c}
    BY <1>1, <1>4, SidecarForms DEF SidecarIs, Asked
  <2>4. UNCHANGED Chosen
    BY <1>4 DEF AsksPilot, OthersOfSidecar, Chosen, ActedOn
  <2>5. QED
    BY <1>3, <1>4, <2>1, <2>2, <2>3, <2>4 DEF Turn!Ask, Phase, Chosen
<1>5. ASSUME UNCHANGED receipts, NEW s \in Seats, Acts(s)
      PROVE  Turn!Choose(TurnOf(s)) \/ UNCHANGED Turn!vars
  <2>1. UNCHANGED Asked
    BY <1>5 DEF Acts, Closed, Asked
  <2>2. TurnOf(s) \in Callbacks /\ native[s].turn \notin native[s].acted
    BY <1>1, <1>5, TurnBegun DEF Acts, ControllersInOrder
  <2>3. \A c \in Callbacks : ActedOn(c)' <=> ActedOn(c) \/ (c[1] = s /\ c[2] \in ActsOn(s))
    BY <1>1, <1>5, NativeForms DEF Acts, ActedOn, NativeIs, Callbacks
  <2>4. CASE native[s].ok
    <3>1. Chosen' = Chosen \cup {TurnOf(s)}
      BY <2>2, <2>3, <2>4 DEF Chosen, ActsOn, TurnOf, Callbacks
    <3>2. TurnOf(s) \notin Chosen
      BY <2>2 DEF Chosen, ActedOn, TurnOf
    <3>3. Phase[TurnOf(s)] = "finished"
      BY <1>1, <1>5, <2>2, <2>4, RecordedAtClose, PhaseTurns
    <3>4. QED
      BY <1>3, <1>5, <2>1, <3>1, <3>2, <3>3 DEF Turn!Choose, Phase, Chosen
  <2>5. CASE ~native[s].ok
    <3>1. UNCHANGED Chosen
      BY <2>3, <2>5 DEF Chosen, ActsOn
    <3>2. QED
      BY <1>3, <1>5, <2>1, <3>1 DEF Turn!vars, Phase, Chosen
  <2>6. QED
    BY <2>4, <2>5
<1>6. ASSUME UNCHANGED receipts, \A c \in Callbacks : ~AsksPilot(c), \A s \in Seats : ~Acts(s)
      PROVE  UNCHANGED Turn!vars
  <2>1. \A c \in Callbacks : sidecar'[c].asked = sidecar[c].asked
    BY <1>1, <1>6, ThreadMoves
  <2>2. \A s \in Seats : native'[s].acted = native[s].acted
    BY <1>1, <1>6, ControllerMoves DEF Same, Begins, GivesUp, Requests, Closes
  <2>3. UNCHANGED Asked /\ UNCHANGED Chosen
    BY <2>1, <2>2 DEF Asked, Chosen, ActedOn, Callbacks
  <2>4. QED
    BY <1>3, <1>6, <2>3 DEF Turn!vars, Phase, Chosen
<1>7. \A s \in Seats : Acts(s) => TurnOf(s) \in Callbacks
  BY <1>1, TurnBegun DEF Acts
<1>8. QED
  BY <1>2, <1>4, <1>5, <1>6, <1>7 DEF Turn!Next

(* The abstract promise, SeatTurns: what the journal says of a seat's      *)
(* callbacks, whom the pilots were asked about and what the engine acted   *)
(* on advance together, in that order, one callback of a seat at a time.   *)
THEOREM BridgeIsSeatTurns == Spec => ImplementsSeatTurns
<1>1. Init => Turn!Init
  BY DEF Init, Turn!Init, PhaseOf, On, Asked, ActedOn, Callbacks
<1>2. IInv /\ IInv' /\ [Next]_vars => [Turn!Next]_(Turn!vars)
  BY StepIsTurn
<1>3. QED
  BY <1>1, <1>2, Invariance, PTL DEF Spec, ImplementsSeatTurns, Turn!Spec
=============================================================================
