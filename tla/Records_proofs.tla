---------------------------- MODULE Records_proofs ----------------------------
(***************************************************************************)
(* Proofs about what is kept.  Of the requests of an experiment            *)
(* (CacheProbe): none is sent twice, none after a doubtful one, and what   *)
(* was paid for is kept, for any list of requests, limits, processes,      *)
(* deaths and other runs on the same ledger.  Of the games that are        *)
(* recorded (CaptureEvidence, CallbackDrain): an envelope tells of the     *)
(* game as it was played, and an observed drain is of a game at rest, for  *)
(* any callbacks, choices, faults and pauses.                              *)
(***************************************************************************)
EXTENDS CacheProbe, CallbackDrain, FiniteSetTheorems, SequenceTheorems, WellFoundedInduction, TLAPS

(* CacheProbe.                                                              *)

Attempt == [trial : Nat, retry : BOOLEAN, usage : Usages, valid : BOOLEAN]
Kinds == {"provider_response", "budget_error", "transport_error"}
Intent == [trial : Nat, retry : BOOLEAN]
Result == [trial : Nat, retry : BOOLEAN, kind : Kinds, valid : BOOLEAN, charge : Nat, unsettled : Nat]
Dispatch == [ordinal : Nat, trial : Nat, retry : BOOLEAN]

Unsent == {"intended", "reserved"}
Flying == {"intended", "reserved", "answered", "settled", "budget error", "transport failed"}
Places == Flying \cup {"down", "opening", "ready", "finished"}

TypeOK ==
  /\ intents \in Seq(Intent) /\ results \in Seq(Result) /\ sent \in Seq(Dispatch)
  /\ billed \in Nat
  /\ pc \in [Procs -> Places] /\ here \in [Procs -> Attempt]

(* One process at a time works on the session.                             *)
LockOK == \A p \in Procs : pc[p] # "down" => lock = {p}

(* The journals pair up but for the attempt that is under way, or whose    *)
(* process died.                                                           *)
Same(a, b) == a.trial = b.trial /\ a.retry = b.retry
PairsOK ==
  /\ Len(intents) \in {Len(results), Len(results) + 1}
  /\ \A i \in DOMAIN results : Same(results[i], intents[i])
  /\ \A p \in Procs : pc[p] \in Flying =>
       Len(intents) = Len(results) + 1 /\ Same(here[p], intents[Len(intents)])

(* The requests follow the list: a trial, perhaps its retry, the next.     *)
Follows(a, b) == a.trial < b.trial \/ (a.trial = b.trial /\ ~a.retry /\ b.retry)
OrderOK ==
  /\ \A i, j \in DOMAIN intents : i < j => Follows(intents[i], intents[j])
  /\ Retries(intents) <= MaxRetries
  /\ intents # << >> => intents[Len(intents)].trial = Primaries(intents)

(* What was sent are attempts that were written down before, in order.     *)
SentOK ==
  /\ \A i \in DOMAIN sent :
       sent[i].ordinal \in DOMAIN intents /\ Same(sent[i], intents[sent[i].ordinal])
  /\ \A i, j \in DOMAIN sent : i < j => sent[i].ordinal < sent[j].ordinal
  /\ \A p \in Procs : pc[p] \in Unsent => \A i \in DOMAIN sent : sent[i].ordinal < Len(intents)

(* No attempt follows one that was refused, lost or left unsettled.        *)
Clean(result) == result.kind = "provider_response" /\ result.unsettled = 0
CleanOK == \A i \in DOMAIN results : i < Len(intents) => Clean(results[i])

(* An answer above the estimate is the last: until it the bill is within   *)
(* what was reserved.                                                      *)
BilledOK ==
  /\ billed <= Reservation * Len(intents) + 1
  /\ (Len(intents) = Len(results) /\ \A i \in DOMAIN results : results[i].kind = "provider_response")
       => billed <= Reservation * Len(intents)
  /\ \A p \in Procs :
       /\ pc[p] \in Unsent => billed + Reservation <= Reservation * Len(intents)
       /\ pc[p] = "settled" \/ (pc[p] = "answered" /\ here[p].usage = "full")
            => billed <= Reservation * Len(intents)

ReceiptsOK == \A i \in DOMAIN results : results[i].kind # "transport_error" => i \in receipts

IInv == TypeOK /\ LockOK /\ PairsOK /\ OrderOK /\ SentOK /\ CleanOK /\ BilledOK /\ ReceiptsOK
-----------------------------------------------------------------------------
(***************************************************************************)
(* Counting the retries of a journal.                                      *)
(***************************************************************************)

(* A finite journal has a number of retries, at most its length.           *)
LEMMA RetriesType ==
  ASSUME NEW S, NEW s \in Seq(S)
  PROVE  Retries(s) \in Nat /\ Retries(s) <= Len(s) /\ IsFiniteSet({i \in DOMAIN s : s[i].retry})
<1>1. IsFiniteSet(1..Len(s)) /\ Cardinality(1..Len(s)) = Len(s)
  <2>1. Len(s) \in Nat /\ Len(s) \in Int /\ 1 \in Int
    OBVIOUS
  <2>2. IsFiniteSet(1..Len(s)) /\ Cardinality(1..Len(s)) = IF 1 > Len(s) THEN 0 ELSE Len(s) - 1 + 1
    BY <2>1, FS_Interval
  <2>3. QED
    BY <2>1, <2>2
<1>2. {i \in DOMAIN s : s[i].retry} \in SUBSET (1..Len(s))
  OBVIOUS
<1>3. IsFiniteSet({i \in DOMAIN s : s[i].retry}) /\ Cardinality({i \in DOMAIN s : s[i].retry}) <= Len(s)
  BY <1>1, <1>2, FS_Subset
<1>4. QED
  BY <1>3, FS_CardinalityType DEF Retries

(* One more row counts if it is a retry.                                   *)
LEMMA RetriesAppend ==
  ASSUME NEW S, NEW s \in Seq(S), NEW e \in S
  PROVE  /\ e.retry => Retries(Append(s, e)) = Retries(s) + 1
         /\ ~e.retry => Retries(Append(s, e)) = Retries(s)
<1> DEFINE R == {i \in DOMAIN s : s[i].retry}
<1> DEFINE t == Append(s, e)
<1>1. /\ DOMAIN s = 1..Len(s) /\ DOMAIN t = 1..(Len(s) + 1) /\ Len(s) \in Nat
      /\ t[Len(s) + 1] = e /\ \A i \in 1..Len(s) : t[i] = s[i]
  OBVIOUS
<1>2. IsFiniteSet(R)
  BY RetriesType
<1>3. ASSUME e.retry PROVE Retries(t) = Retries(s) + 1
  <2>1. {i \in DOMAIN t : t[i].retry} = R \cup {Len(s) + 1}
    BY <1>1, <1>3
  <2>2. Len(s) + 1 \notin R
    BY <1>1
  <2>3. QED
    BY <1>2, <2>1, <2>2, FS_AddElement DEF Retries
<1>4. ASSUME ~e.retry PROVE Retries(t) = Retries(s)
  <2>1. {i \in DOMAIN t : t[i].retry} = R
    BY <1>1, <1>4
  <2>2. QED
    BY <2>1 DEF Retries
<1>5. QED
  BY <1>3, <1>4

(* Rows that are retries of different rows of another journal are no more  *)
(* than the retries there.                                                 *)
LEMMA RetriesOfOthers ==
  ASSUME TypeOK, SentOK
  PROVE  Retries(sent) <= Retries(intents)
<1> DEFINE S == {i \in DOMAIN sent : sent[i].retry}
<1> DEFINE T == {i \in DOMAIN intents : intents[i].retry}
<1> DEFINE f == [i \in S |-> sent[i].ordinal]
<1>1. IsFiniteSet(S) /\ IsFiniteSet(T)
  BY RetriesType DEF TypeOK
<1>2. f \in [S -> T]
  BY DEF SentOK, Same
<1>3. ASSUME NEW x \in S, NEW y \in S, x # y PROVE f[x] # f[y]
  <2>1. x \in Nat /\ y \in Nat /\ x \in DOMAIN sent /\ y \in DOMAIN sent
    BY DEF TypeOK
  <2>2. sent[x].ordinal \in Nat /\ sent[y].ordinal \in Nat
    <3>1. sent \in Seq(Dispatch)
      BY DEF TypeOK
    <3>2. sent[x] \in Dispatch /\ sent[y] \in Dispatch
      BY <2>1, <3>1
    <3>3. QED
      BY <3>2 DEF Dispatch
  <2>3. x < y \/ y < x
    BY <1>3, <2>1
  <2>4. sent[x].ordinal < sent[y].ordinal \/ sent[y].ordinal < sent[x].ordinal
    BY <2>1, <2>3 DEF SentOK
  <2>5. QED
    BY <2>2, <2>4
<1>4. ~(Cardinality(T) < Cardinality(S))
  <2>1. SUFFICES ASSUME Cardinality(T) < Cardinality(S) PROVE FALSE
    OBVIOUS
  <2> HIDE DEF S, T, f
  <2>2. \E x, y \in S : x # y /\ f[x] = f[y]
    BY <1>1, <1>2, <2>1, FS_PigeonHole
  <2>3. QED
    BY <1>3, <2>2
<1>5. Cardinality(S) \in Nat /\ Cardinality(T) \in Nat
  BY <1>1, FS_CardinalityType
<1>6. QED
  BY <1>4, <1>5 DEF Retries

-----------------------------------------------------------------------------
(***************************************************************************)
(* What the steps have in common.                                          *)
(***************************************************************************)

(* The next attempt is one of the list.                                    *)
LEMMA NextAttemptType ==
  ASSUME TypeOK
  PROVE  NextAttempt \in Attempt
<1>1. NoAttempt \in Attempt
  BY DEF NoAttempt, Attempt, Usages
<1>2. ASSUME results # << >> PROVE Last(results).trial \in Nat
  <2>1. results \in Seq(Result)
    BY DEF TypeOK
  <2>2. Len(results) \in DOMAIN results
    BY <1>2, <2>1
  <2>3. results[Len(results)] \in Result
    BY <2>1, <2>2
  <2>4. QED
    BY <2>3 DEF Last, Result
<1>3. ASSUME RetryDue PROVE NextAttempt = [NoAttempt EXCEPT !.trial = Last(results).trial, !.retry = TRUE]
  BY <1>3 DEF NextAttempt
<1>4. ASSUME ~RetryDue PROVE NextAttempt = [NoAttempt EXCEPT !.trial = Primaries(intents) + 1]
  BY <1>4 DEF NextAttempt
<1>5. Primaries(intents) + 1 \in Nat
  <2>1. intents \in Seq(Intent)
    BY DEF TypeOK
  <2>2. Len(intents) \in Nat
    BY <2>1
  <2>3. Retries(intents) \in Nat /\ Retries(intents) <= Len(intents)
    BY <2>1, RetriesType, Zenon
  <2>4. QED
    BY <2>2, <2>3 DEF Primaries
<1>6. ASSUME RetryDue PROVE NextAttempt \in Attempt
  <2>1. results # << >>
    BY <1>6 DEF RetryDue
  <2>2. QED
    BY <1>1, <1>2, <1>3, <1>6, <2>1 DEF Attempt
<1>7. ASSUME ~RetryDue PROVE NextAttempt \in Attempt
  BY <1>1, <1>4, <1>5, <1>7 DEF Attempt
<1>8. QED
  BY <1>6, <1>7

(* The charge of an answer is at most one above the estimate.              *)
LEMMA ChargeType ==
  ASSUME NEW u \in Usages
  PROVE  Charge(u) \in Nat /\ Charge(u) <= Reservation + 1 /\ (u = "full" => Charge(u) <= Reservation)
BY DEF Usages, Charge, Reservation

(* What a process writes down as its result.                               *)
LEMMA UsageChargeType ==
  ASSUME TypeOK, NEW p \in Procs
  PROVE  UsageCharge(p)[1] \in Nat /\ UsageCharge(p)[2] \in Nat
<1>1. here[p].usage \in Usages
  BY DEF TypeOK, Attempt
<1>2. QED
  BY <1>1, ChargeType DEF UsageCharge, Reservation

(* Types, through every step.                                              *)
LEMMA TypeStep ==
  ASSUME TypeOK, [Next]_vars
  PROVE  TypeOK'
<1>0. /\ intents \in Seq(Intent) /\ results \in Seq(Result) /\ sent \in Seq(Dispatch) /\ billed \in Nat
      /\ pc \in [Procs -> Places] /\ here \in [Procs -> Attempt]
  BY DEF TypeOK
<1>1. ASSUME UNCHANGED <<intents, results, sent, billed, here>>, pc' \in [Procs -> Places]
      PROVE  TypeOK'
  BY <1>1 DEF TypeOK
<1>2. ASSUME NEW p \in Procs, NEW place \in Places, Moves(p, place)
      PROVE  pc' \in [Procs -> Places]
  BY <1>0, <1>2 DEF Moves
<1>3. {"down", "opening", "ready", "finished", "intended", "reserved", "answered", "settled",
       "budget error", "transport failed"} \subseteq Places
  BY DEF Places, Flying
<1>4. CASE UNCHANGED vars
  BY <1>4 DEF vars, disk, TypeOK
<1>5. CASE Foreign
  BY <1>5 DEF Foreign, disk, TypeOK
<1>6. ASSUME NEW p \in Procs, Work(p) \/ ReserveFails(p) \/ SettleFails(p) \/ Dies(p)
      PROVE  TypeOK'
  <2>1. CASE \/ TakeLock(p) \/ WriteManifest(p) \/ Resume(p) \/ OpenRefused(p) \/ Completes(p)
             \/ StopsForReview(p) \/ Reserve(p) \/ Rejected(p) \/ ReserveFails(p) \/ SettleFails(p)
             \/ Dies(p)
    BY <1>1, <1>2, <1>3, <2>1 DEF TakeLock, WriteManifest, Resume, OpenRefused, Completes, StopsForReview,
       Reserve, Rejected, ReserveFails, SettleFails, Dies, Stops, disk
  <2>2. CASE Begin(p)
    <3>1. NextAttempt \in Attempt /\ [trial |-> NextAttempt.trial, retry |-> NextAttempt.retry] \in Intent
      BY NextAttemptType DEF Attempt, Intent
    <3>2. /\ here' = [here EXCEPT ![p] = NextAttempt]
          /\ intents' = Append(intents, [trial |-> NextAttempt.trial, retry |-> NextAttempt.retry])
          /\ Moves(p, "intended") /\ UNCHANGED <<results, sent, billed>>
      BY <2>2 DEF Begin
    <3>3. pc' \in [Procs -> Places]
      BY <1>2, <1>3, <3>2
    <3>4. intents' \in Seq(Intent) /\ here' \in [Procs -> Attempt]
      BY <1>0, <3>1, <3>2
    <3>5. QED
      BY <1>0, <3>2, <3>3, <3>4 DEF TypeOK
  <2>3. CASE Send(p)
    <3>1. PICK u \in Usages, v \in BOOLEAN, answered \in BOOLEAN :
            /\ billed' = billed + Charge(u)
            /\ here' = [here EXCEPT ![p].usage = u, ![p].valid = v]
            /\ Moves(p, IF answered THEN "answered" ELSE "transport failed")
      BY <2>3 DEF Send
    <3>2. UNCHANGED <<intents, results>>
          /\ sent' = Append(sent, [ordinal |-> Len(intents), trial |-> here[p].trial, retry |-> here[p].retry])
      BY <2>3 DEF Send, disk
    <3>3. here' = [here EXCEPT ![p] = [here[p] EXCEPT !.usage = u, !.valid = v]]
      BY <3>1
    <3>4. [here[p] EXCEPT !.usage = u, !.valid = v] \in Attempt
      BY <1>0 DEF Attempt
    <3>5. [ordinal |-> Len(intents), trial |-> here[p].trial, retry |-> here[p].retry] \in Dispatch
      BY <1>0 DEF Attempt, Dispatch
    <3>6. pc' \in [Procs -> Places]
      BY <1>2, <1>3, <3>1
    <3>7. billed' \in Nat
      <4>1. Charge(u) \in Nat
        BY ChargeType
      <4>2. billed' = billed + Charge(u) /\ billed \in Nat
        BY <1>0, <3>1, Zenon
      <4>3. QED
        BY <4>1, <4>2
    <3>8. sent' \in Seq(Dispatch) /\ here' \in [Procs -> Attempt]
      BY <1>0, <3>2, <3>3, <3>4, <3>5
    <3>9. QED
      BY <1>0, <3>2, <3>6, <3>7, <3>8 DEF TypeOK
  <2>4. CASE Settle(p)
    BY <1>1, <1>2, <1>3, <2>4 DEF Settle, disk
  <2>5. CASE KeepResponse(p)
    BY <1>0, <1>1, <2>5 DEF KeepResponse
  <2>6. CASE Finish(p)
    <3>1. CASE Len(intents) = Len(results) + 1
      <4> DEFINE row == [trial |-> here[p].trial, retry |-> here[p].retry, kind |-> ResultKind(p),
                         valid |-> here[p].valid /\ pc[p] = "settled",
                         charge |-> UsageCharge(p)[1], unsettled |-> UsageCharge(p)[2]]
      <4>1. results' = Append(results, row) /\ Moves(p, "finished") /\ UNCHANGED <<intents, sent, billed, here>>
        BY <2>6, <3>1 DEF Finish
      <4>2. ResultKind(p) \in Kinds
        BY DEF ResultKind, Kinds
      <4>3. here[p].trial \in Nat /\ here[p].retry \in BOOLEAN /\ here[p].valid \in BOOLEAN
        BY <1>0 DEF Attempt
      <4>4. row \in Result
        BY <4>2, <4>3, UsageChargeType DEF Result
      <4>5. results' \in Seq(Result)
        BY <1>0, <4>1, <4>4
      <4>6. pc' \in [Procs -> Places]
        BY <1>2, <1>3, <4>1
      <4>7. QED
        BY <1>0, <4>1, <4>5, <4>6 DEF TypeOK
    <3>2. CASE Len(intents) # Len(results) + 1
      BY <1>1, <1>2, <1>3, <2>6, <3>2 DEF Finish, Stops
    <3>3. QED
      BY <3>1, <3>2
  <2>7. CASE AfterAttempt(p)
    BY <1>1, <1>2, <1>3, <2>7 DEF AfterAttempt, Stops, disk
  <2>8. QED
    BY <1>6, <2>1, <2>2, <2>3, <2>4, <2>5, <2>6, <2>7 DEF Work
<1>7. QED
  BY <1>4, <1>5, <1>6 DEF Next

(* The lock is with the one process that is not down.                      *)
LEMMA LockStep ==
  ASSUME TypeOK, LockOK, [Next]_vars
  PROVE  LockOK'
<1>0. pc \in [Procs -> Places]
  BY DEF TypeOK
<1>1. ASSUME UNCHANGED <<pc, lock>> PROVE LockOK'
  BY <1>1 DEF LockOK
<1>2. ASSUME NEW p \in Procs, NEW place, Moves(p, place), pc[p] # "down", UNCHANGED lock
      PROVE  LockOK'
  BY <1>0, <1>2 DEF LockOK, Moves
<1>3. ASSUME NEW p \in Procs, Stops(p), pc[p] # "down"
      PROVE  LockOK'
  <2>1. \A q \in Procs \ {p} : pc[q] = "down"
    BY <1>3 DEF LockOK
  <2>2. \A q \in Procs : pc'[q] = "down"
    BY <1>0, <1>3, <2>1 DEF Stops, Moves
  <2>3. QED
    BY <2>2 DEF LockOK
<1>4. CASE UNCHANGED vars
  BY <1>1, <1>4 DEF vars
<1>5. CASE Foreign
  BY <1>1, <1>5 DEF Foreign
<1>6. ASSUME NEW p \in Procs, Work(p) \/ ReserveFails(p) \/ SettleFails(p) \/ Dies(p)
      PROVE  LockOK'
  <2>1. CASE TakeLock(p)
    BY <1>0, <2>1 DEF TakeLock, Moves, LockOK
  <2>2. CASE OpenRefused(p) \/ Completes(p) \/ StopsForReview(p) \/ Rejected(p) \/ Dies(p)
    BY <1>3, <2>2 DEF OpenRefused, Completes, StopsForReview, Rejected, Dies
  <2>3. CASE \/ WriteManifest(p) \/ Resume(p) \/ Begin(p) \/ Reserve(p) \/ ReserveFails(p)
             \/ Settle(p) \/ SettleFails(p)
    BY <1>2, <2>3 DEF WriteManifest, Resume, Begin, Reserve, ReserveFails, Settle, SettleFails
  <2>4. CASE Send(p)
    <3>1. PICK place : Moves(p, place)
      BY <2>4 DEF Send
    <3>2. QED
      BY <1>2, <2>4, <3>1 DEF Send
  <2>5. CASE KeepResponse(p)
    BY <1>1, <2>5 DEF KeepResponse
  <2>6. CASE Finish(p)
    <3>1. pc[p] # "down"
      BY <2>6 DEF Finish, MayFinish
    <3>2. (Moves(p, "finished") /\ UNCHANGED lock) \/ Stops(p)
      BY <2>6 DEF Finish
    <3>3. QED
      BY <1>2, <1>3, <3>1, <3>2
  <2>7. CASE AfterAttempt(p)
    <3>1. (Moves(p, "ready") /\ UNCHANGED lock) \/ Stops(p)
      BY <2>7 DEF AfterAttempt
    <3>2. QED
      BY <1>2, <1>3, <2>7, <3>1 DEF AfterAttempt
  <2>8. QED
    BY <1>6, <2>1, <2>2, <2>3, <2>4, <2>5, <2>6, <2>7 DEF Work
<1>7. QED
  BY <1>4, <1>5, <1>6 DEF Next

(* Most steps write no row and send nothing, and bring no attempt under    *)
(* way; an answer that is settled had a full report before.                *)
Full(p) == pc[p] = "settled" \/ (pc[p] = "answered" /\ here[p].usage = "full")
Quietly ==
  /\ UNCHANGED <<intents, results, sent, billed, here>> /\ receipts \subseteq receipts'
  /\ \A p \in Procs :
       /\ pc'[p] \in Flying => pc[p] \in Flying
       /\ pc'[p] \in Unsent => pc[p] \in Unsent
       /\ Full(p)' => Full(p)

LEMMA QuietSteps ==
  ASSUME TypeOK, [Next]_vars
  PROVE  Quietly \/ \E p \in Procs : Begin(p) \/ Send(p) \/ (Finish(p) /\ Len(intents) = Len(results) + 1)
<1>0. pc \in [Procs -> Places]
  BY DEF TypeOK
<1>1. ASSUME UNCHANGED <<intents, results, sent, billed, here, pc>>, receipts \subseteq receipts'
      PROVE  Quietly
  BY <1>1 DEF Quietly, Full
<1>2. ASSUME NEW p \in Procs, NEW place, Moves(p, place), UNCHANGED <<intents, results, sent, billed, here, receipts>>,
             place \in Flying => pc[p] \in Flying, place \in Unsent => pc[p] \in Unsent,
             place = "settled" => Full(p), place # "answered"
      PROVE  Quietly
  <2>1. \A q \in Procs : pc'[q] = IF q = p THEN place ELSE pc[q]
    BY <1>0, <1>2 DEF Moves
  <2>2. QED
    BY <1>2, <2>1 DEF Quietly, Full
<1>3. ASSUME NEW p \in Procs, Stops(p), UNCHANGED <<intents, results, sent, billed, here, receipts>>
      PROVE  Quietly
  BY <1>2, <1>3 DEF Stops, Flying, Unsent
<1>4. CASE UNCHANGED vars
  BY <1>1, <1>4 DEF vars, disk
<1>5. CASE Foreign
  BY <1>1, <1>5 DEF Foreign, disk
<1>6. ASSUME NEW p \in Procs, Work(p) \/ ReserveFails(p) \/ SettleFails(p) \/ Dies(p)
      PROVE  Quietly \/ Begin(p) \/ Send(p) \/ (Finish(p) /\ Len(intents) = Len(results) + 1)
  <2>1. CASE OpenRefused(p) \/ Completes(p) \/ StopsForReview(p) \/ Rejected(p) \/ Dies(p)
    BY <1>3, <2>1 DEF OpenRefused, Completes, StopsForReview, Rejected, Dies, disk
  <2>2. CASE TakeLock(p) \/ WriteManifest(p) \/ Resume(p)
    BY <1>2, <2>2 DEF TakeLock, WriteManifest, Resume, disk, Flying, Unsent
  <2>3. CASE Reserve(p) \/ ReserveFails(p) \/ SettleFails(p)
    BY <1>2, <2>3 DEF Reserve, ReserveFails, SettleFails, disk, Flying, Unsent
  <2>4. CASE Settle(p)
    BY <1>2, <2>4 DEF Settle, disk, Flying, Unsent, Full
  <2>5. CASE KeepResponse(p)
    BY <1>1, <2>5 DEF KeepResponse
  <2>6. CASE Finish(p) /\ Len(intents) # Len(results) + 1
    BY <1>3, <2>6 DEF Finish
  <2>7. CASE AfterAttempt(p)
    <3>1. Moves(p, "ready") \/ Stops(p)
      BY <2>7 DEF AfterAttempt
    <3>2. QED
      BY <1>2, <1>3, <2>7, <3>1 DEF AfterAttempt, disk, Flying, Unsent
  <2>8. QED
    BY <1>6, <2>1, <2>2, <2>3, <2>4, <2>5, <2>6, <2>7 DEF Work
<1>7. QED
  BY <1>4, <1>5, <1>6 DEF Next

(* While one process works on an attempt, no other does.                   *)
LEMMA OneWorks ==
  ASSUME LockOK, NEW p \in Procs, NEW q \in Procs, pc[p] # "down", pc[q] # "down"
  PROVE  p = q
BY DEF LockOK

(* An attempt begins when every earlier one was answered and settled.      *)
LEMMA BeginDoes ==
  ASSUME IInv, NEW p \in Procs, Begin(p)
  PROVE  /\ intents' = Append(intents, [trial |-> NextAttempt.trial, retry |-> NextAttempt.retry])
         /\ UNCHANGED <<results, sent, billed, receipts>>
         /\ Len(intents) = Len(results) /\ \A i \in DOMAIN results : Clean(results[i])
         /\ pc'[p] = "intended" /\ here'[p] = NextAttempt
         /\ \A q \in Procs \ {p} : pc'[q] = "down"
<1>1. pc \in [Procs -> Places] /\ here \in [Procs -> Attempt] /\ results \in Seq(Result)
  BY DEF IInv, TypeOK
<1>2. Len(intents) = Len(results) /\ ~NeedsReview /\ pc[p] = "ready"
  BY DEF Begin, MayGoOn, Verified
<1>3. \A q \in Procs \ {p} : pc[q] = "down"
  BY <1>2, OneWorks DEF IInv
<1>4. pc'[p] = "intended" /\ here'[p] = NextAttempt /\ \A q \in Procs \ {p} : pc'[q] = "down"
  BY <1>1, <1>3 DEF Begin, Moves
<1>5. ASSUME NEW i \in DOMAIN results PROVE Clean(results[i])
  <2>1. CASE i < Len(results)
    BY <1>2, <2>1 DEF IInv, CleanOK
  <2>2. CASE i = Len(results)
    <3>1. results # << >>
      BY <1>1
    <3>2. QED
      BY <1>2, <2>2, <3>1 DEF NeedsReview, Last, Clean
  <2>3. QED
    BY <1>1, <2>1, <2>2
<1>6. QED
  BY <1>2, <1>4, <1>5 DEF Begin

(* A request is sent for the last row of the intents.                      *)
LEMMA SendDoes ==
  ASSUME IInv, NEW p \in Procs, Send(p)
  PROVE  /\ Len(intents) = Len(results) + 1 /\ Same(here[p], intents[Len(intents)])
         /\ sent' = Append(sent, [ordinal |-> Len(intents), trial |-> here[p].trial, retry |-> here[p].retry])
         /\ UNCHANGED <<intents, results, receipts>>
         /\ \A i \in DOMAIN sent : sent[i].ordinal < Len(intents)
         /\ pc'[p] \in {"answered", "transport failed"} /\ Same(here'[p], here[p])
         /\ \A q \in Procs \ {p} : pc'[q] = "down"
         /\ \E u \in Usages : billed' = billed + Charge(u) /\ here'[p].usage = u
<1>1. pc \in [Procs -> Places] /\ here \in [Procs -> Attempt]
  BY DEF IInv, TypeOK
<1>2. pc[p] = "reserved" /\ UNCHANGED <<intents, results, receipts>>
      /\ sent' = Append(sent, [ordinal |-> Len(intents), trial |-> here[p].trial, retry |-> here[p].retry])
  BY DEF Send, disk
<1>3. PICK u \in Usages, v \in BOOLEAN, answered \in BOOLEAN :
        /\ billed' = billed + Charge(u)
        /\ here' = [here EXCEPT ![p].usage = u, ![p].valid = v]
        /\ Moves(p, IF answered THEN "answered" ELSE "transport failed")
  BY DEF Send
<1>4. \A q \in Procs \ {p} : pc[q] = "down"
  BY <1>2, OneWorks DEF IInv
<1>5. pc'[p] \in {"answered", "transport failed"} /\ \A q \in Procs \ {p} : pc'[q] = "down"
  BY <1>1, <1>3, <1>4 DEF Moves
<1>6. here'[p] = [here[p] EXCEPT !.usage = u, !.valid = v]
  BY <1>1, <1>3
<1>7. Same(here'[p], here[p]) /\ here'[p].usage = u
  BY <1>1, <1>6 DEF Attempt, Same
<1>8. Len(intents) = Len(results) + 1 /\ Same(here[p], intents[Len(intents)])
  BY <1>2 DEF IInv, PairsOK, Flying
<1>9. \A i \in DOMAIN sent : sent[i].ordinal < Len(intents)
  BY <1>2 DEF IInv, SentOK, Unsent
<1>10. QED
  BY <1>2, <1>3, <1>5, <1>7, <1>8, <1>9

(* A result closes the attempt that is under way.                          *)
LEMMA FinishDoes ==
  ASSUME IInv, NEW p \in Procs, Finish(p), Len(intents) = Len(results) + 1
  PROVE  /\ UNCHANGED <<intents, sent, billed, receipts, here>>
         /\ MayFinish(p) /\ Same(here[p], intents[Len(intents)])
         /\ \A q \in Procs : pc'[q] \notin Flying
         /\ \E row \in Result : results' = Append(results, row) /\ Same(row, here[p]) /\ row.kind = ResultKind(p)
<1>1. pc \in [Procs -> Places] /\ here \in [Procs -> Attempt]
  BY DEF IInv, TypeOK
<1> DEFINE row == [trial |-> here[p].trial, retry |-> here[p].retry, kind |-> ResultKind(p),
                   valid |-> here[p].valid /\ pc[p] = "settled",
                   charge |-> UsageCharge(p)[1], unsettled |-> UsageCharge(p)[2]]
<1>2. results' = Append(results, row) /\ Moves(p, "finished") /\ MayFinish(p)
      /\ UNCHANGED <<intents, sent, billed, receipts, here>>
  BY DEF Finish
<1>3. row \in Result
  <2>1. ResultKind(p) \in Kinds
    BY DEF ResultKind, Kinds
  <2>2. here[p].trial \in Nat /\ here[p].retry \in BOOLEAN /\ here[p].valid \in BOOLEAN
    BY <1>1 DEF Attempt
  <2>3. UsageCharge(p)[1] \in Nat /\ UsageCharge(p)[2] \in Nat
    BY UsageChargeType DEF IInv
  <2>4. QED
    BY <2>1, <2>2, <2>3 DEF Result
<1>4. Same(row, here[p]) /\ row.kind = ResultKind(p)
  BY DEF Same
<1>5. pc[p] \in Flying
  BY <1>2 DEF MayFinish, Flying
<1>6. \A q \in Procs \ {p} : pc[q] = "down"
  BY <1>5, OneWorks DEF IInv, Flying
<1>7. \A q \in Procs : pc'[q] \notin Flying
  BY <1>1, <1>2, <1>6 DEF Moves, Flying
<1>8. Same(here[p], intents[Len(intents)])
  BY <1>5 DEF IInv, PairsOK
<1>9. QED
  BY <1>2, <1>3, <1>4, <1>7, <1>8

-----------------------------------------------------------------------------
(***************************************************************************)
(* The invariant, part by part.                                            *)
(***************************************************************************)

(* The journals pair up.                                                   *)
LEMMA PairsStep ==
  ASSUME IInv, [Next]_vars
  PROVE  PairsOK'
<1>0. intents \in Seq(Intent) /\ results \in Seq(Result)
  BY DEF IInv, TypeOK
<1>1. CASE Quietly
  BY <1>1 DEF Quietly, IInv, PairsOK, Same
<1>2. ASSUME NEW p \in Procs, Begin(p) PROVE PairsOK'
  <2> DEFINE new == [trial |-> NextAttempt.trial, retry |-> NextAttempt.retry]
  <2>1. new \in Intent
    BY NextAttemptType DEF IInv, Attempt, Intent
  <2>2. /\ intents' = Append(intents, new) /\ results' = results /\ Len(intents) = Len(results)
        /\ pc'[p] = "intended" /\ here'[p] = NextAttempt
        /\ \A q \in Procs \ {p} : pc'[q] = "down"
    BY <1>2, BeginDoes
  <2>3. /\ Len(intents') = Len(intents) + 1 /\ intents'[Len(intents')] = new
        /\ \A i \in DOMAIN intents : intents'[i] = intents[i]
    BY <1>0, <2>1, <2>2
  <2>4. \A i \in DOMAIN results' : Same(results'[i], intents'[i])
    BY <1>0, <2>2, <2>3 DEF IInv, PairsOK
  <2>5. \A q \in Procs : pc'[q] \in Flying =>
          Len(intents') = Len(results') + 1 /\ Same(here'[q], intents'[Len(intents')])
    <3>1. Same(NextAttempt, new)
      BY DEF Same
    <3>2. Len(intents') = Len(results') + 1 /\ Same(here'[p], intents'[Len(intents')])
      BY <2>2, <2>3, <3>1
    <3>3. \A q \in Procs \ {p} : pc'[q] \notin Flying
      BY <2>2 DEF Flying
    <3>4. QED
      BY <3>2, <3>3
  <2>6. Len(intents') = Len(results') + 1
    BY <2>2, <2>3
  <2>7. QED
    BY <2>4, <2>5, <2>6 DEF PairsOK, Same
<1>3. ASSUME NEW p \in Procs, Send(p) PROVE PairsOK'
  <2>1. /\ intents' = intents /\ results' = results
        /\ Len(intents) = Len(results) + 1 /\ Same(here'[p], intents[Len(intents)])
        /\ \A q \in Procs \ {p} : pc'[q] = "down"
    BY <1>3, SendDoes DEF Same
  <2>2. QED
    BY <2>1 DEF IInv, PairsOK, Same, Flying
<1>4. ASSUME NEW p \in Procs, Finish(p), Len(intents) = Len(results) + 1 PROVE PairsOK'
  <2>1. PICK row \in Result : results' = Append(results, row) /\ Same(row, here[p])
    BY <1>4, FinishDoes
  <2>2. /\ intents' = intents /\ Same(here[p], intents[Len(intents)]) /\ \A q \in Procs : pc'[q] \notin Flying
    BY <1>4, FinishDoes
  <2>3. /\ Len(results') = Len(results) + 1 /\ results'[Len(results')] = row
        /\ \A i \in DOMAIN results : results'[i] = results[i]
        /\ DOMAIN results' = DOMAIN results \cup {Len(results) + 1}
    BY <1>0, <2>1
  <2>4. Same(row, intents[Len(results) + 1])
    BY <1>4, <2>1, <2>2 DEF Same
  <2>5. \A i \in DOMAIN results' : Same(results'[i], intents'[i])
    BY <2>2, <2>3, <2>4 DEF IInv, PairsOK
  <2>6. QED
    BY <1>4, <2>2, <2>3, <2>5 DEF PairsOK, Same
<1>5. QED
  BY <1>1, <1>2, <1>3, <1>4, QuietSteps DEF IInv

(* The attempts follow the list.                                           *)
LEMMA OrderStep ==
  ASSUME IInv, [Next]_vars
  PROVE  OrderOK'
<1>0. intents \in Seq(Intent) /\ results \in Seq(Result)
  BY DEF IInv, TypeOK
<1>1. ASSUME UNCHANGED intents PROVE OrderOK'
  BY <1>1 DEF IInv, OrderOK, Follows, Retries, Primaries
<1>2. ASSUME NEW p \in Procs, Begin(p) PROVE OrderOK'
  <2> DEFINE new == [trial |-> NextAttempt.trial, retry |-> NextAttempt.retry]
  <2> DEFINE n == Len(intents)
  <2>1. new \in Intent /\ new.trial \in Nat /\ new.retry \in BOOLEAN
    BY NextAttemptType DEF IInv, Attempt, Intent
  <2>2. intents' = Append(intents, new) /\ Len(intents) = Len(results)
    BY <1>2, BeginDoes
  <2>3. /\ Len(intents') = n + 1 /\ intents'[n + 1] = new /\ n \in Nat
        /\ DOMAIN intents' = 1..(n + 1)
        /\ \A i \in 1..n : intents'[i] = intents[i]
    BY <1>0, <2>1, <2>2
  <2>4. Retries(intents) \in Nat /\ Retries(intents) <= n
    BY <1>0, RetriesType, Zenon
  <2>5. \A i \in 1..n : intents[i].trial \in Nat /\ intents[i].retry \in BOOLEAN
    <3>1. \A i \in 1..n : intents[i] \in Intent
      BY <1>0
    <3>2. QED
      BY <3>1 DEF Intent
  <2>6. ASSUME \A i \in 1..n : Follows(intents[i], new)
        PROVE  \A i, j \in DOMAIN intents' : i < j => Follows(intents'[i], intents'[j])
    <3>1. \A i, j \in 1..n : i < j => Follows(intents[i], intents[j])
      BY <1>0 DEF IInv, OrderOK
    <3>2. SUFFICES ASSUME NEW i \in 1..(n + 1), NEW j \in 1..(n + 1), i < j
                   PROVE  Follows(intents'[i], intents'[j])
      BY <2>3
    <3>3. i \in 1..n /\ (j \in 1..n \/ j = n + 1)
      BY <2>3, <3>2
    <3>4. QED
      BY <2>3, <2>6, <3>1, <3>2, <3>3
  <2>7. CASE RetryDue
    <3>1. /\ results # << >> /\ ~results[n].retry /\ Retries(intents) < MaxRetries
          /\ new = [trial |-> results[n].trial, retry |-> TRUE]
      BY <2>2, <2>7 DEF RetryDue, NextAttempt, Last, NoAttempt
    <3>2. n \in 1..n /\ n \in DOMAIN results
      BY <1>0, <2>2, <3>1
    <3>3. Same(results[n], intents[n])
      BY <3>2 DEF IInv, PairsOK
    <3>4. new.trial = intents[n].trial /\ new.retry /\ ~intents[n].retry
      BY <3>1, <3>3 DEF Same
    <3>5. ASSUME NEW i \in 1..n PROVE Follows(intents[i], new)
      <4>1. CASE i = n
        BY <3>4, <4>1 DEF Follows
      <4>2. CASE i < n
        <5>1. Follows(intents[i], intents[n])
          BY <1>0, <3>2, <4>2 DEF IInv, OrderOK
        <5>2. QED
          BY <3>4, <5>1 DEF Follows
      <4>3. QED
        BY <2>3, <4>1, <4>2
    <3>6. Retries(intents') = Retries(intents) + 1
      BY <1>0, <2>1, <2>2, <3>4, RetriesAppend
    <3>7. Retries(intents') <= MaxRetries
      BY <2>4, <3>1, <3>6, ProbeAssumption
    <3>8. intents[n].trial = Primaries(intents)
      BY <2>2, <3>1, <3>2 DEF IInv, OrderOK
    <3>9. new.trial = Primaries(intents')
      BY <2>3, <2>4, <3>4, <3>6, <3>8 DEF Primaries
    <3>10. QED
      BY <2>3, <2>6, <3>5, <3>7, <3>9 DEF OrderOK
  <2>8. CASE ~RetryDue
    <3>1. new = [trial |-> Primaries(intents) + 1, retry |-> FALSE]
      BY <2>8 DEF NextAttempt, NoAttempt
    <3>2. Primaries(intents) \in Nat
      BY <2>3, <2>4 DEF Primaries
    <3>3. ASSUME NEW i \in 1..n PROVE Follows(intents[i], new)
      <4>1. n \in 1..n /\ intents # << >>
        BY <1>0, <2>3, <3>3
      <4>2. intents[n].trial = Primaries(intents)
        BY <4>1 DEF IInv, OrderOK
      <4>3. CASE i = n
        BY <3>1, <3>2, <4>2, <4>3 DEF Follows
      <4>4. CASE i < n
        <5>1. Follows(intents[i], intents[n])
          BY <1>0, <4>1, <4>4 DEF IInv, OrderOK
        <5>2. QED
          BY <2>5, <3>1, <3>2, <4>1, <4>2, <5>1 DEF Follows
      <4>5. QED
        BY <2>3, <4>3, <4>4
    <3>4. Retries(intents') = Retries(intents)
      BY <1>0, <2>1, <2>2, <3>1, RetriesAppend
    <3>5. Retries(intents') <= MaxRetries
      BY <3>4 DEF IInv, OrderOK
    <3>6. new.trial = Primaries(intents')
      BY <2>3, <2>4, <3>1, <3>4 DEF Primaries
    <3>7. QED
      BY <2>3, <2>6, <3>3, <3>5, <3>6 DEF OrderOK
  <2>9. QED
    BY <2>7, <2>8
<1>3. CASE Quietly
  BY <1>1, <1>3 DEF Quietly
<1>4. ASSUME NEW p \in Procs, Send(p) \/ (Finish(p) /\ Len(intents) = Len(results) + 1) PROVE OrderOK'
  BY <1>1, <1>4, SendDoes, FinishDoes
<1>5. QED
  BY <1>2, <1>3, <1>4, QuietSteps DEF IInv

(* What was sent is what was written down.                                 *)
LEMMA SentStep ==
  ASSUME IInv, [Next]_vars
  PROVE  SentOK'
<1>0. intents \in Seq(Intent) /\ sent \in Seq(Dispatch)
  BY DEF IInv, TypeOK
<1>1. CASE Quietly
  BY <1>1 DEF Quietly, IInv, SentOK, Same
<1>2. ASSUME NEW p \in Procs, Begin(p) PROVE SentOK'
  <2> DEFINE new == [trial |-> NextAttempt.trial, retry |-> NextAttempt.retry]
  <2>1. new \in Intent
    BY NextAttemptType DEF IInv, Attempt, Intent
  <2>2. intents' = Append(intents, new) /\ sent' = sent
    BY <1>2, BeginDoes
  <2>3. /\ Len(intents') = Len(intents) + 1 /\ Len(intents) \in Nat
        /\ DOMAIN intents = 1..Len(intents) /\ DOMAIN intents' = 1..(Len(intents) + 1)
        /\ \A i \in DOMAIN intents : intents'[i] = intents[i]
    BY <1>0, <2>1, <2>2
  <2>4. \A i \in DOMAIN sent : sent[i].ordinal \in DOMAIN intents /\ Same(sent[i], intents[sent[i].ordinal])
    BY DEF IInv, SentOK
  <2>5. \A i \in DOMAIN sent : /\ sent[i].ordinal \in DOMAIN intents' /\ sent[i].ordinal < Len(intents')
                               /\ Same(sent[i], intents'[sent[i].ordinal])
    BY <2>3, <2>4
  <2>6. QED
    BY <2>2, <2>5 DEF IInv, SentOK, Same
<1>3. ASSUME NEW p \in Procs, Send(p) PROVE SentOK'
  <2> DEFINE row == [ordinal |-> Len(intents), trial |-> here[p].trial, retry |-> here[p].retry]
  <2>1. /\ sent' = Append(sent, row) /\ intents' = intents /\ Same(here[p], intents[Len(intents)])
        /\ Len(intents) = Len(results) + 1
        /\ \A i \in DOMAIN sent : sent[i].ordinal < Len(intents)
        /\ pc'[p] \in {"answered", "transport failed"} /\ \A q \in Procs \ {p} : pc'[q] = "down"
    BY <1>3, SendDoes
  <2>2. row \in Dispatch
    <3>1. here[p] \in Attempt
      BY DEF IInv, TypeOK
    <3>2. Len(intents) \in Nat
      BY <1>0
    <3>3. QED
      BY <3>1, <3>2 DEF Attempt, Dispatch
  <2>3. row.ordinal = Len(intents) /\ Same(row, here[p])
    BY DEF Same
  <2>4. sent' = Append(sent, row)
    BY <2>1
  <2> HIDE DEF row
  <2>5. /\ Len(sent) \in Nat /\ DOMAIN sent = 1..Len(sent) /\ DOMAIN sent' = 1..(Len(sent) + 1)
        /\ sent'[Len(sent) + 1] = row /\ \A i \in 1..Len(sent) : sent'[i] = sent[i]
    BY <1>0, <2>2, <2>4
  <2>6. Len(intents) \in DOMAIN intents /\ Same(row, intents[Len(intents)])
    <3>1. Len(results) \in Nat
      BY DEF IInv, TypeOK
    <3>2. Len(intents) = Len(results) + 1
      BY <2>1
    <3>3. Len(intents) \in DOMAIN intents
      BY <1>0, <3>1, <3>2
    <3>4. QED
      BY <2>1, <2>3, <3>3 DEF Same
  <2>7. ASSUME NEW i \in DOMAIN sent'
        PROVE  sent'[i].ordinal \in DOMAIN intents /\ Same(sent'[i], intents[sent'[i].ordinal])
    <3>1. CASE i \in 1..Len(sent)
      BY <2>5, <3>1 DEF IInv, SentOK
    <3>2. CASE i = Len(sent) + 1
      BY <2>5, <2>6, <2>3, <3>2
    <3>3. QED
      BY <2>5, <3>1, <3>2
  <2>8. ASSUME NEW i \in DOMAIN sent', NEW j \in DOMAIN sent', i < j
        PROVE  sent'[i].ordinal < sent'[j].ordinal
    <3>1. i \in 1..Len(sent) /\ (j \in 1..Len(sent) \/ j = Len(sent) + 1)
      BY <2>5, <2>8
    <3>2. CASE j \in 1..Len(sent)
      BY <2>5, <2>8, <3>1, <3>2 DEF IInv, SentOK
    <3>3. CASE j = Len(sent) + 1
      BY <2>1, <2>5, <2>3, <3>1, <3>3
    <3>4. QED
      BY <3>1, <3>2, <3>3
  <2>9. \A q \in Procs : pc'[q] \notin Unsent
    BY <2>1 DEF Unsent
  <2>10. QED
    BY <2>1, <2>7, <2>8, <2>9 DEF SentOK, Same
<1>4. ASSUME NEW p \in Procs, Finish(p), Len(intents) = Len(results) + 1 PROVE SentOK'
  <2>1. UNCHANGED <<intents, sent>> /\ \A q \in Procs : pc'[q] \notin Flying
    BY <1>4, FinishDoes
  <2>2. \A q \in Procs : pc'[q] \notin Unsent
    BY <2>1 DEF Flying, Unsent
  <2>3. QED
    BY <2>1, <2>2 DEF IInv, SentOK, Same
<1>5. QED
  BY <1>1, <1>2, <1>3, <1>4, QuietSteps DEF IInv

(* Nothing follows a doubtful result.                                      *)
LEMMA CleanStep ==
  ASSUME IInv, [Next]_vars
  PROVE  CleanOK'
<1>0. intents \in Seq(Intent) /\ results \in Seq(Result)
  BY DEF IInv, TypeOK
<1>1. ASSUME UNCHANGED <<intents, results>> PROVE CleanOK'
  BY <1>1 DEF IInv, CleanOK, Clean
<1>2. CASE Quietly
  BY <1>1, <1>2 DEF Quietly
<1>3. ASSUME NEW p \in Procs, Begin(p) PROVE CleanOK'
  BY <1>3, BeginDoes DEF CleanOK, Clean
<1>4. ASSUME NEW p \in Procs, Send(p) PROVE CleanOK'
  BY <1>1, <1>4, SendDoes
<1>5. ASSUME NEW p \in Procs, Finish(p), Len(intents) = Len(results) + 1 PROVE CleanOK'
  <2>1. PICK row \in Result : results' = Append(results, row)
    BY <1>5, FinishDoes
  <2>2. intents' = intents
    BY <1>5, FinishDoes
  <2>3. \A i \in DOMAIN results' : i < Len(intents') => i \in DOMAIN results /\ results'[i] = results[i]
    BY <1>0, <1>5, <2>1, <2>2
  <2>4. QED
    BY <2>2, <2>3 DEF IInv, CleanOK, Clean
<1>6. QED
  BY <1>2, <1>3, <1>4, <1>5, QuietSteps DEF IInv

(* The bill is within what was reserved, up to one answer.                 *)
LEMMA BilledStep ==
  ASSUME IInv, [Next]_vars
  PROVE  BilledOK'
<1>0. intents \in Seq(Intent) /\ results \in Seq(Result) /\ billed \in Nat
  BY DEF IInv, TypeOK
<1>1. CASE Quietly
  BY <1>1 DEF Quietly, Full, IInv, BilledOK
<1>2. ASSUME NEW p \in Procs, Begin(p) PROVE BilledOK'
  <2>1. /\ results' = results /\ billed' = billed /\ Len(intents) = Len(results)
        /\ \A i \in DOMAIN results : Clean(results[i])
        /\ pc'[p] = "intended" /\ \A q \in Procs \ {p} : pc'[q] = "down"
    BY <1>2, BeginDoes
  <2>2. Len(intents') = Len(intents) + 1 /\ Len(intents) \in Nat
    BY <1>0, <1>2, BeginDoes, NextAttemptType DEF IInv, Attempt, Intent
  <2>3. billed <= Reservation * Len(intents)
    BY <2>1 DEF IInv, BilledOK, Clean
  <2>4. billed + Reservation <= Reservation * Len(intents') /\ Len(intents') # Len(results')
    BY <1>0, <2>1, <2>2, <2>3 DEF Reservation
  <2>5. billed <= Reservation * Len(intents') + 1 /\ billed <= Reservation * Len(intents')
    BY <1>0, <2>2, <2>4 DEF Reservation
  <2>6. QED
    BY <2>1, <2>4, <2>5 DEF BilledOK, Unsent
<1>3. ASSUME NEW p \in Procs, Send(p) PROVE BilledOK'
  <2>1. /\ intents' = intents /\ results' = results /\ Len(intents) = Len(results) + 1
        /\ pc'[p] \in {"answered", "transport failed"} /\ \A q \in Procs \ {p} : pc'[q] = "down"
    BY <1>3, SendDoes
  <2>2. PICK u \in Usages : billed' = billed + Charge(u) /\ here'[p].usage = u
    BY <1>3, SendDoes
  <2>3. billed + Reservation <= Reservation * Len(intents)
    BY <1>3 DEF Send, IInv, BilledOK, Unsent
  <2>4. Charge(u) \in Nat /\ Charge(u) <= Reservation + 1 /\ (u = "full" => Charge(u) <= Reservation)
    BY ChargeType
  <2>5. Len(intents) \in Nat /\ Len(results) \in Nat
    BY <1>0
  <2>6. billed' <= Reservation * Len(intents') + 1 /\ (u = "full" => billed' <= Reservation * Len(intents'))
    <3>1. billed' = billed + Charge(u) /\ Len(intents') = Len(intents) /\ billed \in Nat
      BY <1>0, <2>1, <2>2, Zenon
    <3>2. QED
      BY <2>3, <2>4, <2>5, <3>1 DEF Reservation
  <2>7. Len(intents') # Len(results')
    <3>1. Len(intents') = Len(results) + 1 /\ Len(results') = Len(results)
      BY <2>1, Zenon
    <3>2. QED
      BY <2>5, <3>1
  <2>8. QED
    BY <2>1, <2>2, <2>6, <2>7 DEF BilledOK, Unsent
<1>4. ASSUME NEW p \in Procs, Finish(p), Len(intents) = Len(results) + 1 PROVE BilledOK'
  <2>1. PICK row \in Result : results' = Append(results, row) /\ row.kind = ResultKind(p)
    BY <1>4, FinishDoes
  <2>2. /\ UNCHANGED <<intents, billed, here>> /\ MayFinish(p) /\ \A q \in Procs : pc'[q] \notin Flying
    BY <1>4, FinishDoes
  <2>3. Len(results) + 1 \in DOMAIN results' /\ results'[Len(results) + 1] = row
    BY <1>0, <2>1
  <2>4. CASE row.kind = "provider_response"
    <3>1. pc[p] = "settled"
      BY <2>1, <2>2, <2>4 DEF ResultKind, MayFinish
    <3>2. billed' <= Reservation * Len(intents')
      BY <2>2, <3>1 DEF IInv, BilledOK
    <3>3. QED
      BY <2>2, <3>2 DEF IInv, BilledOK, Flying, Unsent
  <2>5. CASE row.kind # "provider_response"
    BY <2>2, <2>3, <2>5 DEF IInv, BilledOK, Flying, Unsent
  <2>6. QED
    BY <2>4, <2>5
<1>5. QED
  BY <1>1, <1>2, <1>3, <1>4, QuietSteps DEF IInv

(* Responses are kept before their attempt is closed.                      *)
LEMMA ReceiptsStep ==
  ASSUME IInv, [Next]_vars
  PROVE  ReceiptsOK'
<1>0. intents \in Seq(Intent) /\ results \in Seq(Result)
  BY DEF IInv, TypeOK
<1>1. ASSUME results' = results, receipts \subseteq receipts' PROVE ReceiptsOK'
  BY <1>1 DEF IInv, ReceiptsOK
<1>2. CASE Quietly
  BY <1>1, <1>2 DEF Quietly
<1>3. ASSUME NEW p \in Procs, Begin(p) \/ Send(p) PROVE ReceiptsOK'
  BY <1>1, <1>3, BeginDoes, SendDoes
<1>4. ASSUME NEW p \in Procs, Finish(p), Len(intents) = Len(results) + 1 PROVE ReceiptsOK'
  <2>1. PICK row \in Result : results' = Append(results, row) /\ row.kind = ResultKind(p)
    BY <1>4, FinishDoes
  <2>2. receipts' = receipts /\ MayFinish(p)
    BY <1>4, FinishDoes
  <2>3. /\ Len(results) \in Nat /\ DOMAIN results = 1..Len(results) /\ DOMAIN results' = 1..(Len(results) + 1)
        /\ results'[Len(results) + 1] = row /\ \A i \in 1..Len(results) : results'[i] = results[i]
    BY <1>0, <2>1
  <2>4. row.kind # "transport_error" => Len(results) + 1 \in receipts
    BY <1>4, <2>1, <2>2 DEF ResultKind, MayFinish
  <2>5. ASSUME NEW i \in DOMAIN results', results'[i].kind # "transport_error" PROVE i \in receipts
    BY <2>3, <2>4, <2>5 DEF IInv, ReceiptsOK
  <2>6. QED
    BY <2>2, <2>5 DEF ReceiptsOK
<1>5. QED
  BY <1>2, <1>3, <1>4, QuietSteps DEF IInv

-----------------------------------------------------------------------------
(***************************************************************************)
(* The theorems.                                                           *)
(***************************************************************************)

(* A session that has not begun is sound.                                  *)
LEMMA InitIsSound == Init => IInv
<1> SUFFICES ASSUME Init PROVE IInv
  OBVIOUS
<1>1. TypeOK
  <2>1. NoAttempt \in Attempt
    BY DEF NoAttempt, Attempt, Usages
  <2>2. "down" \in Places
    BY DEF Places
  <2>3. QED
    BY <2>1, <2>2 DEF Init, TypeOK
<1>2. \A p \in Procs : pc[p] = "down"
  BY DEF Init
<1>3. Retries(intents) = 0
  <2>1. {i \in DOMAIN intents : intents[i].retry} = {}
    BY DEF Init
  <2>2. QED
    BY <2>1, FS_EmptySet DEF Retries
<1>4. intents = << >> /\ results = << >> /\ sent = << >> /\ billed = 0
  BY DEF Init
<1>5. LockOK /\ PairsOK /\ SentOK /\ CleanOK /\ ReceiptsOK
  <2>1. LockOK /\ SentOK /\ CleanOK /\ ReceiptsOK
    BY <1>2, <1>4 DEF LockOK, SentOK, CleanOK, ReceiptsOK, Unsent
  <2>2. PairsOK
    <3>1. Len(intents) = Len(results) /\ DOMAIN results = {}
      BY <1>4
    <3>2. QED
      BY <1>2, <3>1 DEF PairsOK, Flying
  <2>3. QED
    BY <2>1, <2>2
<1>6. OrderOK
  BY <1>3, <1>4, ProbeAssumption DEF OrderOK
<1>7. BilledOK
  BY <1>2, <1>4 DEF BilledOK, Unsent, Reservation
<1>8. QED
  BY <1>1, <1>5, <1>6, <1>7 DEF IInv

(* The invariant of the experiment: one process at a time, attempts in the *)
(* order of the list, each written down before it is sent, and none after  *)
(* a doubtful one.                                                         *)
THEOREM Invariance == Spec => []IInv
<1>1. IInv /\ [Next]_vars => IInv'
  BY TypeStep, LockStep, PairsStep, OrderStep, SentStep, CleanStep, BilledStep, ReceiptsStep DEF IInv
<1>2. QED
  BY <1>1, InitIsSound, PTL DEF Spec

(* However often the session is killed and started again, no request of    *)
(* the list is sent twice, and retries are within their number.            *)
THEOREM SendsOnce == Spec => []SentOnce
<1>1. IInv => SentOnce
  <2> SUFFICES ASSUME IInv PROVE SentOnce
    OBVIOUS
  <2>0. intents \in Seq(Intent) /\ sent \in Seq(Dispatch)
    BY DEF IInv, TypeOK
  <2>1. Retries(sent) <= MaxRetries
    <3>1. Retries(sent) \in Nat /\ Retries(intents) \in Nat
      BY <2>0, RetriesType, Zenon
    <3>2. Retries(sent) <= Retries(intents) /\ Retries(intents) <= MaxRetries
      BY RetriesOfOthers DEF IInv, OrderOK
    <3>3. QED
      BY <3>1, <3>2, ProbeAssumption
  <2>2. ASSUME NEW i \in DOMAIN sent, NEW j \in DOMAIN sent, i < j
        PROVE  /\ sent[i].ordinal < sent[j].ordinal
               /\ <<sent[i].trial, sent[i].retry>> # <<sent[j].trial, sent[j].retry>>
               /\ sent[i].trial <= sent[j].trial
    <3> DEFINE a == sent[i].ordinal
    <3> DEFINE b == sent[j].ordinal
    <3>1. a \in DOMAIN intents /\ b \in DOMAIN intents /\ a < b
      BY <2>2 DEF IInv, SentOK
    <3>2. Follows(intents[a], intents[b])
      BY <3>1 DEF IInv, OrderOK
    <3>3. Same(sent[i], intents[a]) /\ Same(sent[j], intents[b])
      BY DEF IInv, SentOK
    <3>4. sent[i] \in Dispatch /\ sent[j] \in Dispatch
      BY <2>0
    <3>5. sent[i].trial \in Nat /\ sent[j].trial \in Nat
      BY <3>4 DEF Dispatch
    <3>6. sent[i].trial < sent[j].trial \/ (sent[i].trial = sent[j].trial /\ ~sent[i].retry /\ sent[j].retry)
      BY <3>2, <3>3 DEF Follows, Same
    <3>7. QED
      BY <3>1, <3>5, <3>6
  <2>3. QED
    BY <2>1, <2>2 DEF SentOnce
<1>2. QED
  BY <1>1, Invariance, PTL

(* The bill is covered by what was reserved up to one answer, and what was *)
(* paid for is on disk before its attempt is closed.                       *)
THEOREM KeepsWhatIsPaid == Spec => []PaidIsKept
<1>1. IInv => PaidIsKept
  BY DEF IInv, BilledOK, ReceiptsOK, PaidIsKept
<1>2. QED
  BY <1>1, Invariance, PTL

(* No request goes past one whose outcome is not known or not settled.     *)
THEOREM DoubtStops == Spec => StopsAtDoubt
<1> DEFINE Careful == sent' # sent =>
       /\ \A i \in DOMAIN sent : sent[i].ordinal \in DOMAIN results
       /\ \A i \in DOMAIN results : results[i].kind = "provider_response" /\ results[i].unsettled = 0
<1>1. IInv /\ [Next]_vars => Careful
  <2> SUFFICES ASSUME IInv, [Next]_vars, sent' # sent PROVE Careful
    OBVIOUS
  <2>1. PICK p \in Procs : Send(p)
    BY QuietSteps, BeginDoes, FinishDoes DEF IInv, Quietly
  <2>2. Len(intents) = Len(results) + 1 /\ \A i \in DOMAIN sent : sent[i].ordinal < Len(intents)
    BY <2>1, SendDoes
  <2>3. \A i \in DOMAIN results : Clean(results[i])
    <3>1. results \in Seq(Result)
      BY DEF IInv, TypeOK
    <3>2. \A i \in DOMAIN results : i < Len(intents)
      BY <2>2, <3>1
    <3>3. QED
      BY <3>2 DEF IInv, CleanOK
  <2>4. ASSUME NEW i \in DOMAIN sent PROVE sent[i].ordinal \in DOMAIN results
    <3>1. results \in Seq(Result) /\ intents \in Seq(Intent)
      BY DEF IInv, TypeOK
    <3>2. sent[i].ordinal \in DOMAIN intents
      BY DEF IInv, SentOK
    <3>3. sent[i].ordinal \in 1..Len(intents) /\ sent[i].ordinal < Len(results) + 1
      BY <2>2, <3>1, <3>2
    <3>4. QED
      BY <3>1, <3>3
  <2>5. QED
    BY <2>3, <2>4 DEF Clean
<1>2. Spec => [][IInv /\ [Next]_vars]_vars
  BY Invariance, PTL DEF Spec
<1>3. QED
  BY <1>1, <1>2, PTL DEF StopsAtDoubt

(* The experiment is paid for once, its evidence is whole, and it stops at *)
(* doubt.                                                                  *)
THEOREM NothingLostOrRepeated == Spec => NothingIsLostOrRepeated
BY SendsOnce, KeepsWhatIsPaid, DoubtStops, PTL DEF NothingIsLostOrRepeated

-----------------------------------------------------------------------------
(* CaptureEvidence and CallbackDrain.                                       *)

Players == Seats \cup {Human}
Words == Wordings \cup {None}
Moved == Players \X Words
HeldMove == [cid : Nat, seat : Players, choice : Words]
RowKinds ==
  {"initialization", "ai_callback_input", "ai_callback_result", "ai_callback_disposition",
   "native_transition", "resume", "state_checkpoint", "callback_resume_state"} \cup EndOfGame
SourceRow ==
  [kind : RowKinds, cid : Nat, seat : Players, before : Seq(Moved), state : Seq(Moved), choice : Words]
GymRow ==
  [kind : {"decision_started", "seat_callback", "resume", "runtime_context"}, cid : Nat, choice : Words]
Status == {"asked", "taken", "given up", "lost"}
Callback == [seat : Seats, kind : CallbackKinds, status : Status, choice : Words]
NativeGame ==
  [up : BOOLEAN, held : Seq(HeldMove), saved : Seq(HeldMove), queue : Seq(SourceRow),
   over : BOOLEAN, gaps : Nat, downs : Nat, boot : Nat]

(* The rows that were written or will be, the moves among them, and the     *)
(* state that the rows before row i lead to.                                *)
Rows == source \o native.queue
Steps(rows) == {i \in 1..Len(rows) : rows[i].kind = "native_transition"}
StepsBefore(rows, i) == {j \in Steps(rows) : j < i}
Led(rows, i) == IF StepsBefore(rows, i) = {} THEN <<>> ELSE rows[Max(StepsBefore(rows, i))].state
\* A restored state that is not where the rows before it lead.
Bad(rows, j) ==
  j \in 1..Len(rows) /\ rows[j].kind = "callback_resume_state" /\ rows[j].state # Led(rows, j)

-----------------------------------------------------------------------------
(* The inductive invariant, part by part.                                   *)

CaptureTypeOK ==
  /\ recording \in Recordings /\ native \in NativeGame
  /\ source \in Seq(SourceRow) /\ imported \in 0..Len(source)
  /\ gym \in Seq(GymRow) /\ calls \in Seq(Callback)
  /\ evidence \in [made : {"no", "yes", "refused"}, records : SUBSET HeldMove]

\* The Gym answers a callback once, after it began it.
GymOK ==
  /\ \A i \in 1..Len(gym) :
       /\ gym[i].kind \in {"decision_started", "seat_callback"} => gym[i].cid \in Calls
       /\ gym[i].kind \in {"resume", "runtime_context"} => gym[i].cid = 0
       /\ gym[i].kind = "seat_callback" =>
            /\ \E p \in Picks : gym[i].choice = Choice(calls[gym[i].cid].kind, p)
            /\ \E j \in 1..Len(gym) : j < i /\ gym[j].kind = "decision_started" /\ gym[j].cid = gym[i].cid
  /\ \A i, j \in 1..Len(gym) :
       gym[i].kind = gym[j].kind /\ gym[i].cid = gym[j].cid
         /\ gym[i].kind \in {"decision_started", "seat_callback"} => i = j

\* What was taken is what the Gym answered.
CallsOK ==
  \A c \in Calls :
    /\ calls[c].status = "taken" =>
         \E i \in GymRows("seat_callback", c) : calls[c].choice = Accepted(calls[c].kind, gym[i].choice)
    /\ calls[c].status # "taken" => calls[c].choice = None

MoveOK(m) ==
  /\ m.cid = 0 => m.seat = Human /\ m.choice = None
  /\ m.cid # 0 => /\ m.cid \in Calls
                  /\ m.seat = calls[m.cid].seat /\ m.choice = calls[m.cid].choice
                  /\ calls[m.cid].status \in {"taken", "given up"}
HeldOK == \A i \in 1..Len(native.held) : MoveOK(native.held[i])

\* A move adds one entry; if a pilot's seat made none of its own, its disposition is
\* the row before.
StepOK(rows, r) ==
  \E move \in Moved :
    /\ rows[r].state = Append(rows[r].before, move) /\ rows[r].choice = move[2]
    /\ move[2] = None /\ move[1] # Human => r > 1 /\ rows[r - 1].kind = "ai_callback_disposition"

\* A result is of a call that was taken, and follows its move; if the game still
\* holds the call, it does so where that move put it.
ResultOK(rows, r) ==
  LET c == rows[r].cid IN
    /\ c \in Calls /\ calls[c].status = "taken"
    /\ rows[r].seat = calls[c].seat /\ rows[r].choice = calls[c].choice
    /\ r > 1 /\ rows[r - 1].kind = "native_transition" /\ rows[r - 1].choice = rows[r].choice
    /\ rows[r - 1].state[Len(rows[r - 1].state)] = <<calls[c].seat, calls[c].choice>>
    /\ \A i \in 1..Len(native.held) : native.held[i].cid = c => i = Len(rows[r - 1].state)

RowOK(rows, r) ==
  /\ rows[r].kind = "native_transition" => StepOK(rows, r)
  /\ rows[r].kind = "ai_callback_result" => ResultOK(rows, r)
  /\ rows[r].kind = "ai_callback_input" =>
       rows[r].cid \in Calls /\ rows[r].seat = calls[rows[r].cid].seat
  /\ rows[r].kind = "ai_callback_disposition" =>
       rows[r].cid \in Calls /\ calls[rows[r].cid].status = "given up"
  /\ rows[r].kind = "initialization" => r = 1
  /\ rows[r].kind = "callback_resume_state" => r > 1 /\ rows[r - 1].kind = "state_checkpoint"
\* A call is asked and answered once, in this order.
Apart(rows) ==
  \A r, q \in 1..Len(rows) : rows[r].cid = rows[q].cid =>
    /\ rows[r].kind = rows[q].kind /\ rows[r].kind \in {"ai_callback_input", "ai_callback_result"} => r = q
    /\ rows[r].kind = "ai_callback_input" /\ rows[q].kind = "ai_callback_result" => r < q
RowsOK == (\A r \in 1..Len(Rows) : RowOK(Rows, r)) /\ Apart(Rows)

\* Every move starts where the rows before it lead, unless a restored game did not; and
\* the game that plays is where all the rows lead, with the same exception.
LineOK ==
  /\ \A r \in Steps(Rows) : Rows[r].before = Led(Rows, r) \/ \E j \in 1..(r - 1) : Bad(Rows, j)
  /\ native.up =>
       Led(Rows, Len(Rows) + 1) = Digest(native.held) \/ \E j \in 1..Len(Rows) : Bad(Rows, j)

BootOK ==
  /\ ~native.up => /\ native.queue = <<>> /\ native.held = native.saved
                   /\ ~native.over /\ Asked = {} /\ native.downs > 0
  /\ \A c \in Calls : calls[c].status = "lost" => native.downs > 0
  /\ \A c \in Calls : calls[c].status = "taken" /\ native.downs = 0 => Stands(c)

\* Without a missed row: a restart shows, and without one everything that happened does.
Shown(k, c) == \E i \in 1..Len(Rows) : Rows[i].kind = k /\ Rows[i].cid = c
CallShown(c) ==
  /\ Shown("ai_callback_input", c)
  /\ calls[c].status = "taken" => Shown("ai_callback_result", c)
  /\ calls[c].status = "given up" => Shown("ai_callback_disposition", c)
FirstBoot ==
  /\ Len(Rows) > 0 /\ Rows[1].kind = "initialization"
  /\ \A i \in 1..Len(Rows) : Rows[i].kind \notin {"resume", "callback_resume_state"}
ShownOK ==
  /\ native.downs > 0 /\ native.up => \E i \in 1..Len(Rows) : Rows[i].kind = "resume"
  /\ native.downs = 0 => FirstBoot /\ \A c \in Calls : CallShown(c)

OverOK ==
  /\ \A i \in 1..Len(Rows) : Rows[i].kind \in EndOfGame => native.over /\ i = Len(Rows)
  /\ native.over => native.up /\ Asked = {}

EvidenceOK ==
  evidence.made # "no" => imported = Len(source) /\ IsOver(source) /\ EvidenceIsTrue

PlayedOK == GymOK /\ CallsOK /\ HeldOK /\ BootOK /\ OverOK
WrittenOK == native.gaps = 0 => RowsOK /\ LineOK /\ ShownOK
CaptureInv == CaptureTypeOK /\ PlayedOK /\ WrittenOK /\ EvidenceOK

-----------------------------------------------------------------------------
(* The observer's invariant.                                                *)

Observation ==
  [boot : Nat, generation : Nat, asked : Nat, seen : SUBSET Nat, native : Nat, rows : Nat]
DrainTypeOK ==
  /\ gate \in [paused : BOOLEAN, generation : Nat]
  /\ drain \in [at : {"idle", "reading", "read", "done", "again", "refused", "verified"},
                first : Observation, now : Observation]
Busy == drain.at \in {"reading", "read", "done", "again"}
GateOK ==
  /\ gate.paused => /\ native.up
                    /\ \A i \in 1..Len(native.queue) : native.queue[i].kind # "callback_resume_state"
  /\ native.boot > 0 /\ drain.now.boot <= native.boot
  /\ native.up /\ native.boot = drain.now.boot => drain.now.generation <= gate.generation
Still == native.up /\ gate.paused /\ SameEpoch
ObserverOK ==
  /\ Busy /\ Still => Asked = {} /\ Len(calls) = drain.now.asked
  /\ drain.at = "read" /\ Still => drain.now.seen = TakenAndKept
  /\ Busy /\ drain.first.boot = drain.now.boot /\ drain.first.generation = drain.now.generation =>
       drain.first.asked = drain.now.asked
DrainInv == CaptureInv /\ DrainTypeOK /\ GateOK /\ ObserverOK

-----------------------------------------------------------------------------
(* Numbers and places.                                                      *)

LEMMA Least ==
  ASSUME NEW T \in SUBSET Nat, T # {}
  PROVE  \E x \in T : \A y \in T : x <= y
<1>1. \E x \in T : \A y \in T : ~(<<y, x>> \in OpToRel(<, Nat))
  BY NatLessThanWellFounded, WFMin, ZenonT(20)
<1>2. PICK x \in T : \A y \in T : ~(<<y, x>> \in OpToRel(<, Nat))  BY <1>1, Zenon
<1>3. \A y \in T : ~(y < x)
  BY <1>2 DEF OpToRel
<1>. QED  BY <1>3

LEMMA Greatest ==
  ASSUME NEW n \in Nat, NEW T \in SUBSET (1..n), T # {}
  PROVE  Max(T) \in T /\ \A y \in T : y <= Max(T)
<1>. DEFINE Down == {k \in Nat : n - k \in T}
<1>1. Down # {} /\ Down \in SUBSET Nat
  <2>1. PICK t \in T : TRUE  OBVIOUS
  <2>2. n - t \in Nat /\ n - (n - t) = t  OBVIOUS
  <2>3. n - t \in Down  BY <2>1, <2>2
  <2>. QED  BY <2>3
<1>2. PICK k \in Down : \A j \in Down : k <= j
  <2>. HIDE DEF Down
  <2>. QED  BY <1>1, Least
<1>3. \A y \in T : y <= n - k
  <2>1. TAKE y \in T
  <2>2. n - y \in Nat /\ n - (n - y) = y  OBVIOUS
  <2>3. k <= n - y  BY <1>2, <2>2
  <2>. QED  BY <2>3
<1>4. \E x \in T : \A y \in T : x >= y  BY <1>2, <1>3
<1>5. Max(T) \in T /\ \A y \in T : Max(T) >= y  BY <1>4 DEF Max
<1>. QED  BY <1>5

\* The state the rows before row i lead to is that of the last move before it.
LEMMA LedIs ==
  ASSUME NEW rows \in Seq(SourceRow), NEW i \in Nat
  PROVE  \/ StepsBefore(rows, i) = {} /\ Led(rows, i) = <<>>
         \/ \E j \in StepsBefore(rows, i) :
              Led(rows, i) = rows[j].state /\ \A k \in StepsBefore(rows, i) : k <= j
<1>1. CASE StepsBefore(rows, i) = {}  BY <1>1 DEF Led
<1>2. CASE StepsBefore(rows, i) # {}
  <2>1. StepsBefore(rows, i) \in SUBSET (1..Len(rows)) /\ Len(rows) \in Nat
    BY DEF StepsBefore, Steps
  <2>2. /\ Max(StepsBefore(rows, i)) \in StepsBefore(rows, i)
        /\ \A y \in StepsBefore(rows, i) : y <= Max(StepsBefore(rows, i))
    BY <1>2, <2>1, Greatest
  <2>. QED  BY <1>2, <2>2 DEF Led
<1>. QED  BY <1>1, <1>2

LEMMA LedType ==
  ASSUME NEW rows \in Seq(SourceRow), NEW i \in Nat
  PROVE  Led(rows, i) \in Seq(Moved)
<1>1. <<>> \in Seq(Moved)  OBVIOUS
<1>2. \A j \in 1..Len(rows) : rows[j].state \in Seq(Moved)
  <2>1. \A j \in 1..Len(rows) : rows[j] \in SourceRow  OBVIOUS
  <2>. QED  BY <2>1 DEF SourceRow
<1>3. \A j \in StepsBefore(rows, i) : j \in 1..Len(rows)  BY DEF StepsBefore, Steps
<1>. QED  BY <1>1, <1>2, <1>3, LedIs

\* It depends on those rows alone.
Extends(more, rows) ==
  Len(rows) <= Len(more) /\ \A i \in 1..Len(rows) : more[i] = rows[i]
LEMMA LedSame ==
  ASSUME NEW rows \in Seq(SourceRow), NEW more \in Seq(SourceRow), Extends(more, rows),
         NEW i \in Nat, i <= Len(rows) + 1
  PROVE  Led(more, i) = Led(rows, i)
<1>1. StepsBefore(more, i) = StepsBefore(rows, i)  BY DEF StepsBefore, Steps, Extends
<1>2. CASE StepsBefore(rows, i) = {}  BY <1>1, <1>2 DEF Led
<1>3. CASE StepsBefore(rows, i) # {}
  <2>1. StepsBefore(rows, i) \in SUBSET (1..Len(rows)) /\ Len(rows) \in Nat
    BY DEF StepsBefore, Steps
  <2>2. Max(StepsBefore(rows, i)) \in 1..Len(rows)  BY <1>3, <2>1, Greatest
  <2>3. more[Max(StepsBefore(rows, i))] = rows[Max(StepsBefore(rows, i))]  BY <2>2 DEF Extends
  <2>. QED  BY <1>1, <1>3, <2>3 DEF Led
<1>. QED  BY <1>2, <1>3

LEMMA LedNext ==
  ASSUME NEW rows \in Seq(SourceRow), NEW i \in 1..Len(rows)
  PROVE  Led(rows, i + 1) = IF rows[i].kind = "native_transition" THEN rows[i].state ELSE Led(rows, i)
<1>0. i \in Nat /\ i + 1 \in Nat  OBVIOUS
<1>1. CASE rows[i].kind = "native_transition"
  <2>1. i \in StepsBefore(rows, i + 1) /\ \A k \in StepsBefore(rows, i + 1) : k <= i
    BY <1>1 DEF StepsBefore, Steps
  <2>2. PICK j \in StepsBefore(rows, i + 1) :
          Led(rows, i + 1) = rows[j].state /\ \A k \in StepsBefore(rows, i + 1) : k <= j
    BY <1>0, <2>1, LedIs
  <2>3. j \in 1..Len(rows) BY DEF StepsBefore, Steps
  <2>4. j = i  BY <2>1, <2>2, <2>3
  <2>. QED  BY <1>1, <2>2, <2>4
<1>2. CASE rows[i].kind # "native_transition"
  <2>1. StepsBefore(rows, i + 1) = StepsBefore(rows, i)  BY <1>2 DEF StepsBefore, Steps
  <2>. QED  BY <1>2, <2>1 DEF Led
<1>. QED  BY <1>1, <1>2

\* Whether a restored state is bad is decided by the rows up to it.
LEMMA BadSame ==
  ASSUME NEW rows \in Seq(SourceRow), NEW more \in Seq(SourceRow), Extends(more, rows),
         NEW j \in 1..Len(rows)
  PROVE  Bad(more, j) <=> Bad(rows, j)
<1>1. Led(more, j) = Led(rows, j)  BY LedSame
<1>. QED  BY <1>1 DEF Bad, Extends

-----------------------------------------------------------------------------
(* A chain of moves: each one adds an entry to what the rows before it lead *)
(* to.  So the states grow, and there is one of every length.               *)

Chained(rows) ==
  \A r \in Steps(rows) :
    rows[r].before = Led(rows, r) /\ \E move \in Moved : rows[r].state = Append(rows[r].before, move)
Within(s, t) == Len(s) <= Len(t) /\ \A k \in 1..Len(s) : t[k] = s[k]

LEMMA StatesGrow ==
  ASSUME NEW rows \in Seq(SourceRow), Chained(rows)
  PROVE  \A j \in Steps(rows) : \A i \in Steps(rows) : i < j =>
           Within(rows[i].state, rows[j].state) /\ Len(rows[i].state) < Len(rows[j].state)
<1>. DEFINE P(j) == \A i \in Steps(rows) : i < j =>
                      Within(rows[i].state, rows[j].state) /\ Len(rows[i].state) < Len(rows[j].state)
            Wrong == {j \in Steps(rows) : ~P(j)}
<1>1. Steps(rows) \in SUBSET Nat  BY DEF Steps
<1>t. \A j \in Steps(rows) : rows[j].state \in Seq(Moved) /\ rows[j].before \in Seq(Moved)
  <2>1. \A j \in Steps(rows) : rows[j] \in SourceRow  BY DEF Steps
  <2>. QED  BY <2>1 DEF SourceRow
<1>2. SUFFICES ASSUME Wrong # {} PROVE FALSE  OBVIOUS
<1>3. PICK j \in Wrong : \A k \in Wrong : j <= k
  <2>1. Wrong \in SUBSET Nat  BY <1>1
  <2>. HIDE DEF Wrong
  <2>. QED  BY <1>2, <2>1, Least
<1>4. j \in Steps(rows) /\ j \in Nat  BY <1>1
<1>5. ASSUME NEW i \in Steps(rows), i < j
      PROVE  Within(rows[i].state, rows[j].state) /\ Len(rows[i].state) < Len(rows[j].state)
  <2>1. i \in StepsBefore(rows, j)  BY <1>5 DEF StepsBefore
  <2>2. PICK l \in StepsBefore(rows, j) :
          Led(rows, j) = rows[l].state /\ \A k \in StepsBefore(rows, j) : k <= l
    BY <1>4, <2>1, LedIs
  <2>3. l \in Steps(rows) /\ l < j /\ i <= l /\ i \in Nat /\ l \in Nat
    BY <1>1, <2>1, <2>2 DEF StepsBefore
  <2>4. Within(rows[l].state, rows[j].state) /\ Len(rows[l].state) < Len(rows[j].state)
    <3>1. PICK move \in Moved : rows[j].state = Append(rows[l].state, move)
      BY <1>4, <2>2 DEF Chained
    <3>2. rows[l].state \in Seq(Moved)  BY <2>3, <1>t
    <3>3. /\ Len(rows[j].state) = Len(rows[l].state) + 1
          /\ \A k \in 1..Len(rows[l].state) : rows[j].state[k] = rows[l].state[k]
      BY <3>1, <3>2, AppendProperties
    <3>4. Len(rows[l].state) \in Nat  BY <3>2, LenProperties
    <3>5. Len(rows[l].state) <= Len(rows[j].state) /\ Len(rows[l].state) < Len(rows[j].state)
      BY <3>3, <3>4
    <3>. QED  BY <3>3, <3>5 DEF Within
  <2>5. CASE i = l  BY <2>4, <2>5
  <2>6. CASE i < l
    <3>1. l \notin Wrong  BY <1>3, <1>4, <2>3
    <3>2. Within(rows[i].state, rows[l].state) /\ Len(rows[i].state) < Len(rows[l].state)
      BY <3>1, <2>3, <2>6
    <3>3. Len(rows[i].state) \in Nat /\ Len(rows[l].state) \in Nat /\ Len(rows[j].state) \in Nat
      BY <2>3, <1>t, <1>4, LenProperties
    <3>4. \A k \in 1..Len(rows[i].state) : k \in 1..Len(rows[l].state)  BY <3>2, <3>3 DEF Within
    <3>5. Len(rows[i].state) < Len(rows[j].state)
      <4>1. Len(rows[i].state) < Len(rows[l].state) /\ Len(rows[l].state) < Len(rows[j].state)
        BY <3>2, <2>4, Zenon
      <4>2. PICK a \in Nat, b \in Nat, c \in Nat :
              a = Len(rows[i].state) /\ b = Len(rows[l].state) /\ c = Len(rows[j].state)
        BY <3>3, Zenon
      <4>3. a < b /\ b < c  BY ONLY <4>1, <4>2, Zenon
      <4>4. a < c  BY ONLY <4>3, a \in Nat, b \in Nat, c \in Nat, SMT
      <4>. QED  BY ONLY <4>2, <4>4, Zenon
    <3>6. \A k \in 1..Len(rows[i].state) : rows[j].state[k] = rows[i].state[k]
      BY <3>2, <3>4, <2>4, Zenon DEF Within
    <3>. QED  BY <3>3, <3>5, <3>6 DEF Within
  <2>. QED  BY <2>3, <2>5, <2>6
<1>. QED  BY <1>3, <1>5

LEMMA StatesOfEveryLength ==
  ASSUME NEW rows \in Seq(SourceRow), Chained(rows)
  PROVE  \A j \in Steps(rows) : \A m \in 1..Len(rows[j].state) :
           \E i \in Steps(rows) : i <= j /\ Len(rows[i].state) = m
<1>. DEFINE P(j) == \A m \in 1..Len(rows[j].state) : \E i \in Steps(rows) : i <= j /\ Len(rows[i].state) = m
            Wrong == {j \in Steps(rows) : ~P(j)}
<1>1. Steps(rows) \in SUBSET Nat  BY DEF Steps
<1>t. \A j \in Steps(rows) : rows[j].state \in Seq(Moved) /\ rows[j].before \in Seq(Moved)
  <2>1. \A j \in Steps(rows) : rows[j] \in SourceRow  BY DEF Steps
  <2>. QED  BY <2>1 DEF SourceRow
<1>2. SUFFICES ASSUME Wrong # {} PROVE FALSE  OBVIOUS
<1>3. PICK j \in Wrong : \A k \in Wrong : j <= k
  <2>1. Wrong \in SUBSET Nat  BY <1>1
  <2>. HIDE DEF Wrong
  <2>. QED  BY <1>2, <2>1, Least
<1>4. j \in Steps(rows) /\ j \in Nat  BY <1>1
<1>5. ASSUME NEW m \in 1..Len(rows[j].state)
      PROVE  \E i \in Steps(rows) : i <= j /\ Len(rows[i].state) = m
  <2>1. CASE m = Len(rows[j].state)  BY <2>1, <1>4
  <2>2. CASE m # Len(rows[j].state)
    <3>1. PICK move \in Moved : rows[j].state = Append(rows[j].before, move)  BY <1>4 DEF Chained
    <3>2. m \in 1..Len(rows[j].before)  BY <2>2, <3>1, <1>t, <1>4
    <3>3. rows[j].before = Led(rows, j)  BY <1>4 DEF Chained
    <3>4. PICK l \in StepsBefore(rows, j) : Led(rows, j) = rows[l].state
      BY <3>2, <3>3, <1>4, LedIs
    <3>5. l \in Steps(rows) /\ l < j /\ l \in Nat  BY <1>1, <3>4 DEF StepsBefore
    <3>6. l \notin Wrong  BY <1>3, <1>4, <3>5
    <3>7. PICK i \in Steps(rows) : i <= l /\ Len(rows[i].state) = m  BY <3>2, <3>3, <3>4, <3>5, <3>6
    <3>. QED  BY <3>5, <3>7, <1>1
  <2>. QED  BY <2>1, <2>2
<1>. QED  BY <1>3, <1>5

-----------------------------------------------------------------------------
(* The types of what a step writes.                                         *)

LEMMA AsksAreTyped ==
  ASSUME CaptureTypeOK
  PROVE  \A i \in 1..Len(recording.asks) :
           recording.asks[i].seat \in Seats /\ recording.asks[i].kind \in CallbackKinds
<1>1. recording.asks \in Seq([seat : Seats, kind : CallbackKinds])
  BY RecordingAssumption DEF CaptureTypeOK
<1>2. \A i \in 1..Len(recording.asks) : recording.asks[i] \in [seat : Seats, kind : CallbackKinds]
  BY <1>1, ElementOfSeq
<1>. QED  BY <1>2

LEMMA PicksAreTyped ==
  ASSUME CaptureTypeOK
  PROVE  recording.picks \subseteq Picks
BY DEF CaptureTypeOK, Picks

LEMMA ChoiceTypes ==
  ASSUME NEW k \in CallbackKinds, NEW p \in Picks
  PROVE  /\ Choice(k, p) \in Wordings /\ Choice(k, p) # None
         /\ Accepted(k, Choice(k, p)) \in Wordings /\ Accepted(k, Choice(k, p)) # None
<1>1. Choice(k, p) \in Wordings  BY DEF Choice, Wordings
<1>2. Accepted(k, Choice(k, p)) \in Wordings  BY <1>1 DEF Accepted, Wordings
<1>. QED  BY <1>1, <1>2, RecordingAssumption

LEMMA HumanIsNoSeat ==
  Human \in Players /\ Human \notin Seats /\ None \in Words /\ None \notin Wordings /\ Seats \subseteq Players
BY RecordingAssumption DEF Players, Words

LEMMA DigestOf ==
  ASSUME NEW held \in Seq(HeldMove)
  PROVE  /\ Digest(held) \in Seq(Moved) /\ Len(Digest(held)) = Len(held)
         /\ \A i \in 1..Len(held) : Digest(held)[i] = <<held[i].seat, held[i].choice>>
<1>1. \A i \in 1..Len(held) : <<held[i].seat, held[i].choice>> \in Moved
  <2>1. \A i \in 1..Len(held) : held[i] \in HeldMove  OBVIOUS
  <2>. QED  BY <2>1 DEF HeldMove, Moved
<1>. QED  BY <1>1 DEF Digest

LEMMA DigestGrows ==
  ASSUME NEW held \in Seq(HeldMove), NEW m \in HeldMove
  PROVE  /\ <<m.seat, m.choice>> \in Moved
         /\ Append(held, m) \in Seq(HeldMove)
         /\ Digest(Append(held, m)) = Append(Digest(held), <<m.seat, m.choice>>)
<1>1. <<m.seat, m.choice>> \in Moved  BY DEF HeldMove, Moved
<1>2. Append(held, m) \in Seq(HeldMove)  OBVIOUS
<1>3. Append(Digest(held), <<m.seat, m.choice>>) \in Seq(Moved)  BY <1>1, DigestOf
<1>4. Digest(Append(held, m)) \in Seq(Moved)  BY <1>2, DigestOf
<1>0. Len(Append(held, m)) = Len(held) + 1 /\ Len(held) \in Nat  OBVIOUS
<1>5. Len(Digest(Append(held, m))) = Len(Append(Digest(held), <<m.seat, m.choice>>))
  <2>1. Len(Digest(Append(held, m))) = Len(held) + 1  BY <1>0, <1>2, DigestOf
  <2>2. Len(Append(Digest(held), <<m.seat, m.choice>>)) = Len(Digest(held)) + 1
    BY <1>1, DigestOf, AppendProperties
  <2>. QED  BY <2>1, <2>2, DigestOf
<1>6. ASSUME NEW i \in 1..Len(Digest(Append(held, m)))
      PROVE  Digest(Append(held, m))[i] = Append(Digest(held), <<m.seat, m.choice>>)[i]
  <2>0. i \in 1..(Len(held) + 1)  BY <1>0, <1>2, DigestOf
  <2>1. Digest(Append(held, m))[i] = <<Append(held, m)[i].seat, Append(held, m)[i].choice>>
    BY <1>0, <1>2, <2>0, DigestOf
  <2>2. CASE i = Len(held) + 1  BY <2>1, <2>2, <1>1, DigestOf
  <2>3. CASE i \in 1..Len(held)  BY <2>1, <2>3, <1>1, DigestOf
  <2>4. i = Len(held) + 1 \/ i \in 1..Len(held)  BY <1>0, <2>0
  <2>. QED  BY ONLY <2>2, <2>3, <2>4
<1>7. Digest(Append(held, m)) = Append(Digest(held), <<m.seat, m.choice>>)
  BY <1>3, <1>4, <1>5, <1>6, SeqEqual
<1>. QED  BY <1>1, <1>2, <1>7

LEMMA RowTypes ==
  ASSUME NEW k \in RowKinds
  PROVE  Row(k) \in SourceRow /\ Row(k).kind = k /\ Row(k).cid = 0
<1>1. <<>> \in Seq(Moved)  OBVIOUS
<1>. QED  BY <1>1, HumanIsNoSeat DEF Row, SourceRow

\* What is known of the types in a state.
LEMMA StateTypes ==
  ASSUME CaptureTypeOK
  PROVE  /\ native.held \in Seq(HeldMove) /\ native.saved \in Seq(HeldMove)
         /\ native.queue \in Seq(SourceRow) /\ source \in Seq(SourceRow)
         /\ Rows \in Seq(SourceRow) /\ Len(Rows) = Len(source) + Len(native.queue)
         /\ \A i \in 1..Len(source) : Rows[i] = source[i]
         /\ \A i \in 1..Len(native.queue) : Rows[Len(source) + i] = native.queue[i]
         /\ native.gaps \in Nat /\ native.downs \in Nat /\ native.boot \in Nat
         /\ native.up \in BOOLEAN /\ native.over \in BOOLEAN
         /\ Len(calls) \in Nat /\ Len(source) \in Nat /\ Len(Rows) \in Nat /\ Len(gym) \in Nat
         /\ Len(native.queue) \in Nat
<1>1. /\ native.held \in Seq(HeldMove) /\ native.saved \in Seq(HeldMove)
      /\ native.queue \in Seq(SourceRow) /\ source \in Seq(SourceRow)
      /\ native.gaps \in Nat /\ native.downs \in Nat /\ native.boot \in Nat
      /\ native.up \in BOOLEAN /\ native.over \in BOOLEAN
      /\ Len(calls) \in Nat /\ Len(source) \in Nat /\ Len(gym) \in Nat /\ Len(native.queue) \in Nat
  BY DEF CaptureTypeOK, NativeGame
<1>2. Rows \in Seq(SourceRow) /\ Len(Rows) = Len(source) + Len(native.queue)
  BY <1>1, ConcatProperties DEF Rows
<1>3. \A i \in 1..Len(source) : Rows[i] = source[i]
  BY <1>1, ConcatProperties DEF Rows
<1>4. \A i \in 1..Len(native.queue) : Rows[Len(source) + i] = native.queue[i]
  BY <1>1, ConcatProperties DEF Rows
<1>. QED  BY <1>1, <1>2, <1>3, <1>4

LEMMA CallTypes ==
  ASSUME CaptureTypeOK, NEW c \in Calls
  PROVE  /\ calls[c].seat \in Seats /\ calls[c].kind \in CallbackKinds
         /\ calls[c].status \in Status /\ calls[c].choice \in Words
         /\ c \in Nat /\ c > 0 /\ calls[c] \in Callback
<1>1. calls[c] \in Callback  BY DEF CaptureTypeOK, Calls
<1>. QED  BY <1>1 DEF Callback, Calls, CaptureTypeOK

LEMMA HeldTypes ==
  ASSUME CaptureTypeOK, NEW i \in 1..Len(native.held)
  PROVE  /\ native.held[i].cid \in Nat /\ native.held[i].seat \in Players
         /\ native.held[i].choice \in Words
<1>1. native.held[i] \in HeldMove  BY StateTypes
<1>. QED  BY <1>1 DEF HeldMove

LEMMA SourceRowTypes ==
  ASSUME NEW rows \in Seq(SourceRow), NEW i \in 1..Len(rows)
  PROVE  /\ rows[i].kind \in RowKinds /\ rows[i].cid \in Nat /\ rows[i].seat \in Players
         /\ rows[i].before \in Seq(Moved) /\ rows[i].state \in Seq(Moved) /\ rows[i].choice \in Words
<1>1. rows[i] \in SourceRow  OBVIOUS
<1>. QED  BY <1>1 DEF SourceRow

-----------------------------------------------------------------------------
(* What the steps do to the rows: rows are added, cut off by a crash, or    *)
(* only written.                                                            *)

LEMMA ConcatRows ==
  ASSUME NEW s \in Seq(SourceRow), NEW t \in Seq(SourceRow), NEW u \in Seq(SourceRow)
  PROVE  (s \o t) \o u = s \o (t \o u)
BY ONLY ConcatAssociative, s \in Seq(SourceRow), t \in Seq(SourceRow), u \in Seq(SourceRow)

LEMMA RowsGrow ==
  ASSUME CaptureTypeOK, NEW new \in Seq(SourceRow),
         native'.queue = native.queue \o new, source' = source
  PROVE  /\ native'.queue \in Seq(SourceRow)
         /\ Rows' \in Seq(SourceRow) /\ Len(Rows') = Len(Rows) + Len(new) /\ Extends(Rows', Rows)
         /\ \A i \in 1..Len(new) : Rows'[Len(Rows) + i] = new[i]
<1>1. Rows' = Rows \o new
  <2>1. native.queue \in Seq(SourceRow) /\ source \in Seq(SourceRow)  BY StateTypes
  <2>2. (source \o native.queue) \o new = source \o (native.queue \o new)
    BY <2>1, ConcatRows
  <2>. QED  BY <2>2 DEF Rows
<1>2. Rows \in Seq(SourceRow) /\ native.queue \in Seq(SourceRow)  BY StateTypes
<1>3. native.queue \o new \in Seq(SourceRow)  BY <1>2, ConcatProperties
<1>4. /\ Rows \o new \in Seq(SourceRow) /\ Len(Rows \o new) = Len(Rows) + Len(new)
      /\ \A i \in 1..Len(Rows) + Len(new) :
           (Rows \o new)[i] = IF i <= Len(Rows) THEN Rows[i] ELSE new[i - Len(Rows)]
  BY <1>2, ConcatProperties
<1>5. Len(Rows) \in Nat /\ Len(new) \in Nat  BY <1>2
<1>6. Extends(Rows \o new, Rows)  BY <1>4, <1>5 DEF Extends
<1>7. \A i \in 1..Len(new) : (Rows \o new)[Len(Rows) + i] = new[i]  BY <1>4, <1>5
<1>. QED  BY <1>1, <1>3, <1>4, <1>6, <1>7

LEMMA OneMoreRow ==
  ASSUME CaptureTypeOK, NEW x \in SourceRow,
         native'.queue = native.queue \o <<x>>, source' = source
  PROVE  /\ native'.queue \in Seq(SourceRow)
         /\ Rows' \in Seq(SourceRow) /\ Len(Rows') = Len(Rows) + 1 /\ Extends(Rows', Rows)
         /\ Rows'[Len(Rows) + 1] = x
<1>1. PICK new : new = <<x>>  OBVIOUS
<1>2. new \in Seq(SourceRow) /\ Len(new) = 1 /\ new[1] = x /\ 1 \in 1..Len(new)  BY <1>1
<1>. QED  BY <1>1, <1>2, RowsGrow

LEMMA TwoMoreRows ==
  ASSUME CaptureTypeOK, NEW x \in SourceRow, NEW y \in SourceRow,
         native'.queue = native.queue \o <<x, y>>, source' = source
  PROVE  /\ native'.queue \in Seq(SourceRow)
         /\ Rows' \in Seq(SourceRow) /\ Len(Rows') = Len(Rows) + 2 /\ Extends(Rows', Rows)
         /\ Rows'[Len(Rows) + 1] = x /\ Rows'[Len(Rows) + 2] = y
<1>1. PICK new : new = <<x, y>>  OBVIOUS
<1>2. /\ new \in Seq(SourceRow) /\ Len(new) = 2 /\ new[1] = x /\ new[2] = y
      /\ 1 \in 1..Len(new) /\ 2 \in 1..Len(new)
  BY <1>1
<1>. QED  BY <1>1, <1>2, RowsGrow

LEMMA RowsWritten ==
  ASSUME CaptureTypeOK, NEW n \in 0..Len(native.queue),
         source' = source \o SubSeq(native.queue, 1, n),
         native'.queue = SubSeq(native.queue, n + 1, Len(native.queue))
  PROVE  /\ source' \in Seq(SourceRow) /\ Len(source') = Len(source) + n
         /\ native'.queue \in Seq(SourceRow) /\ Len(native'.queue) = Len(native.queue) - n
         /\ \A i \in 1..Len(native'.queue) : native'.queue[i] = native.queue[n + i]
         /\ Rows' = Rows
<1>1. /\ native.queue \in Seq(SourceRow) /\ source \in Seq(SourceRow)
      /\ Len(source) \in Nat /\ Len(native.queue) \in Nat
  BY StateTypes
<1>2. /\ SubSeq(native.queue, 1, n) \in Seq(SourceRow) /\ Len(SubSeq(native.queue, 1, n)) = n
      /\ \A i \in 1..n : SubSeq(native.queue, 1, n)[i] = native.queue[i]
  BY <1>1
<1>3. /\ SubSeq(native.queue, n + 1, Len(native.queue)) \in Seq(SourceRow)
      /\ Len(SubSeq(native.queue, n + 1, Len(native.queue))) = Len(native.queue) - n
      /\ \A i \in 1..(Len(native.queue) - n) :
           SubSeq(native.queue, n + 1, Len(native.queue))[i] = native.queue[n + i]
  BY <1>1
<1>4. source' \in Seq(SourceRow) /\ Len(source') = Len(source) + n
  BY <1>1, <1>2, ConcatProperties
<1>5. SubSeq(native.queue, 1, n) \o SubSeq(native.queue, n + 1, Len(native.queue)) = native.queue
  <2>0. 1 \in 1..(Len(native.queue) + 1) /\ n \in (1 - 1)..Len(native.queue)
        /\ Len(native.queue) \in n..Len(native.queue)
    BY <1>1
  <2>1. SubSeq(native.queue, 1, n) \o SubSeq(native.queue, n + 1, Len(native.queue))
          = SubSeq(native.queue, 1, Len(native.queue))
    BY <1>1, <2>0, ConcatAdjacentSubSeq, Zenon
  <2>. QED  BY <1>1, <2>1, SubSeqFull
<1>6. Rows' = Rows
  <2>1. (source \o SubSeq(native.queue, 1, n)) \o SubSeq(native.queue, n + 1, Len(native.queue))
          = source \o (SubSeq(native.queue, 1, n) \o SubSeq(native.queue, n + 1, Len(native.queue)))
    BY <1>1, <1>2, <1>3, ConcatRows
  <2>. QED  BY <1>5, <2>1 DEF Rows
<1>. QED  BY <1>3, <1>4, <1>6

LEMMA RowsCut ==
  ASSUME CaptureTypeOK, NEW n \in 0..Len(native.queue),
         source' = source \o SubSeq(native.queue, 1, n), native'.queue = <<>>
  PROVE  /\ source' \in Seq(SourceRow) /\ Len(source') = Len(source) + n
         /\ Rows' = source' /\ Rows' \in Seq(SourceRow) /\ Extends(Rows, Rows')
<1>1. /\ native.queue \in Seq(SourceRow) /\ source \in Seq(SourceRow)
      /\ Len(source) \in Nat /\ Len(native.queue) \in Nat
  BY StateTypes
<1>2. /\ SubSeq(native.queue, 1, n) \in Seq(SourceRow) /\ Len(SubSeq(native.queue, 1, n)) = n
      /\ \A i \in 1..n : SubSeq(native.queue, 1, n)[i] = native.queue[i]
  BY <1>1
<1>3. /\ source' \in Seq(SourceRow) /\ Len(source') = Len(source) + n
      /\ \A i \in 1..Len(source) + n :
           source'[i] = IF i <= Len(source) THEN source[i] ELSE SubSeq(native.queue, 1, n)[i - Len(source)]
  BY <1>1, <1>2, ConcatProperties
<1>4. Rows' = source'  BY <1>3, ConcatEmptySeq DEF Rows
<1>5. Len(Rows') <= Len(Rows)  BY <1>1, <1>3, <1>4, StateTypes
<1>6. ASSUME NEW i \in 1..Len(Rows') PROVE Rows[i] = Rows'[i]
  <2>1. CASE i <= Len(source)
    <3>1. i \in 1..Len(source) /\ i \in 1..Len(source) + n  BY <1>1, <1>3, <1>4, <2>1
    <3>. QED  BY <1>3, <1>4, <2>1, <3>1, StateTypes
  <2>2. CASE i > Len(source)
    <3>1. i - Len(source) \in 1..n /\ i \in 1..Len(source) + n /\ ~(i <= Len(source))
      BY <1>1, <1>3, <1>4, <2>2
    <3>2. Rows'[i] = native.queue[i - Len(source)]  BY <1>2, <1>3, <1>4, <3>1
    <3>3. i - Len(source) \in 1..Len(native.queue)  BY <1>1, <3>1
    <3>4. Rows[Len(source) + (i - Len(source))] = native.queue[i - Len(source)]  BY <3>3, StateTypes
    <3>. QED  BY <1>1, <3>1, <3>2, <3>4
  <2>. QED  BY <1>1, <1>3, <1>4, <2>1, <2>2
<1>. QED  BY <1>3, <1>4, <1>5, <1>6 DEF Extends

-----------------------------------------------------------------------------
(* Rows that were there before a step say the same after it, if the calls   *)
(* that were answered stand and the game put no old call anywhere new.      *)

CallsKept ==
  \A c \in Calls :
    /\ c \in Calls' /\ calls'[c].seat = calls[c].seat /\ calls'[c].kind = calls[c].kind
    /\ calls[c].status \in {"taken", "given up"} => calls'[c] = calls[c]
HeldKept ==
  \A c \in Calls : calls[c].status = "taken" =>
    \A i \in 1..Len(native'.held) : native'.held[i].cid = c =>
      i \in 1..Len(native.held) /\ native.held[i].cid = c

LEMMA OldRow ==
  ASSUME CaptureTypeOK, RowsOK, CallsKept, HeldKept,
         NEW r \in 1..Len(Rows), \A q \in 1..r : Rows'[q] = Rows[q]
  PROVE  RowOK(Rows, r)'
<1>1. RowOK(Rows, r)  BY DEF RowsOK
<1>2. Rows'[r] = Rows[r] /\ r \in Nat  BY StateTypes
<1>3. r > 1 => Rows'[r - 1] = Rows[r - 1]  BY StateTypes
<1>4. (Rows[r].kind = "native_transition" => StepOK(Rows, r))'
  BY <1>1, <1>2, <1>3 DEF RowOK, StepOK
<1>5. (Rows[r].kind = "ai_callback_result" => ResultOK(Rows, r))'
  <2>1. SUFFICES ASSUME Rows[r].kind = "ai_callback_result" PROVE ResultOK(Rows, r)'
    BY <1>2
  <2>2. ResultOK(Rows, r)  BY <1>1, <2>1 DEF RowOK
  <2>. DEFINE c == Rows[r].cid
  <2>3. c \in Calls /\ calls[c].status = "taken"  BY <2>2 DEF ResultOK
  <2>4. c \in Calls' /\ calls'[c] = calls[c]  BY <2>3 DEF CallsKept
  <2>5. \A i \in 1..Len(native'.held) : native'.held[i].cid = c => i = Len(Rows[r - 1].state)
    BY <2>2, <2>3 DEF ResultOK, HeldKept
  <2>6. r > 1 /\ Rows'[r - 1] = Rows[r - 1]  BY <1>3, <2>2 DEF ResultOK
  <2>. QED  BY <1>2, <2>2, <2>3, <2>4, <2>5, <2>6 DEF ResultOK
<1>6. (Rows[r].kind = "ai_callback_input" =>
         Rows[r].cid \in Calls /\ Rows[r].seat = calls[Rows[r].cid].seat)'
  BY <1>1, <1>2 DEF RowOK, CallsKept
<1>7. (Rows[r].kind = "ai_callback_disposition" =>
         Rows[r].cid \in Calls /\ calls[Rows[r].cid].status = "given up")'
  BY <1>1, <1>2 DEF RowOK, CallsKept
<1>8. (Rows[r].kind = "initialization" => r = 1)'  BY <1>1, <1>2 DEF RowOK
<1>9. (Rows[r].kind = "callback_resume_state" => r > 1 /\ Rows[r - 1].kind = "state_checkpoint")'
  BY <1>1, <1>2, <1>3 DEF RowOK
<1>. QED  BY <1>4, <1>5, <1>6, <1>7, <1>8, <1>9 DEF RowOK

LEMMA OldRows ==
  ASSUME CaptureTypeOK, RowsOK, CallsKept, HeldKept, Extends(Rows', Rows)
  PROVE  \A r \in 1..Len(Rows) : RowOK(Rows, r)'
<1>1. TAKE r \in 1..Len(Rows)
<1>2. \A q \in 1..r : q \in 1..Len(Rows)  BY StateTypes
<1>3. \A q \in 1..r : Rows'[q] = Rows[q]  BY <1>2 DEF Extends
<1>. QED  BY <1>3, OldRow

LEMMA RowsOfPrefix ==
  ASSUME CaptureTypeOK, RowsOK, CallsKept, HeldKept, Rows' \in Seq(SourceRow), Extends(Rows, Rows')
  PROVE  RowsOK'
<1>1. Len(Rows') \in Nat /\ Len(Rows) \in Nat /\ Len(Rows') <= Len(Rows)  BY StateTypes DEF Extends
<1>2. \A r \in 1..Len(Rows') : RowOK(Rows, r)'
  <2>1. TAKE r \in 1..Len(Rows')
  <2>2. r \in 1..Len(Rows)  BY <1>1
  <2>3. \A q \in 1..r : q \in 1..Len(Rows')  BY <1>1
  <2>4. \A q \in 1..r : Rows'[q] = Rows[q]  BY <2>3 DEF Extends
  <2>. QED  BY <2>2, <2>4, OldRow
<1>3. Apart(Rows)'
  <2>1. \A r \in 1..Len(Rows') : r \in 1..Len(Rows) /\ Rows'[r] = Rows[r]  BY <1>1 DEF Extends
  <2>2. Apart(Rows)  BY DEF RowsOK
  <2>. QED  BY <2>1, <2>2 DEF Apart
<1>. QED  BY <1>2, <1>3 DEF RowsOK

LEMMA OldLine ==
  ASSUME CaptureTypeOK, LineOK, Rows' \in Seq(SourceRow),
         NEW r \in 1..Len(Rows), r <= Len(Rows'), r \in Steps(Rows'),
         Extends(Rows', Rows) \/ Extends(Rows, Rows')
  PROVE  Rows'[r].before = Led(Rows', r) \/ \E j \in 1..(r - 1) : Bad(Rows', j)
<1>1. /\ Len(Rows') \in Nat /\ Len(Rows) \in Nat /\ Rows \in Seq(SourceRow) /\ r \in Nat
      /\ r \in 1..Len(Rows')
  BY StateTypes
<1>2. Rows'[r] = Rows[r] /\ r \in Steps(Rows)  BY <1>1 DEF Extends, Steps
<1>3. Led(Rows', r) = Led(Rows, r)  BY <1>1, LedSame
<1>4. Rows[r].before = Led(Rows, r) \/ \E j \in 1..(r - 1) : Bad(Rows, j)  BY <1>2 DEF LineOK
<1>5. \A j \in 1..(r - 1) : j \in 1..Len(Rows) /\ j \in 1..Len(Rows')  BY <1>1
<1>6. \A j \in 1..(r - 1) : Bad(Rows', j) <=> Bad(Rows, j)  BY <1>1, <1>5, BadSame
<1>. QED  BY <1>2, <1>3, <1>4, <1>6

\* A bad state stays.
LEMMA BadStays ==
  ASSUME CaptureTypeOK, Rows' \in Seq(SourceRow), Extends(Rows', Rows),
         \E j \in 1..Len(Rows) : Bad(Rows, j)
  PROVE  \E j \in 1..Len(Rows) : Bad(Rows', j)
BY BadSame, StateTypes

LEMMA OldPlaces ==
  ASSUME CaptureTypeOK, Rows' \in Seq(SourceRow), Extends(Rows', Rows)
  PROVE  \A i \in 1..Len(Rows) : i \in 1..Len(Rows') /\ Rows'[i] = Rows[i]
BY StateTypes DEF Extends

\* What was shown is shown.
LEMMA ShownStays ==
  ASSUME CaptureTypeOK, Rows' \in Seq(SourceRow), Extends(Rows', Rows)
  PROVE  \A k, c : Shown(k, c) => Shown(k, c)'
BY OldPlaces DEF Shown

LEMMA RestartShows ==
  ASSUME CaptureTypeOK, Rows' \in Seq(SourceRow), Extends(Rows', Rows),
         \E i \in 1..Len(Rows) : Rows[i].kind = "resume"
  PROVE  \E i \in 1..Len(Rows') : Rows'[i].kind = "resume"
BY OldPlaces

LEMMA BootContinues ==
  ASSUME CaptureTypeOK, Rows' \in Seq(SourceRow), Extends(Rows', Rows), FirstBoot,
         \A i \in (Len(Rows) + 1)..Len(Rows') : Rows'[i].kind \notin {"resume", "callback_resume_state"}
  PROVE  FirstBoot'
<1>1. Len(Rows) \in Nat /\ Len(Rows') \in Nat  BY StateTypes
<1>2. Len(Rows') > 0 /\ Rows'[1].kind = "initialization"
  <2>1. 1 \in 1..Len(Rows)  BY <1>1 DEF FirstBoot
  <2>. QED  BY <1>1, <2>1, OldPlaces DEF FirstBoot
<1>3. \A i \in 1..Len(Rows') : Rows'[i].kind \notin {"resume", "callback_resume_state"}
  <2>1. \A i \in 1..Len(Rows') : i \in 1..Len(Rows) \/ i \in (Len(Rows) + 1)..Len(Rows')  BY <1>1
  <2>. QED  BY <2>1, OldPlaces DEF FirstBoot
<1>. QED  BY <1>2, <1>3 DEF FirstBoot

\* A row that is no move leads nowhere.
LEMMA QuietRow ==
  ASSUME CaptureTypeOK, LineOK, Rows' \in Seq(SourceRow), Extends(Rows', Rows),
         Len(Rows') = Len(Rows) + 1, Rows'[Len(Rows) + 1].kind # "native_transition",
         native.up, native'.held = native.held
  PROVE  LineOK'
<1>0. Len(Rows) \in Nat /\ Rows \in Seq(SourceRow)  BY StateTypes
<1>1. \A r \in Steps(Rows') : r \in 1..Len(Rows) /\ r <= Len(Rows')  BY <1>0 DEF Steps
<1>2. \A r \in Steps(Rows') : Rows'[r].before = Led(Rows', r) \/ \E j \in 1..(r - 1) : Bad(Rows', j)
  BY <1>1, OldLine
<1>3. Led(Rows', Len(Rows') + 1) = Led(Rows, Len(Rows) + 1)
  <2>1. Len(Rows) + 1 \in 1..Len(Rows') /\ Len(Rows) + 1 \in Nat  BY <1>0
  <2>2. Led(Rows', (Len(Rows) + 1) + 1) = Led(Rows', Len(Rows) + 1)  BY <2>1, LedNext
  <2>3. Led(Rows', Len(Rows) + 1) = Led(Rows, Len(Rows) + 1)  BY <2>1, <1>0, LedSame
  <2>. QED  BY <2>2, <2>3
<1>4. (\E j \in 1..Len(Rows) : Bad(Rows, j)) => \E j \in 1..Len(Rows') : Bad(Rows', j)
  BY <1>0, BadStays
<1>5. Led(Rows, Len(Rows) + 1) = Digest(native.held) \/ \E j \in 1..Len(Rows) : Bad(Rows, j)
  BY DEF LineOK
<1>. QED  BY <1>2, <1>3, <1>4, <1>5 DEF LineOK

\* A move leads from where the game was to where it is.
LEMMA MoveRow ==
  ASSUME CaptureTypeOK, LineOK, Rows' \in Seq(SourceRow), Extends(Rows', Rows),
         NEW p \in (Len(Rows) + 1)..Len(Rows'), Rows'[p].kind = "native_transition",
         \A i \in (Len(Rows) + 1)..Len(Rows') : i # p => Rows'[i].kind # "native_transition",
         Len(Rows') <= Len(Rows) + 2,
         native.up, Rows'[p].before = Digest(native.held), Rows'[p].state = Digest(native'.held)
  PROVE  LineOK'
<1>0. Len(Rows) \in Nat /\ Len(Rows') \in Nat /\ Rows \in Seq(SourceRow) /\ p \in Nat  BY StateTypes
<1>1. Led(Rows', Len(Rows) + 1) = Led(Rows, Len(Rows) + 1)  BY <1>0, LedSame
<1>2. Led(Rows', p) = Led(Rows, Len(Rows) + 1)
  <2>1. CASE p = Len(Rows) + 1  BY <2>1, <1>1
  <2>2. CASE p = Len(Rows) + 2
    <3>1. Len(Rows) + 1 \in 1..Len(Rows') /\ Rows'[Len(Rows) + 1].kind # "native_transition"
      BY <2>2, <1>0
    <3>2. Led(Rows', (Len(Rows) + 1) + 1) = Led(Rows', Len(Rows) + 1)  BY <3>1, LedNext
    <3>. QED  BY <2>2, <1>0, <1>1, <3>2
  <2>. QED  BY <1>0, <2>1, <2>2
<1>3. (\E j \in 1..Len(Rows) : Bad(Rows, j)) => \E j \in 1..Len(Rows) : Bad(Rows', j)
  BY <1>0, BadStays
<1>4. Led(Rows, Len(Rows) + 1) = Digest(native.held) \/ \E j \in 1..Len(Rows) : Bad(Rows, j)
  BY DEF LineOK
<1>5. ASSUME NEW r \in Steps(Rows')
      PROVE  Rows'[r].before = Led(Rows', r) \/ \E j \in 1..(r - 1) : Bad(Rows', j)
  <2>1. CASE r \in 1..Len(Rows)  BY <2>1, <1>0, OldLine DEF Steps
  <2>2. CASE r \notin 1..Len(Rows)
    <3>1. r = p  BY <2>2, <1>0 DEF Steps
    <3>2. \A j \in 1..Len(Rows) : j \in 1..(r - 1)  BY <3>1, <1>0
    <3>. QED  BY <3>1, <3>2, <1>2, <1>3, <1>4
  <2>. QED  BY <2>1, <2>2
<1>6. Led(Rows', Len(Rows') + 1) = Rows'[p].state
  <2>1. p \in 1..Len(Rows')  BY <1>0
  <2>2. Led(Rows', p + 1) = Rows'[p].state  BY <2>1, LedNext
  <2>3. CASE p = Len(Rows')  BY <2>2, <2>3
  <2>4. CASE p # Len(Rows')
    <3>1. p + 1 = Len(Rows') /\ p + 1 \in 1..Len(Rows')  BY <2>4, <1>0
    <3>2. Rows'[p + 1].kind # "native_transition"  BY <3>1, <1>0
    <3>3. Led(Rows', (p + 1) + 1) = Led(Rows', p + 1)  BY <3>1, <3>2, LedNext
    <3>. QED  BY <2>2, <3>1, <3>3
  <2>. QED  BY <2>3, <2>4
<1>. QED  BY <1>5, <1>6 DEF LineOK

-----------------------------------------------------------------------------
(* Whatever a step does, what was said and answered before it stays.        *)

LEMMA GymStays ==
  ASSUME CaptureTypeOK, GymOK, CallsKept, gym' = gym
  PROVE  GymOK'
<1>1. ASSUME NEW i \in 1..Len(gym)
      PROVE  /\ gym[i].kind \in {"decision_started", "seat_callback"} => gym[i].cid \in Calls'
             /\ gym[i].kind = "seat_callback" =>
                  \E p \in Picks : gym[i].choice = Choice(calls'[gym[i].cid].kind, p)
  <2>1. gym[i].kind \in {"decision_started", "seat_callback"} => gym[i].cid \in Calls  BY DEF GymOK
  <2>2. gym[i].kind = "seat_callback" =>
          /\ gym[i].cid \in Calls /\ calls'[gym[i].cid].kind = calls[gym[i].cid].kind
          /\ \E p \in Picks : gym[i].choice = Choice(calls[gym[i].cid].kind, p)
    BY DEF GymOK, CallsKept
  <2>. QED  BY <2>1, <2>2 DEF CallsKept
<1>. QED  BY <1>1 DEF GymOK

LEMMA MovesStay ==
  ASSUME CaptureTypeOK, CallsKept
  PROVE  \A m : MoveOK(m) => MoveOK(m)'
<1>1. ASSUME NEW m, MoveOK(m) PROVE MoveOK(m)'
  <2>1. CASE m.cid = 0  BY <1>1, <2>1 DEF MoveOK
  <2>2. CASE m.cid # 0
    <3>1. m.cid \in Calls /\ calls[m.cid].status \in {"taken", "given up"}  BY <1>1, <2>2 DEF MoveOK
    <3>2. m.cid \in Calls' /\ calls'[m.cid] = calls[m.cid]  BY <3>1 DEF CallsKept
    <3>. QED  BY <1>1, <2>2, <3>1, <3>2 DEF MoveOK
  <2>. QED  BY <2>1, <2>2
<1>. QED  BY <1>1

LEMMA HeldStays ==
  ASSUME CaptureTypeOK, HeldOK, CallsKept, native'.held = native.held
  PROVE  HeldOK' /\ HeldKept
<1>1. HeldOK'  BY MovesStay DEF HeldOK
<1>2. HeldKept  BY DEF HeldKept
<1>. QED  BY <1>1, <1>2

\* Once the evidence is made, the game is over and all its rows are written.
LEMMA SealedIdle ==
  ASSUME CaptureTypeOK, OverOK, EvidenceOK, evidence.made # "no"
  PROVE  native.over /\ native.up /\ Asked = {} /\ native.queue = <<>> /\ IsOver(source)
<1>1. IsOver(source)  BY DEF EvidenceOK
<1>2. PICK i \in 1..Len(source) : source[i].kind \in EndOfGame  BY <1>1 DEF IsOver
<1>3. i \in 1..Len(Rows) /\ Rows[i].kind \in EndOfGame  BY <1>2, StateTypes
<1>4. native.over /\ i = Len(Rows)  BY <1>3 DEF OverOK
<1>5. Len(native.queue) = 0  BY <1>2, <1>4, StateTypes
<1>6. native.queue = <<>>  BY <1>5, StateTypes, EmptySeq
<1>. QED  BY <1>1, <1>4, <1>6 DEF OverOK

LEMMA StillOpen ==
  ASSUME CaptureInv, evidence' = evidence, evidence.made = "no"
  PROVE  EvidenceOK'
BY DEF EvidenceOK

\* Before the end no row is one of the end.
LEMMA NotOver ==
  ASSUME OverOK, ~native.over
  PROVE  \A i \in 1..Len(Rows) : Rows[i].kind \notin EndOfGame
BY DEF OverOK

LEMMA ApartStays ==
  ASSUME CaptureTypeOK, Apart(Rows), Rows' \in Seq(SourceRow), Extends(Rows', Rows),
         \A i \in (Len(Rows) + 1)..Len(Rows') :
           Rows'[i].kind \notin {"ai_callback_input", "ai_callback_result"}
  PROVE  Apart(Rows)'
<1>1. \A r \in 1..Len(Rows') :
        \/ Rows'[r].kind \notin {"ai_callback_input", "ai_callback_result"}
        \/ r \in 1..Len(Rows) /\ Rows'[r] = Rows[r]
  <2>1. PICK m \in Nat, n \in Nat : m = Len(Rows) /\ n = Len(Rows')  BY StateTypes, LenProperties
  <2>2. ASSUME NEW r \in 1..n PROVE r \in 1..m \/ r \in (m + 1)..n  BY <2>1
  <2>3. \A i \in 1..m : Rows'[i] = Rows[i]  BY <2>1 DEF Extends
  <2>. QED  BY <2>1, <2>2, <2>3
<1>2. ASSUME NEW r \in 1..Len(Rows'), NEW q \in 1..Len(Rows'), Rows'[r].cid = Rows'[q].cid
      PROVE  /\ Rows'[r].kind = Rows'[q].kind
                  /\ Rows'[r].kind \in {"ai_callback_input", "ai_callback_result"} => r = q
             /\ Rows'[r].kind = "ai_callback_input" /\ Rows'[q].kind = "ai_callback_result" => r < q
  BY <1>1, <1>2 DEF Apart
<1>. QED  BY <1>2 DEF Apart

-----------------------------------------------------------------------------
(* The native game asks.                                                    *)

LEMMA AsksInv ==
  ASSUME CaptureInv, Asks
  PROVE  CaptureInv'
<1>i. CaptureTypeOK /\ PlayedOK /\ WrittenOK /\ EvidenceOK  BY DEF CaptureInv
<1>p. GymOK /\ CallsOK /\ HeldOK /\ BootOK /\ OverOK  BY <1>i DEF PlayedOK
<1>t. /\ calls \in Seq(Callback) /\ Len(calls) \in Nat /\ Len(Rows) \in Nat /\ Rows \in Seq(SourceRow)
      /\ native \in NativeGame
  BY <1>i, StateTypes DEF CaptureTypeOK
<1>1. PICK d, n, call, input :
        /\ d \in Nat /\ n \in Nat /\ d = Len(calls) + 1 /\ n = Len(Rows) + 1
        /\ call = [seat |-> recording.asks[Turn].seat, kind |-> recording.asks[Turn].kind,
                   status |-> "asked", choice |-> None]
        /\ input = [Row("ai_callback_input") EXCEPT !.cid = Len(calls) + 1,
                      !.seat = recording.asks[Turn].seat, !.state = Digest(native.held)]
  <2>1. Len(calls) + 1 \in Nat /\ Len(Rows) + 1 \in Nat  BY <1>t
  <2>. QED  BY <2>1
<1>2. /\ native.up /\ ~native.over /\ Asked = {}
      /\ calls' = Append(calls, call)
      /\ native' = [native EXCEPT !.queue = native.queue \o <<input>>]
      /\ UNCHANGED <<recording, source, imported, gym, evidence>>
  BY <1>1 DEF Asks, Playing, Queued
<1>3. Turn \in 1..Len(recording.asks)
  <2>1. {i \in 1..Len(native.held) : native.held[i].seat # Human} \in SUBSET (1..Len(native.held))
    OBVIOUS
  <2>2. Len(native.held) \in Nat  BY <1>i, StateTypes
  <2>3. IsFiniteSet(1..Len(native.held))  BY <2>2, FS_Interval
  <2>4. Cardinality({i \in 1..Len(native.held) : native.held[i].seat # Human}) \in Nat
    BY <2>1, <2>3, FS_Subset, FS_CardinalityType
  <2>5. Turn \in Nat \ {0}  BY <2>4 DEF Turn
  <2>6. recording.asks \in Seq([seat : Seats, kind : CallbackKinds])
    BY <1>i, RecordingAssumption DEF CaptureTypeOK
  <2>. QED  BY <2>5, <2>6 DEF Asks
<1>4. call \in Callback /\ call.status = "asked" /\ call.choice = None
  BY <1>1, <1>3, <1>i, AsksAreTyped, HumanIsNoSeat DEF Callback, Status
<1>5. input \in SourceRow /\ input.kind = "ai_callback_input" /\ input.cid = d /\ input.seat = call.seat
  <2>1. Digest(native.held) \in Seq(Moved)  BY <1>i, StateTypes, DigestOf
  <2>2. recording.asks[Turn].seat \in Players  BY <1>3, <1>i, AsksAreTyped, HumanIsNoSeat
  <2>3. <<>> \in Seq(Moved)  OBVIOUS
  <2>. QED  BY <1>1, <2>1, <2>2, <2>3, HumanIsNoSeat DEF SourceRow, Row, RowKinds
<1>6. /\ calls' \in Seq(Callback) /\ Len(calls') = d /\ calls'[d] = call
      /\ Calls' = Calls \cup {d} /\ d \notin Calls
      /\ \A c \in Calls : calls'[c] = calls[c]
  BY <1>1, <1>2, <1>4, <1>t DEF Calls
<1>n. /\ native'.queue = native.queue \o <<input>>
      /\ native'.held = native.held /\ native'.saved = native.saved /\ native'.up = native.up
      /\ native'.over = native.over /\ native'.gaps = native.gaps /\ native'.downs = native.downs
      /\ native' = [native EXCEPT !.queue = native'.queue]
  BY <1>2, <1>t DEF NativeGame
<1>7. /\ native'.queue \in Seq(SourceRow) /\ Rows' \in Seq(SourceRow)
      /\ Len(Rows') = n /\ Extends(Rows', Rows) /\ Rows'[n] = input
  BY <1>1, <1>2, <1>n, <1>5, <1>i, OneMoreRow
<1>8. CaptureTypeOK'
  <2>1. native' \in NativeGame  BY <1>n, <1>7, <1>t DEF NativeGame
  <2>. QED  BY <2>1, <1>2, <1>6, <1>i DEF CaptureTypeOK
<1>9. CallsKept  BY <1>6 DEF CallsKept
<1>10. GymOK'  BY <1>2, <1>9, <1>i, <1>p, GymStays
<1>11. CallsOK'
  <2>1. ASSUME NEW c \in Calls
        PROVE  /\ calls'[c].status = "taken" =>
                    \E i \in GymRows("seat_callback", c) : calls'[c].choice = Accepted(calls'[c].kind, gym[i].choice)
               /\ calls'[c].status # "taken" => calls'[c].choice = None
    BY <1>6, <1>p DEF CallsOK
  <2>2. \A k, c : GymRows(k, c)' = GymRows(k, c)  BY <1>2 DEF GymRows
  <2>. QED  BY <2>1, <2>2, <1>2, <1>4, <1>6 DEF CallsOK
<1>12. HeldOK' /\ HeldKept  BY <1>n, <1>9, <1>i, <1>p, HeldStays
<1>13. BootOK'
  <2>1. \A c \in Calls' : calls'[c].status \in {"lost", "taken"} => c \in Calls /\ calls'[c] = calls[c]
    BY <1>4, <1>6
  <2>2. \A c : Stands(c)' <=> Stands(c)  BY <1>n DEF Stands
  <2>. QED  BY <2>1, <2>2, <1>2, <1>n, <1>p DEF BootOK
<1>14. OverOK'
  <2>1. \A i \in 1..Len(Rows) : Rows[i].kind \notin EndOfGame  BY <1>2, <1>p, NotOver
  <2>2. \A i \in 1..Len(Rows') : i = n \/ (i \in 1..Len(Rows) /\ Rows'[i] = Rows[i])
    BY <1>1, <1>7, <1>t DEF Extends
  <2>3. \A i \in 1..Len(Rows') : Rows'[i].kind \notin EndOfGame
    BY <2>1, <2>2, <1>5, <1>7 DEF EndOfGame
  <2>. QED  BY <2>3, <1>2, <1>n DEF OverOK
<1>15. WrittenOK'
  <2>1. SUFFICES ASSUME native.gaps = 0 PROVE RowsOK' /\ LineOK' /\ ShownOK'
    BY <1>n DEF WrittenOK
  <2>2. RowsOK /\ LineOK /\ ShownOK  BY <2>1, <1>i DEF WrittenOK
  <2>3. \A r \in 1..Len(Rows') : r = n \/ (r \in 1..Len(Rows) /\ Rows'[r] = Rows[r])
    BY <1>1, <1>7, <1>t DEF Extends
  <2>4. RowsOK'
    <3>1. \A r \in 1..Len(Rows) : RowOK(Rows, r)'  BY <2>2, <1>7, <1>9, <1>12, <1>i, OldRows
    <3>2. RowOK(Rows, n)'  BY <1>5, <1>6, <1>7 DEF RowOK
    <3>3. \A r \in 1..Len(Rows) : Rows[r].kind \in {"ai_callback_input", "ai_callback_result"} =>
            Rows[r].cid # d
      <4>1. TAKE r \in 1..Len(Rows)
      <4>2. RowOK(Rows, r)  BY <2>2 DEF RowsOK
      <4>. QED  BY <4>2, <1>6 DEF RowOK, ResultOK
    <3>4. Apart(Rows)'
      <4>1. Apart(Rows)  BY <2>2 DEF RowsOK
      <4>2. \A r \in 1..Len(Rows) : r < n /\ r # n /\ r \in Nat  BY <1>1, <1>t
      <4>3. ASSUME NEW r \in 1..Len(Rows'), NEW q \in 1..Len(Rows'), Rows'[r].cid = Rows'[q].cid
            PROVE  /\ Rows'[r].kind = Rows'[q].kind
                        /\ Rows'[r].kind \in {"ai_callback_input", "ai_callback_result"} => r = q
                   /\ Rows'[r].kind = "ai_callback_input" /\ Rows'[q].kind = "ai_callback_result" => r < q
        <5>1. CASE r # n /\ q # n  BY <5>1, <4>1, <4>3, <2>3 DEF Apart
        <5>2. CASE r = n /\ q # n  BY <5>2, <4>3, <3>3, <2>3, <1>5, <1>7
        <5>3. CASE r # n /\ q = n  BY <5>3, <4>3, <3>3, <2>3, <1>5, <1>7
        <5>4. CASE r = n /\ q = n  BY <5>4, <1>5, <1>7
        <5>. QED  BY <5>1, <5>2, <5>3, <5>4
      <4>. QED  BY <4>3 DEF Apart
    <3>. QED  BY <3>1, <3>2, <3>4, <2>3 DEF RowsOK
  <2>5. LineOK'  BY <2>2, <1>1, <1>2, <1>n, <1>5, <1>7, <1>i, QuietRow
  <2>6. ShownOK'
    <3>1. native.downs > 0 => \E i \in 1..Len(Rows') : Rows'[i].kind = "resume"
      BY <2>2, <1>2, <1>7, <1>i, RestartShows DEF ShownOK
    <3>2. ASSUME native.downs = 0 PROVE FirstBoot' /\ \A c \in Calls' : CallShown(c)'
      <4>0. FirstBoot /\ \A c \in Calls : CallShown(c)  BY <3>2, <2>2 DEF ShownOK
      <4>1. FirstBoot'
        <5>1. \A i \in (Len(Rows) + 1)..Len(Rows') : i = n  BY <1>1, <1>7, <1>t
        <5>. QED  BY <5>1, <4>0, <1>5, <1>7, <1>i, BootContinues
      <4>2. ASSUME NEW c \in Calls PROVE CallShown(c)'
        <5>1. CallShown(c) /\ calls'[c] = calls[c]  BY <4>0, <1>6
        <5>. QED  BY <5>1, <1>7, <1>i, ShownStays DEF CallShown
      <4>3. CallShown(d)'
        <5>1. n \in 1..Len(Rows')  BY <1>1, <1>7, <1>t
        <5>2. Shown("ai_callback_input", d)'  BY <5>1, <1>5, <1>7 DEF Shown
        <5>. QED  BY <5>2, <1>4, <1>6 DEF CallShown
      <4>. QED  BY <4>1, <4>2, <4>3, <1>6
    <3>. QED  BY <3>1, <3>2, <1>n DEF ShownOK
  <2>. QED  BY <2>4, <2>5, <2>6
<1>16. EvidenceOK'
  <2>1. evidence.made = "no"  BY <1>2, <1>i, <1>p, SealedIdle
  <2>. QED  BY <2>1, <1>2, StillOpen
<1>. QED  BY <1>8, <1>10, <1>11, <1>12, <1>13, <1>14, <1>15, <1>16 DEF CaptureInv, PlayedOK

-----------------------------------------------------------------------------
(* An answer in time.                                                       *)

\* A move is added to the game.
LEMMA MoveAdded ==
  ASSUME CaptureTypeOK, HeldOK, NEW m \in HeldMove, native'.held = Append(native.held, m)
  PROVE  /\ native'.held \in Seq(HeldMove) /\ Len(native'.held) = Len(native.held) + 1
         /\ Len(native.held) \in Nat
         /\ native'.held[Len(native.held) + 1] = m
         /\ \A i \in 1..Len(native'.held) : i = Len(native.held) + 1
              \/ (i \in 1..Len(native.held) /\ native'.held[i] = native.held[i])
         /\ \A c : Stands(c) => Stands(c)'
         /\ \A c : Stands(c)' => Stands(c) \/ c = m.cid
         /\ Stands(m.cid)'
<1>1. native.held \in Seq(HeldMove) /\ Len(native.held) \in Nat  BY StateTypes
<1>2. /\ native'.held \in Seq(HeldMove) /\ Len(native'.held) = Len(native.held) + 1
      /\ native'.held[Len(native.held) + 1] = m
      /\ \A i \in 1..Len(native.held) : native'.held[i] = native.held[i]
  BY <1>1
<1>3. \A i \in 1..Len(native'.held) : i = Len(native.held) + 1
        \/ (i \in 1..Len(native.held) /\ native'.held[i] = native.held[i])
  BY <1>1, <1>2
<1>4. \A i \in 1..Len(native.held) : i \in 1..Len(native'.held)  BY <1>1, <1>2
<1>5. \A c : Stands(c) => Stands(c)'  BY <1>2, <1>4 DEF Stands
<1>6. \A c : Stands(c)' => Stands(c) \/ c = m.cid  BY <1>2, <1>3 DEF Stands
<1>7. Len(native.held) + 1 \in 1..Len(native'.held)  BY <1>1, <1>2
<1>8. Stands(m.cid)'  BY <1>2, <1>7 DEF Stands
<1>. QED  BY <1>1, <1>2, <1>3, <1>5, <1>6, <1>8

\* The last entry of the state a move leads to.
LEMMA MoveState ==
  ASSUME CaptureTypeOK, NEW m \in HeldMove
  PROVE  /\ Digest(native.held) \in Seq(Moved) /\ <<m.seat, m.choice>> \in Moved
         /\ Digest(Append(native.held, m)) = Append(Digest(native.held), <<m.seat, m.choice>>)
         /\ Digest(Append(native.held, m)) \in Seq(Moved)
         /\ Len(Digest(Append(native.held, m))) = Len(native.held) + 1
         /\ Digest(Append(native.held, m))[Len(native.held) + 1] = <<m.seat, m.choice>>
<1>1. native.held \in Seq(HeldMove)  BY StateTypes
<1>2. Digest(native.held) \in Seq(Moved) /\ Len(Digest(native.held)) = Len(native.held)  BY <1>1, DigestOf
<1>3. /\ <<m.seat, m.choice>> \in Moved
      /\ Digest(Append(native.held, m)) = Append(Digest(native.held), <<m.seat, m.choice>>)
  BY <1>1, DigestGrows
<1>4. /\ Append(Digest(native.held), <<m.seat, m.choice>>) \in Seq(Moved)
      /\ Len(Append(Digest(native.held), <<m.seat, m.choice>>)) = Len(native.held) + 1
      /\ Append(Digest(native.held), <<m.seat, m.choice>>)[Len(native.held) + 1] = <<m.seat, m.choice>>
  BY <1>2, <1>3, AppendProperties
<1>. QED  BY <1>2, <1>3, <1>4

LEMMA TransitionIs ==
  ASSUME CaptureTypeOK, NEW m \in HeldMove
  PROVE  /\ Transition(m) \in SourceRow /\ Transition(m).kind = "native_transition"
         /\ Transition(m).before = Digest(native.held)
         /\ Transition(m).state = Digest(Append(native.held, m)) /\ Transition(m).choice = m.choice
<1>1. <<>> \in Seq(Moved) /\ m.choice \in Words  BY DEF HeldMove
<1>. QED  BY <1>1, MoveState, HumanIsNoSeat DEF Transition, Row, SourceRow, RowKinds

\* A call that waits stands nowhere yet.
LEMMA AskedStandsNowhere ==
  ASSUME CaptureTypeOK, HeldOK, NEW c \in Asked
  PROVE  ~Stands(c)
<1>1. c \in Calls /\ calls[c].status = "asked" /\ c # 0  BY DEF Asked, Calls
<1>2. ASSUME NEW i \in 1..Len(native.held), native.held[i].cid = c PROVE FALSE
  <2>1. MoveOK(native.held[i])  BY DEF HeldOK
  <2>. QED  BY <2>1, <1>1, <1>2 DEF MoveOK
<1>. QED  BY <1>2 DEF Stands

LEMMA TakesAnswerInv ==
  ASSUME CaptureInv, NEW c \in Calls, TakesAnswer(c)
  PROVE  CaptureInv'
<1>i. CaptureTypeOK /\ PlayedOK /\ WrittenOK /\ EvidenceOK  BY DEF CaptureInv
<1>p. GymOK /\ CallsOK /\ HeldOK /\ BootOK /\ OverOK  BY <1>i DEF PlayedOK
<1>t. /\ calls \in Seq(Callback) /\ Len(calls) \in Nat /\ Len(Rows) \in Nat /\ Rows \in Seq(SourceRow)
      /\ native \in NativeGame
  BY <1>i, StateTypes DEF CaptureTypeOK
<1>0. c \in Asked /\ ~native.over  BY <1>p DEF TakesAnswer, Asked, OverOK
<1>1. PICK i \in 1..Len(gym) :
        /\ gym[i].kind = "seat_callback" /\ gym[i].cid = c
        /\ LET m == Move(c, calls[c].seat, Accepted(calls[c].kind, gym[i].choice))
               taken == [CallRow("ai_callback_result", c) EXCEPT !.choice = m.choice]
           IN /\ native' = [native EXCEPT !.held = Append(@, m), !.queue = Queued(<<Transition(m), taken>>)]
              /\ calls' = [calls EXCEPT ![c].status = "taken", ![c].choice = m.choice]
  BY DEF TakesAnswer
<1>2. PICK n, w, m, x, y :
        /\ n \in Nat /\ n = Len(Rows) + 1 /\ w = Accepted(calls[c].kind, gym[i].choice)
        /\ m = [cid |-> c, seat |-> calls[c].seat, choice |-> w]
        /\ x = Transition(m) /\ y = [CallRow("ai_callback_result", c) EXCEPT !.choice = w]
  <2>1. Len(Rows) + 1 \in Nat  BY <1>t
  <2>. QED  BY <2>1
<1>3. /\ native.up /\ calls[c].status = "asked"
      /\ native' = [native EXCEPT !.held = Append(native.held, m), !.queue = native.queue \o <<x, y>>]
      /\ calls' = [calls EXCEPT ![c].status = "taken", ![c].choice = w]
      /\ UNCHANGED <<recording, source, imported, gym, evidence>>
  BY <1>1, <1>2 DEF TakesAnswer, Move, Queued
<1>4. w \in Wordings /\ w # None /\ w \in Words /\ calls[c].seat \in Seats /\ calls[c].seat \in Players
  <2>1. PICK p \in Picks : gym[i].choice = Choice(calls[c].kind, p)  BY <1>1, <1>p DEF GymOK
  <2>. QED  BY <2>1, <1>2, <1>i, CallTypes, ChoiceTypes, HumanIsNoSeat DEF Words
<1>5. m \in HeldMove /\ m.cid = c /\ m.seat = calls[c].seat /\ m.choice = w
  BY <1>2, <1>4, <1>i, CallTypes DEF HeldMove
<1>6. /\ x \in SourceRow /\ x.kind = "native_transition" /\ x.choice = w
      /\ x.before = Digest(native.held) /\ x.state = Digest(Append(native.held, m))
  BY <1>2, <1>5, <1>i, TransitionIs
<1>7. /\ y \in SourceRow /\ y.kind = "ai_callback_result" /\ y.cid = c
      /\ y.seat = calls[c].seat /\ y.choice = w
  <2>1. <<>> \in Seq(Moved)  OBVIOUS
  <2>. QED  BY <2>1, <1>2, <1>4, <1>i, CallTypes, HumanIsNoSeat DEF CallRow, Row, SourceRow, RowKinds
<1>8. /\ calls' \in Seq(Callback) /\ Len(calls') = Len(calls) /\ Calls' = Calls
      /\ \A d \in Calls : d # c => calls'[d] = calls[d]
      /\ calls'[c].status = "taken" /\ calls'[c].choice = w
      /\ calls'[c].seat = calls[c].seat /\ calls'[c].kind = calls[c].kind
  <2>1. [calls[c] EXCEPT !.status = "taken", !.choice = w] \in Callback
    BY <1>4, <1>i, CallTypes DEF Callback, Status
  <2>2. calls' = [calls EXCEPT ![c] = [calls[c] EXCEPT !.status = "taken", !.choice = w]]
    BY <1>3, <1>t DEF Callback
  <2>3. calls[c] \in Callback  BY <1>i, CallTypes
  <2>. QED  BY <2>1, <2>2, <2>3, <1>t DEF Calls, Callback
<1>n. /\ native'.queue = native.queue \o <<x, y>> /\ native'.held = Append(native.held, m)
      /\ native'.saved = native.saved /\ native'.up = native.up
      /\ native'.over = native.over /\ native'.gaps = native.gaps /\ native'.downs = native.downs
      /\ native' = [native EXCEPT !.held = native'.held, !.queue = native'.queue]
  BY <1>3, <1>t DEF NativeGame
<1>9. /\ native'.queue \in Seq(SourceRow) /\ Rows' \in Seq(SourceRow)
      /\ Len(Rows') = n + 1 /\ Extends(Rows', Rows) /\ Rows'[n] = x /\ Rows'[n + 1] = y
  <2>1. /\ native'.queue \in Seq(SourceRow) /\ Rows' \in Seq(SourceRow)
        /\ Len(Rows') = Len(Rows) + 2 /\ Extends(Rows', Rows)
        /\ Rows'[Len(Rows) + 1] = x /\ Rows'[Len(Rows) + 2] = y
    BY <1>3, <1>n, <1>6, <1>7, <1>i, TwoMoreRows
  <2>2. n + 1 = Len(Rows) + 2 /\ n = Len(Rows) + 1  BY <1>2, <1>t
  <2>. QED  BY <2>1, <2>2
<1>a. /\ n = Len(Rows) + 1 /\ Len(Rows') = n + 1 /\ Len(Rows) \in Nat
      /\ \A r \in 1..Len(Rows) : Rows'[r] = Rows[r]
  BY <1>2, <1>9, <1>t DEF Extends
<1>10. CaptureTypeOK'
  <2>1. native'.held \in Seq(HeldMove)  BY <1>n, <1>5, <1>i, <1>p, MoveAdded
  <2>2. native' \in NativeGame  BY <2>1, <1>n, <1>9, <1>t DEF NativeGame
  <2>. QED  BY <2>2, <1>3, <1>8, <1>i DEF CaptureTypeOK
<1>11. CallsKept  BY <1>3, <1>8 DEF CallsKept
<1>12. GymOK'  BY <1>3, <1>11, <1>i, <1>p, GymStays
<1>13. CallsOK'
  <2>1. \A k, d : GymRows(k, d)' = GymRows(k, d)  BY <1>3 DEF GymRows
  <2>2. i \in GymRows("seat_callback", c)  BY <1>1 DEF GymRows
  <2>3. calls'[c].choice = Accepted(calls'[c].kind, gym[i].choice)  BY <1>2, <1>8
  <2>4. ASSUME NEW d \in Calls, d # c
        PROVE  /\ calls'[d].status = "taken" =>
                    \E j \in GymRows("seat_callback", d) : calls'[d].choice = Accepted(calls'[d].kind, gym[j].choice)
               /\ calls'[d].status # "taken" => calls'[d].choice = None
    BY <2>4, <1>8, <1>p DEF CallsOK
  <2>5. \A d \in Calls :
          /\ calls'[d].status = "taken" =>
               \E j \in GymRows("seat_callback", d) : calls'[d].choice = Accepted(calls'[d].kind, gym[j].choice)
          /\ calls'[d].status # "taken" => calls'[d].choice = None
    BY <2>2, <2>3, <2>4, <1>8
  <2>6. gym' = gym /\ Calls' = Calls  BY <1>3, <1>8
  <2>. QED  BY ONLY <2>1, <2>5, <2>6 DEF CallsOK
<1>h. /\ \A j \in 1..Len(native'.held) : j = Len(native.held) + 1
           \/ (j \in 1..Len(native.held) /\ native'.held[j] = native.held[j])
      /\ native'.held[Len(native.held) + 1] = m
      /\ \A d : Stands(d) => Stands(d)'
      /\ Stands(c)'
  BY <1>n, <1>5, <1>i, <1>p, MoveAdded
<1>14. HeldOK'
  <2>1. MoveOK(m)'  BY <1>5, <1>8, <1>i, CallTypes DEF MoveOK
  <2>2. \A j \in 1..Len(native.held) : MoveOK(native.held[j])  BY <1>p DEF HeldOK
  <2>. QED  BY <2>1, <2>2, <1>h, <1>11, <1>i, MovesStay DEF HeldOK
<1>15. HeldKept
  <2>1. ASSUME NEW d \in Calls, calls[d].status = "taken",
               NEW j \in 1..Len(native'.held), native'.held[j].cid = d
        PROVE  j \in 1..Len(native.held) /\ native.held[j].cid = d
    BY <2>1, <1>h, <1>5, <1>3
  <2>. QED  BY <2>1 DEF HeldKept
<1>16. BootOK'
  <2>1. \A d \in Calls' : calls'[d].status = "lost" => calls[d].status = "lost"  BY <1>8
  <2>2. ASSUME NEW d \in Calls', calls'[d].status = "taken", native'.downs = 0 PROVE Stands(d)'
    <3>1. CASE d = c  BY <3>1, <1>h
    <3>2. CASE d # c  BY <3>2, <2>2, <1>8, <1>n, <1>h, <1>p DEF BootOK
    <3>. QED  BY <3>1, <3>2
  <2>. QED  BY <2>1, <2>2, <1>3, <1>8, <1>n, <1>p DEF BootOK
<1>r. \A r \in 1..Len(Rows') : r = n \/ r = n + 1 \/ (r \in 1..Len(Rows) /\ Rows'[r] = Rows[r])
  BY <1>a
<1>17. OverOK'
  <2>1. \A j \in 1..Len(Rows) : Rows[j].kind \notin EndOfGame  BY <1>0, <1>p, NotOver
  <2>2. \A j \in 1..Len(Rows') : Rows'[j].kind \notin EndOfGame
    BY <2>1, <1>r, <1>6, <1>7, <1>9 DEF EndOfGame
  <2>. QED  BY <2>2, <1>0, <1>n DEF OverOK
<1>18. WrittenOK'
  <2>1. SUFFICES ASSUME native.gaps = 0 PROVE RowsOK' /\ LineOK' /\ ShownOK'
    BY <1>n DEF WrittenOK
  <2>2. RowsOK /\ LineOK /\ ShownOK  BY <2>1, <1>i DEF WrittenOK
  <2>3. /\ Digest(native.held) \in Seq(Moved) /\ <<calls[c].seat, w>> \in Moved
        /\ x.state = Append(x.before, <<calls[c].seat, w>>)
        /\ Len(x.state) = Len(native.held) + 1 /\ x.state[Len(native.held) + 1] = <<calls[c].seat, w>>
    BY <1>5, <1>6, <1>i, MoveState
  <2>4. RowsOK'
    <3>1. \A r \in 1..Len(Rows) : RowOK(Rows, r)'  BY <2>2, <1>9, <1>11, <1>15, <1>i, OldRows
    <3>2. RowOK(Rows, n)'
      <4>1. StepOK(Rows, n)'  BY <2>3, <1>4, <1>6, <1>9 DEF StepOK
      <4>. QED  BY <4>1, <1>6, <1>9 DEF RowOK
    <3>3. RowOK(Rows, n + 1)'
      <4>1. \A j \in 1..Len(native'.held) : native'.held[j].cid = c => j = Len(native.held) + 1
        <5>1. ~Stands(c)  BY <1>0, <1>i, <1>p, AskedStandsNowhere
        <5>. QED  BY <5>1, <1>h DEF Stands
      <4>2. (n + 1) - 1 = n /\ n + 1 > 1  BY <1>2, <1>t
      <4>3. ResultOK(Rows, n + 1)'
        BY <4>1, <4>2, <2>3, <1>6, <1>7, <1>8, <1>9 DEF ResultOK
      <4>. QED  BY <4>3, <1>7, <1>9 DEF RowOK
    <3>4. Apart(Rows)'
      <4>1. Apart(Rows)  BY <2>2 DEF RowsOK
      <4>2. \A r \in 1..Len(Rows) : Rows[r].kind = "ai_callback_result" => Rows[r].cid # c
        <5>1. TAKE r \in 1..Len(Rows)
        <5>2. RowOK(Rows, r)  BY <2>2 DEF RowsOK
        <5>. QED  BY <5>2, <1>3 DEF RowOK, ResultOK
      <4>3. \A r \in 1..Len(Rows) : r < n + 1 /\ r # n /\ r # n + 1 /\ r \in Nat  BY <1>2, <1>t
      <4>4. ASSUME NEW r \in 1..Len(Rows'), NEW q \in 1..Len(Rows'), Rows'[r].cid = Rows'[q].cid
            PROVE  /\ Rows'[r].kind = Rows'[q].kind
                        /\ Rows'[r].kind \in {"ai_callback_input", "ai_callback_result"} => r = q
                   /\ Rows'[r].kind = "ai_callback_input" /\ Rows'[q].kind = "ai_callback_result" => r < q
        <5>1. CASE r = n \/ q = n  BY <5>1, <1>6, <1>9
        <5>2. CASE r \in 1..Len(Rows) /\ q \in 1..Len(Rows)
          BY <5>2, <4>1, <4>3, <4>4, <1>r DEF Apart
        <5>3. CASE r = n + 1 /\ q \in 1..Len(Rows)  BY <5>3, <4>2, <4>3, <4>4, <1>r, <1>7, <1>9
        <5>4. CASE r \in 1..Len(Rows) /\ q = n + 1  BY <5>4, <4>2, <4>3, <4>4, <1>r, <1>7, <1>9
        <5>5. CASE r = n + 1 /\ q = n + 1  BY <5>5, <1>7, <1>9
        <5>. QED  BY <5>1, <5>2, <5>3, <5>4, <5>5, <1>r
      <4>. QED  BY <4>4 DEF Apart
    <3>. QED  BY <3>1, <3>2, <3>3, <3>4, <1>r DEF RowsOK
  <2>5. LineOK'
    <3>1. n \in (Len(Rows) + 1)..Len(Rows') /\ Len(Rows') <= Len(Rows) + 2  BY <1>2, <1>9, <1>t
    <3>2. \A j \in (Len(Rows) + 1)..Len(Rows') : j # n => Rows'[j].kind # "native_transition"
      <4>1. \A j \in (Len(Rows) + 1)..Len(Rows') : j = n \/ j = n + 1  BY <1>a
      <4>. QED  BY <4>1, <1>7, <1>9
    <3>. QED  BY <3>1, <3>2, <2>2, <1>3, <1>n, <1>6, <1>9, <1>i, MoveRow
  <2>6. ShownOK'
    <3>1. native.downs > 0 => \E j \in 1..Len(Rows') : Rows'[j].kind = "resume"
      BY <2>2, <1>3, <1>9, <1>i, RestartShows DEF ShownOK
    <3>2. ASSUME native.downs = 0 PROVE FirstBoot' /\ \A d \in Calls' : CallShown(d)'
      <4>0. FirstBoot /\ \A d \in Calls : CallShown(d)  BY <3>2, <2>2 DEF ShownOK
      <4>1. FirstBoot'
        <5>1. \A j \in (Len(Rows) + 1)..Len(Rows') : j = n \/ j = n + 1  BY <1>2, <1>9, <1>t
        <5>. QED  BY <5>1, <4>0, <1>6, <1>7, <1>9, <1>i, BootContinues
      <4>2. ASSUME NEW d \in Calls, d # c PROVE CallShown(d)'
        <5>1. CallShown(d) /\ calls'[d] = calls[d]  BY <4>0, <4>2, <1>8
        <5>. QED  BY <5>1, <1>9, <1>i, ShownStays DEF CallShown
      <4>3. CallShown(c)'
        <5>1. n + 1 \in 1..Len(Rows')  BY <1>2, <1>9, <1>t
        <5>2. Shown("ai_callback_result", c)'  BY <5>1, <1>7, <1>9 DEF Shown
        <5>3. Shown("ai_callback_input", c)'  BY <4>0, <1>9, <1>i, ShownStays DEF CallShown
        <5>. QED  BY <5>2, <5>3, <1>8 DEF CallShown
      <4>. QED  BY <4>1, <4>2, <4>3, <1>8
    <3>. QED  BY <3>1, <3>2, <1>n DEF ShownOK
  <2>. QED  BY <2>4, <2>5, <2>6
<1>19. EvidenceOK'
  <2>1. evidence.made = "no"  BY <1>0, <1>i, <1>p, SealedIdle
  <2>. QED  BY <2>1, <1>3, StillOpen
<1>. QED  BY <1>10, <1>12, <1>13, <1>14, <1>16, <1>17, <1>18, <1>19 DEF CaptureInv, PlayedOK

-----------------------------------------------------------------------------
(* The native game moves for a seat, a human moves, the game ends.          *)

LEMMA GivesUpInv ==
  ASSUME CaptureInv, NEW c \in Calls, GivesUp(c)
  PROVE  CaptureInv'
<1>i. CaptureTypeOK /\ PlayedOK /\ WrittenOK /\ EvidenceOK  BY DEF CaptureInv
<1>p. GymOK /\ CallsOK /\ HeldOK /\ BootOK /\ OverOK  BY <1>i DEF PlayedOK
<1>t. /\ calls \in Seq(Callback) /\ Len(calls) \in Nat /\ Len(Rows) \in Nat /\ Rows \in Seq(SourceRow)
      /\ native \in NativeGame
  BY <1>i, StateTypes DEF CaptureTypeOK
<1>0. c \in Asked /\ ~native.over /\ calls[c].status = "asked"  BY <1>p DEF GivesUp, Asked, OverOK
<1>1. PICK n, m, x, y :
        /\ n \in Nat /\ n = Len(Rows) + 1
        /\ m = [cid |-> c, seat |-> calls[c].seat, choice |-> None]
        /\ x = CallRow("ai_callback_disposition", c) /\ y = Transition(m)
  <2>1. Len(Rows) + 1 \in Nat  BY <1>t
  <2>. QED  BY <2>1
<1>2. /\ native.up
      /\ native' = [native EXCEPT !.held = Append(native.held, m), !.queue = native.queue \o <<x, y>>]
      /\ calls' = [calls EXCEPT ![c].status = "given up"]
      /\ UNCHANGED <<recording, source, imported, gym, evidence>>
  BY <1>1 DEF GivesUp, Move, Queued
<1>4. calls[c].choice = None /\ calls[c].seat \in Seats /\ calls[c].seat \in Players
  BY <1>0, <1>p, <1>i, CallTypes, HumanIsNoSeat DEF CallsOK
<1>5. m \in HeldMove /\ m.cid = c /\ m.seat = calls[c].seat /\ m.choice = None
  BY <1>1, <1>4, <1>i, CallTypes, HumanIsNoSeat DEF HeldMove
<1>6. /\ y \in SourceRow /\ y.kind = "native_transition" /\ y.choice = None
      /\ y.before = Digest(native.held) /\ y.state = Digest(Append(native.held, m))
  BY <1>1, <1>5, <1>i, TransitionIs
<1>7. x \in SourceRow /\ x.kind = "ai_callback_disposition" /\ x.cid = c
  <2>1. <<>> \in Seq(Moved)  OBVIOUS
  <2>. QED  BY <2>1, <1>1, <1>4, <1>i, CallTypes, HumanIsNoSeat DEF CallRow, Row, SourceRow, RowKinds
<1>8. /\ calls' \in Seq(Callback) /\ Len(calls') = Len(calls) /\ Calls' = Calls
      /\ \A d \in Calls : d # c => calls'[d] = calls[d]
      /\ calls'[c].status = "given up" /\ calls'[c].choice = None
      /\ calls'[c].seat = calls[c].seat /\ calls'[c].kind = calls[c].kind
  <2>1. PICK e : e = [calls[c] EXCEPT !.status = "given up"]  OBVIOUS
  <2>2. calls[c] \in Callback  BY <1>i, CallTypes
  <2>3. /\ e \in Callback /\ e.status = "given up" /\ e.choice = None
        /\ e.seat = calls[c].seat /\ e.kind = calls[c].kind
    BY <2>1, <2>2, <1>4 DEF Callback, Status
  <2>4. calls' = [calls EXCEPT ![c] = e]  BY <1>2, <2>1
  <2>5. /\ calls' \in Seq(Callback) /\ Len(calls') = Len(calls) /\ calls'[c] = e
        /\ \A d \in 1..Len(calls) : d # c => calls'[d] = calls[d]
    <3>1. c \in 1..Len(calls) /\ calls \in Seq(Callback) /\ e \in Callback  BY <1>t, <2>3 DEF Calls
    <3>2. /\ [calls EXCEPT ![c] = e] \in Seq(Callback) /\ Len([calls EXCEPT ![c] = e]) = Len(calls)
          /\ \A d \in 1..Len(calls) : [calls EXCEPT ![c] = e][d] = IF d = c THEN e ELSE calls[d]
      BY ONLY <3>1, ExceptSeq
    <3>. QED  BY ONLY <3>1, <3>2, <2>4
  <2>. QED  BY <2>3, <2>5 DEF Calls
<1>n. /\ native'.queue = native.queue \o <<x, y>> /\ native'.held = Append(native.held, m)
      /\ native'.saved = native.saved /\ native'.up = native.up
      /\ native'.over = native.over /\ native'.gaps = native.gaps /\ native'.downs = native.downs
      /\ native' = [native EXCEPT !.held = native'.held, !.queue = native'.queue]
  BY <1>2, <1>t DEF NativeGame
<1>9. /\ native'.queue \in Seq(SourceRow) /\ Rows' \in Seq(SourceRow)
      /\ Len(Rows') = n + 1 /\ Extends(Rows', Rows) /\ Rows'[n] = x /\ Rows'[n + 1] = y
  <2>1. /\ native'.queue \in Seq(SourceRow) /\ Rows' \in Seq(SourceRow)
        /\ Len(Rows') = Len(Rows) + 2 /\ Extends(Rows', Rows)
        /\ Rows'[Len(Rows) + 1] = x /\ Rows'[Len(Rows) + 2] = y
    BY <1>2, <1>n, <1>6, <1>7, <1>i, TwoMoreRows
  <2>2. n + 1 = Len(Rows) + 2 /\ n = Len(Rows) + 1  BY <1>1, <1>t
  <2>. QED  BY <2>1, <2>2
<1>a. /\ n = Len(Rows) + 1 /\ Len(Rows') = n + 1 /\ Len(Rows) \in Nat
      /\ \A r \in 1..Len(Rows) : Rows'[r] = Rows[r]
  BY <1>1, <1>9, <1>t DEF Extends
<1>10. CaptureTypeOK'
  <2>1. native'.held \in Seq(HeldMove)  BY <1>n, <1>5, <1>i, <1>p, MoveAdded
  <2>2. native' \in NativeGame  BY <2>1, <1>n, <1>9, <1>t DEF NativeGame
  <2>. QED  BY <2>2, <1>2, <1>8, <1>i DEF CaptureTypeOK
<1>11. CallsKept  BY <1>0, <1>8 DEF CallsKept
<1>12. GymOK'  BY <1>2, <1>11, <1>i, <1>p, GymStays
<1>13. CallsOK'
  <2>1. \A k, d : GymRows(k, d)' = GymRows(k, d)  BY <1>2 DEF GymRows
  <2>2. \A d \in Calls :
          /\ calls'[d].status = "taken" =>
               \E j \in GymRows("seat_callback", d) : calls'[d].choice = Accepted(calls'[d].kind, gym[j].choice)
          /\ calls'[d].status # "taken" => calls'[d].choice = None
    BY <1>8, <1>p DEF CallsOK
  <2>3. gym' = gym /\ Calls' = Calls  BY <1>2, <1>8
  <2>. QED  BY ONLY <2>1, <2>2, <2>3 DEF CallsOK
<1>h. /\ \A j \in 1..Len(native'.held) : j = Len(native.held) + 1
           \/ (j \in 1..Len(native.held) /\ native'.held[j] = native.held[j])
      /\ native'.held[Len(native.held) + 1] = m
      /\ \A d : Stands(d) => Stands(d)'
  BY <1>n, <1>5, <1>i, <1>p, MoveAdded
<1>14. HeldOK'
  <2>1. MoveOK(m)'
    <3>1. c # 0  BY DEF Calls
    <3>2. c \in Calls'  BY <1>8
    <3>. QED  BY <3>1, <3>2, <1>5, <1>8 DEF MoveOK
  <2>2. \A j \in 1..Len(native.held) : MoveOK(native.held[j])  BY <1>p DEF HeldOK
  <2>. QED  BY <2>1, <2>2, <1>h, <1>11, <1>i, MovesStay DEF HeldOK
<1>15. HeldKept
  <2>1. ASSUME NEW d \in Calls, calls[d].status = "taken",
               NEW j \in 1..Len(native'.held), native'.held[j].cid = d
        PROVE  j \in 1..Len(native.held) /\ native.held[j].cid = d
    BY <2>1, <1>h, <1>5, <1>0
  <2>. QED  BY <2>1 DEF HeldKept
<1>16. BootOK'
  <2>1. \A d \in Calls' : calls'[d].status \in {"taken", "lost"} => calls[d].status = calls'[d].status
    BY <1>8
  <2>2. \A d \in Calls' : calls'[d].status = "lost" => native'.downs > 0
    BY <2>1, <1>8, <1>n, <1>p DEF BootOK
  <2>3. \A d \in Calls' : calls'[d].status = "taken" /\ native'.downs = 0 => Stands(d)'
    BY <2>1, <1>8, <1>n, <1>h, <1>p DEF BootOK
  <2>. QED  BY <2>2, <2>3, <1>2, <1>n DEF BootOK
<1>r. \A r \in 1..Len(Rows') : r = n \/ r = n + 1 \/ (r \in 1..Len(Rows) /\ Rows'[r] = Rows[r])
  BY <1>a
<1>s. \A r \in (Len(Rows) + 1)..Len(Rows') : r = n \/ r = n + 1  BY <1>a
<1>17. OverOK'
  <2>1. \A j \in 1..Len(Rows) : Rows[j].kind \notin EndOfGame  BY <1>0, <1>p, NotOver
  <2>2. \A j \in 1..Len(Rows') : Rows'[j].kind \notin EndOfGame
    BY <2>1, <1>r, <1>6, <1>7, <1>9 DEF EndOfGame
  <2>. QED  BY <2>2, <1>0, <1>n DEF OverOK
<1>18. WrittenOK'
  <2>1. SUFFICES ASSUME native.gaps = 0 PROVE RowsOK' /\ LineOK' /\ ShownOK'
    BY <1>n DEF WrittenOK
  <2>2. RowsOK /\ LineOK /\ ShownOK  BY <2>1, <1>i DEF WrittenOK
  <2>3. <<calls[c].seat, None>> \in Moved /\ y.state = Append(y.before, <<calls[c].seat, None>>)
    BY <1>5, <1>6, <1>i, MoveState
  <2>4. RowsOK'
    <3>1. \A r \in 1..Len(Rows) : RowOK(Rows, r)'  BY <2>2, <1>9, <1>11, <1>15, <1>i, OldRows
    <3>2. RowOK(Rows, n)'  BY <1>7, <1>8, <1>9 DEF RowOK
    <3>3. RowOK(Rows, n + 1)'
      <4>1. (n + 1) - 1 = n /\ n + 1 > 1  BY <1>1, <1>t
      <4>2. StepOK(Rows, n + 1)'  BY <4>1, <2>3, <1>6, <1>7, <1>9 DEF StepOK
      <4>. QED  BY <4>2, <1>6, <1>9 DEF RowOK
    <3>4. Apart(Rows)'
      <4>1. Apart(Rows)  BY <2>2 DEF RowsOK
      <4>. QED  BY <4>1, <1>s, <1>6, <1>7, <1>9, <1>i, ApartStays
    <3>. QED  BY <3>1, <3>2, <3>3, <3>4, <1>r DEF RowsOK
  <2>5. LineOK'
    <3>1. n + 1 \in (Len(Rows) + 1)..Len(Rows') /\ Len(Rows') <= Len(Rows) + 2  BY <1>a
    <3>2. \A j \in (Len(Rows) + 1)..Len(Rows') : j # n + 1 => Rows'[j].kind # "native_transition"
      BY <1>s, <1>7, <1>9
    <3>. QED  BY <3>1, <3>2, <2>2, <1>2, <1>n, <1>6, <1>9, <1>i, MoveRow
  <2>6. ShownOK'
    <3>1. native.downs > 0 => \E j \in 1..Len(Rows') : Rows'[j].kind = "resume"
      BY <2>2, <1>2, <1>9, <1>i, RestartShows DEF ShownOK
    <3>2. ASSUME native.downs = 0 PROVE FirstBoot' /\ \A d \in Calls' : CallShown(d)'
      <4>0. FirstBoot /\ \A d \in Calls : CallShown(d)  BY <3>2, <2>2 DEF ShownOK
      <4>1. FirstBoot'  BY <1>s, <4>0, <1>6, <1>7, <1>9, <1>i, BootContinues
      <4>2. ASSUME NEW d \in Calls, d # c PROVE CallShown(d)'
        <5>1. CallShown(d) /\ calls'[d] = calls[d]  BY <4>0, <4>2, <1>8
        <5>. QED  BY <5>1, <1>9, <1>i, ShownStays DEF CallShown
      <4>3. CallShown(c)'
        <5>1. n \in 1..Len(Rows')  BY <1>a
        <5>2. Shown("ai_callback_disposition", c)'  BY <5>1, <1>7, <1>9 DEF Shown
        <5>3. Shown("ai_callback_input", c)'  BY <4>0, <1>9, <1>i, ShownStays DEF CallShown
        <5>. QED  BY <5>2, <5>3, <1>8 DEF CallShown
      <4>. QED  BY <4>1, <4>2, <4>3, <1>8
    <3>. QED  BY <3>1, <3>2, <1>n DEF ShownOK
  <2>. QED  BY <2>4, <2>5, <2>6
<1>19. EvidenceOK'
  <2>1. evidence.made = "no"  BY <1>0, <1>i, <1>p, SealedIdle
  <2>. QED  BY <2>1, <1>2, StillOpen
<1>. QED  BY <1>10, <1>12, <1>13, <1>14, <1>16, <1>17, <1>18, <1>19 DEF CaptureInv, PlayedOK

\* Steps that ask and answer nothing.
LEMMA CallsStay ==
  ASSUME CaptureTypeOK, CallsOK, gym' = gym, calls' = calls
  PROVE  CallsOK' /\ CallsKept /\ Calls' = Calls /\ Asked' = Asked
<1>1. \A k, d : GymRows(k, d)' = GymRows(k, d)  BY DEF GymRows
<1>2. Calls' = Calls /\ Asked' = Asked  BY DEF Calls, Asked
<1>3. CallsOK'  BY ONLY <1>1, <1>2, CallsOK, gym' = gym, calls' = calls DEF CallsOK
<1>4. CallsKept  BY <1>2 DEF CallsKept
<1>. QED  BY <1>2, <1>3, <1>4

LEMMA HumanMovesInv ==
  ASSUME CaptureInv, HumanMoves
  PROVE  CaptureInv'
<1>i. CaptureTypeOK /\ PlayedOK /\ WrittenOK /\ EvidenceOK  BY DEF CaptureInv
<1>p. GymOK /\ CallsOK /\ HeldOK /\ BootOK /\ OverOK  BY <1>i DEF PlayedOK
<1>t. /\ Len(Rows) \in Nat /\ Rows \in Seq(SourceRow) /\ native \in NativeGame
  BY <1>i, StateTypes DEF CaptureTypeOK
<1>1. PICK n, m, x :
        n \in Nat /\ n = Len(Rows) + 1 /\ m = [cid |-> 0, seat |-> Human, choice |-> None] /\ x = Transition(m)
  <2>1. Len(Rows) + 1 \in Nat  BY <1>t
  <2>. QED  BY <2>1
<1>2. /\ native.up /\ ~native.over /\ Asked = {}
      /\ native' = [native EXCEPT !.held = Append(native.held, m), !.queue = native.queue \o <<x>>]
      /\ UNCHANGED <<recording, source, imported, gym, calls, evidence>>
  BY <1>1 DEF HumanMoves, Playing, Move, Queued
<1>5. m \in HeldMove /\ m.cid = 0 /\ m.seat = Human /\ m.choice = None
  BY <1>1, HumanIsNoSeat DEF HeldMove
<1>6. /\ x \in SourceRow /\ x.kind = "native_transition" /\ x.choice = None
      /\ x.before = Digest(native.held) /\ x.state = Digest(Append(native.held, m))
  BY <1>1, <1>5, <1>i, TransitionIs
<1>n. /\ native'.queue = native.queue \o <<x>> /\ native'.held = Append(native.held, m)
      /\ native'.saved = native.saved /\ native'.up = native.up
      /\ native'.over = native.over /\ native'.gaps = native.gaps /\ native'.downs = native.downs
      /\ native' = [native EXCEPT !.held = native'.held, !.queue = native'.queue]
  BY <1>2, <1>t DEF NativeGame
<1>9. /\ native'.queue \in Seq(SourceRow) /\ Rows' \in Seq(SourceRow)
      /\ Len(Rows') = n /\ Extends(Rows', Rows) /\ Rows'[n] = x
  BY <1>1, <1>2, <1>n, <1>6, <1>i, OneMoreRow
<1>a. /\ n = Len(Rows) + 1 /\ Len(Rows') = n /\ Len(Rows) \in Nat
      /\ \A r \in 1..Len(Rows) : Rows'[r] = Rows[r]
  BY <1>1, <1>9, <1>t DEF Extends
<1>10. CaptureTypeOK'
  <2>1. native'.held \in Seq(HeldMove)  BY <1>n, <1>5, <1>i, <1>p, MoveAdded
  <2>2. native' \in NativeGame  BY <2>1, <1>n, <1>9, <1>t DEF NativeGame
  <2>. QED  BY <2>2, <1>2, <1>i DEF CaptureTypeOK
<1>11. CallsOK' /\ CallsKept /\ Calls' = Calls /\ Asked' = Asked  BY <1>2, <1>i, <1>p, CallsStay
<1>12. GymOK'  BY <1>2, <1>11, <1>i, <1>p, GymStays
<1>h. /\ \A j \in 1..Len(native'.held) : j = Len(native.held) + 1
           \/ (j \in 1..Len(native.held) /\ native'.held[j] = native.held[j])
      /\ native'.held[Len(native.held) + 1] = m
      /\ \A d : Stands(d) => Stands(d)'
  BY <1>n, <1>5, <1>i, <1>p, MoveAdded
<1>14. HeldOK'
  <2>1. MoveOK(m)'  BY <1>5 DEF MoveOK
  <2>2. \A j \in 1..Len(native.held) : MoveOK(native.held[j])  BY <1>p DEF HeldOK
  <2>. QED  BY <2>1, <2>2, <1>h, <1>11, <1>i, MovesStay DEF HeldOK
<1>15. HeldKept
  <2>1. ASSUME NEW d \in Calls, calls[d].status = "taken",
               NEW j \in 1..Len(native'.held), native'.held[j].cid = d
        PROVE  j \in 1..Len(native.held) /\ native.held[j].cid = d
    <3>1. d # 0  BY DEF Calls
    <3>. QED  BY <2>1, <3>1, <1>h, <1>5
  <2>. QED  BY <2>1 DEF HeldKept
<1>16. BootOK'  BY <1>2, <1>11, <1>n, <1>h, <1>p DEF BootOK
<1>r. \A r \in 1..Len(Rows') : r = n \/ (r \in 1..Len(Rows) /\ Rows'[r] = Rows[r])
  BY <1>a
<1>s. \A r \in (Len(Rows) + 1)..Len(Rows') : r = n  BY <1>a
<1>17. OverOK'
  <2>1. \A j \in 1..Len(Rows) : Rows[j].kind \notin EndOfGame  BY <1>2, <1>p, NotOver
  <2>2. \A j \in 1..Len(Rows') : Rows'[j].kind \notin EndOfGame
    BY <2>1, <1>r, <1>6, <1>9 DEF EndOfGame
  <2>. QED  BY <2>2, <1>2, <1>n DEF OverOK
<1>18. WrittenOK'
  <2>1. SUFFICES ASSUME native.gaps = 0 PROVE RowsOK' /\ LineOK' /\ ShownOK'
    BY <1>n DEF WrittenOK
  <2>2. RowsOK /\ LineOK /\ ShownOK  BY <2>1, <1>i DEF WrittenOK
  <2>3. <<Human, None>> \in Moved /\ x.state = Append(x.before, <<Human, None>>)
    BY <1>5, <1>6, <1>i, MoveState
  <2>4. RowsOK'
    <3>1. \A r \in 1..Len(Rows) : RowOK(Rows, r)'  BY <2>2, <1>9, <1>11, <1>15, <1>i, OldRows
    <3>2. RowOK(Rows, n)'
      <4>1. StepOK(Rows, n)'  BY <2>3, <1>6, <1>9 DEF StepOK
      <4>. QED  BY <4>1, <1>6, <1>9 DEF RowOK
    <3>3. Apart(Rows)'
      <4>1. Apart(Rows)  BY <2>2 DEF RowsOK
      <4>. QED  BY <4>1, <1>s, <1>6, <1>9, <1>i, ApartStays
    <3>. QED  BY <3>1, <3>2, <3>3, <1>r DEF RowsOK
  <2>5. LineOK'
    <3>1. n \in (Len(Rows) + 1)..Len(Rows') /\ Len(Rows') <= Len(Rows) + 2  BY <1>a
    <3>. QED  BY <3>1, <1>s, <2>2, <1>2, <1>n, <1>6, <1>9, <1>i, MoveRow
  <2>6. ShownOK'
    <3>1. native.downs > 0 => \E j \in 1..Len(Rows') : Rows'[j].kind = "resume"
      BY <2>2, <1>2, <1>9, <1>i, RestartShows DEF ShownOK
    <3>2. ASSUME native.downs = 0 PROVE FirstBoot' /\ \A d \in Calls' : CallShown(d)'
      <4>0. FirstBoot /\ \A d \in Calls : CallShown(d)  BY <3>2, <2>2 DEF ShownOK
      <4>1. FirstBoot'  BY <1>s, <4>0, <1>6, <1>9, <1>i, BootContinues
      <4>2. ASSUME NEW d \in Calls PROVE CallShown(d)'
        BY <4>0, <1>2, <1>9, <1>i, ShownStays DEF CallShown
      <4>. QED  BY <4>1, <4>2, <1>11
    <3>. QED  BY <3>1, <3>2, <1>n DEF ShownOK
  <2>. QED  BY <2>4, <2>5, <2>6
<1>19. EvidenceOK'
  <2>1. evidence.made = "no"  BY <1>2, <1>i, <1>p, SealedIdle
  <2>. QED  BY <2>1, <1>2, StillOpen
<1>. QED  BY <1>10, <1>11, <1>12, <1>14, <1>16, <1>17, <1>18, <1>19 DEF CaptureInv, PlayedOK

LEMMA OversInv ==
  ASSUME CaptureInv, Overs
  PROVE  CaptureInv'
<1>i. CaptureTypeOK /\ PlayedOK /\ WrittenOK /\ EvidenceOK  BY DEF CaptureInv
<1>p. GymOK /\ CallsOK /\ HeldOK /\ BootOK /\ OverOK  BY <1>i DEF PlayedOK
<1>t. /\ Len(Rows) \in Nat /\ Rows \in Seq(SourceRow) /\ native \in NativeGame
  BY <1>i, StateTypes DEF CaptureTypeOK
<1>k. PICK k \in EndOfGame : native' = [native EXCEPT !.over = TRUE, !.queue = native.queue \o <<Row(k)>>]
  BY DEF Overs, Queued
<1>1. PICK n, x :
        /\ n \in Nat /\ n = Len(Rows) + 1 /\ x = Row(k)
        /\ native' = [native EXCEPT !.over = TRUE, !.queue = native.queue \o <<x>>]
  <2>1. Len(Rows) + 1 \in Nat  BY <1>t
  <2>. QED  BY <2>1, <1>k
<1>2. /\ native.up /\ ~native.over /\ Asked = {}
      /\ UNCHANGED <<recording, source, imported, gym, calls, evidence>>
  BY DEF Overs, Playing
<1>6. x \in SourceRow /\ x.kind \in EndOfGame
  BY <1>1, RowTypes DEF RowKinds
<1>n. /\ native'.queue = native.queue \o <<x>> /\ native'.held = native.held
      /\ native'.saved = native.saved /\ native'.up = native.up
      /\ native'.over = TRUE /\ native'.gaps = native.gaps /\ native'.downs = native.downs
      /\ native' = [native EXCEPT !.over = TRUE, !.queue = native'.queue]
  BY <1>1, <1>t DEF NativeGame
<1>9. /\ native'.queue \in Seq(SourceRow) /\ Rows' \in Seq(SourceRow)
      /\ Len(Rows') = n /\ Extends(Rows', Rows) /\ Rows'[n] = x
  BY <1>1, <1>2, <1>n, <1>6, <1>i, OneMoreRow
<1>a. /\ n = Len(Rows) + 1 /\ Len(Rows') = n /\ Len(Rows) \in Nat
      /\ \A r \in 1..Len(Rows) : Rows'[r] = Rows[r]
  BY <1>1, <1>9, <1>t DEF Extends
<1>10. CaptureTypeOK'
  <2>2. native' \in NativeGame  BY <1>n, <1>9, <1>t DEF NativeGame
  <2>. QED  BY <2>2, <1>2, <1>i DEF CaptureTypeOK
<1>11. CallsOK' /\ CallsKept /\ Calls' = Calls /\ Asked' = Asked  BY <1>2, <1>i, <1>p, CallsStay
<1>12. GymOK'  BY <1>2, <1>11, <1>i, <1>p, GymStays
<1>13. HeldOK' /\ HeldKept  BY <1>n, <1>11, <1>i, <1>p, HeldStays
<1>16. BootOK'
  <2>1. \A c : Stands(c)' <=> Stands(c)  BY <1>n DEF Stands
  <2>. QED  BY <2>1, <1>2, <1>11, <1>n, <1>p DEF BootOK
<1>r. \A r \in 1..Len(Rows') : r = n \/ (r \in 1..Len(Rows) /\ Rows'[r] = Rows[r])
  BY <1>a
<1>s. \A r \in (Len(Rows) + 1)..Len(Rows') : r = n  BY <1>a
<1>17. OverOK'
  <2>1. \A j \in 1..Len(Rows) : Rows[j].kind \notin EndOfGame  BY <1>2, <1>p, NotOver
  <2>2. \A j \in 1..Len(Rows') : Rows'[j].kind \in EndOfGame => j = Len(Rows')
    BY <2>1, <1>r, <1>9
  <2>. QED  BY <2>2, <1>2, <1>11, <1>n DEF OverOK
<1>18. WrittenOK'
  <2>1. SUFFICES ASSUME native.gaps = 0 PROVE RowsOK' /\ LineOK' /\ ShownOK'
    BY <1>n DEF WrittenOK
  <2>2. RowsOK /\ LineOK /\ ShownOK  BY <2>1, <1>i DEF WrittenOK
  <2>4. RowsOK'
    <3>1. \A r \in 1..Len(Rows) : RowOK(Rows, r)'  BY <2>2, <1>9, <1>11, <1>13, <1>i, OldRows
    <3>2. RowOK(Rows, n)'  BY <1>6, <1>9 DEF RowOK, EndOfGame
    <3>3. Apart(Rows)'
      <4>1. Apart(Rows)  BY <2>2 DEF RowsOK
      <4>. QED  BY <4>1, <1>s, <1>6, <1>9, <1>i, ApartStays DEF EndOfGame
    <3>. QED  BY <3>1, <3>2, <3>3, <1>r DEF RowsOK
  <2>5. LineOK'
    <3>1. Rows'[Len(Rows) + 1].kind # "native_transition"  BY <1>a, <1>6, <1>9 DEF EndOfGame
    <3>. QED  BY <3>1, <1>a, <2>2, <1>2, <1>n, <1>9, <1>i, QuietRow
  <2>6. ShownOK'
    <3>1. native.downs > 0 => \E j \in 1..Len(Rows') : Rows'[j].kind = "resume"
      BY <2>2, <1>2, <1>9, <1>i, RestartShows DEF ShownOK
    <3>2. ASSUME native.downs = 0 PROVE FirstBoot' /\ \A d \in Calls' : CallShown(d)'
      <4>0. FirstBoot /\ \A d \in Calls : CallShown(d)  BY <3>2, <2>2 DEF ShownOK
      <4>1. FirstBoot'  BY <1>s, <4>0, <1>6, <1>9, <1>i, BootContinues DEF EndOfGame
      <4>2. ASSUME NEW d \in Calls PROVE CallShown(d)'
        BY <4>0, <1>2, <1>9, <1>i, ShownStays DEF CallShown
      <4>. QED  BY <4>1, <4>2, <1>11
    <3>. QED  BY <3>1, <3>2, <1>n DEF ShownOK
  <2>. QED  BY <2>4, <2>5, <2>6
<1>19. EvidenceOK'
  <2>1. evidence.made = "no"  BY <1>2, <1>i, <1>p, SealedIdle
  <2>. QED  BY <2>1, <1>2, StillOpen
<1>. QED  BY <1>10, <1>11, <1>12, <1>13, <1>16, <1>17, <1>18, <1>19 DEF CaptureInv, PlayedOK

-----------------------------------------------------------------------------
(* A row is missed, the game goes down and comes back.                      *)

LEMMA RowRemoved ==
  ASSUME NEW q \in Seq(SourceRow), NEW i \in 1..Len(q)
  PROVE  /\ RemoveAt(q, i) \in Seq(SourceRow) /\ Len(RemoveAt(q, i)) = Len(q) - 1
         /\ \A k \in 1..(Len(q) - 1) : RemoveAt(q, i)[k] = IF k < i THEN q[k] ELSE q[k + 1]
<1>t. Len(q) \in Nat  OBVIOUS
<1>1. /\ SubSeq(q, 1, i - 1) \in Seq(SourceRow) /\ Len(SubSeq(q, 1, i - 1)) = i - 1
      /\ \A k \in 1..(i - 1) : SubSeq(q, 1, i - 1)[k] = q[k]
  BY <1>t
<1>2. /\ SubSeq(q, i + 1, Len(q)) \in Seq(SourceRow) /\ Len(SubSeq(q, i + 1, Len(q))) = Len(q) - i
      /\ \A k \in 1..(Len(q) - i) : SubSeq(q, i + 1, Len(q))[k] = q[i + k]
  BY <1>t
<1>3. PICK s \in Seq(SourceRow), u \in Seq(SourceRow) :
        s = SubSeq(q, 1, i - 1) /\ u = SubSeq(q, i + 1, Len(q))
  BY <1>1, <1>2
<1>4. RemoveAt(q, i) = s \o u  BY <1>3 DEF RemoveAt
<1>5. /\ s \o u \in Seq(SourceRow) /\ Len(s \o u) = Len(s) + Len(u)
      /\ \A k \in 1..Len(s) + Len(u) : (s \o u)[k] = IF k <= Len(s) THEN s[k] ELSE u[k - Len(s)]
  BY ConcatProperties
<1>6. Len(s) = i - 1 /\ Len(u) = Len(q) - i  BY <1>1, <1>2, <1>3
<1>7. \A k \in 1..(Len(q) - 1) : (s \o u)[k] = IF k < i THEN q[k] ELSE q[k + 1]
  <2>1. TAKE k \in 1..(Len(q) - 1)
  <2>2. CASE k < i
    <3>1. k <= Len(s) /\ k \in 1..(i - 1) /\ k \in 1..Len(s) + Len(u)  BY <2>2, <1>6, <1>t
    <3>. QED  BY <3>1, <2>2, <1>1, <1>3, <1>5
  <2>3. CASE ~(k < i)
    <3>1. /\ ~(k <= Len(s)) /\ k \in 1..Len(s) + Len(u)
          /\ k - Len(s) \in 1..(Len(q) - i) /\ i + (k - Len(s)) = k + 1
      BY <2>3, <1>6, <1>t
    <3>. QED  BY <3>1, <2>3, <1>2, <1>3, <1>5
  <2>. QED  BY <2>2, <2>3
<1>8. Len(s \o u) = Len(q) - 1  BY <1>5, <1>6, <1>t
<1>. QED  BY <1>4, <1>5, <1>7, <1>8

LEMMA LosesRowInv ==
  ASSUME CaptureInv, LosesRow
  PROVE  CaptureInv'
<1>i. CaptureTypeOK /\ PlayedOK /\ WrittenOK /\ EvidenceOK  BY DEF CaptureInv
<1>p. GymOK /\ CallsOK /\ HeldOK /\ BootOK /\ OverOK  BY <1>i DEF PlayedOK
<1>t. /\ native \in NativeGame /\ native.queue \in Seq(SourceRow) /\ source \in Seq(SourceRow)
      /\ Len(source) \in Nat /\ Len(native.queue) \in Nat /\ native.gaps \in Nat
      /\ Len(Rows) = Len(source) + Len(native.queue)
      /\ \A j \in 1..Len(source) : Rows[j] = source[j]
      /\ \A j \in 1..Len(native.queue) : Rows[Len(source) + j] = native.queue[j]
  BY <1>i, StateTypes DEF CaptureTypeOK
<1>1. PICK i \in 1..Len(native.queue) :
        native' = [native EXCEPT !.queue = RemoveAt(native.queue, i), !.gaps = native.gaps + 1]
  BY DEF LosesRow
<1>2. native.up /\ UNCHANGED <<recording, source, imported, gym, calls, evidence>>  BY DEF LosesRow
<1>n. /\ native'.queue = RemoveAt(native.queue, i) /\ native'.held = native.held
      /\ native'.saved = native.saved /\ native'.up = native.up /\ native'.over = native.over
      /\ native'.gaps = native.gaps + 1 /\ native'.downs = native.downs
      /\ native' = [native EXCEPT !.queue = native'.queue, !.gaps = native.gaps + 1]
  BY <1>1, <1>t DEF NativeGame
<1>3. /\ native'.queue \in Seq(SourceRow) /\ Len(native'.queue) = Len(native.queue) - 1
      /\ \A k \in 1..Len(native'.queue) :
           native'.queue[k] = IF k < i THEN native.queue[k] ELSE native.queue[k + 1]
  <2>1. /\ RemoveAt(native.queue, i) \in Seq(SourceRow)
        /\ Len(RemoveAt(native.queue, i)) = Len(native.queue) - 1
        /\ \A k \in 1..(Len(native.queue) - 1) :
             RemoveAt(native.queue, i)[k] = IF k < i THEN native.queue[k] ELSE native.queue[k + 1]
    BY <1>t, RowRemoved
  <2>2. native'.queue = RemoveAt(native.queue, i)  BY <1>n
  <2>. QED  BY ONLY <2>1, <2>2
<1>4. CaptureTypeOK'
  <2>1. PICK g \in Nat, q \in Seq(SourceRow) : g = native.gaps + 1 /\ q = native'.queue
    <3>1. native.gaps + 1 \in Nat  BY <1>t
    <3>. QED  BY <3>1, <1>3
  <2>2. native' = [native EXCEPT !.queue = q, !.gaps = g]  BY <2>1, <1>n
  <2>3. native' \in NativeGame  BY <2>2, <1>t DEF NativeGame
  <2>. QED  BY <2>3, <1>2, <1>i DEF CaptureTypeOK
<1>5. CallsOK' /\ CallsKept /\ Calls' = Calls /\ Asked' = Asked  BY <1>2, <1>i, <1>p, CallsStay
<1>6. GymOK'  BY <1>2, <1>5, <1>i, <1>p, GymStays
<1>7. HeldOK'  BY <1>n, <1>5, <1>i, <1>p, HeldStays
<1>8. BootOK'
  <2>1. \A c : Stands(c)' <=> Stands(c)  BY <1>n DEF Stands
  <2>. QED  BY <2>1, <1>2, <1>5, <1>n, <1>p DEF BootOK
<1>9. OverOK'
  <2>1. /\ Len(Rows') = Len(source) + Len(native'.queue)
        /\ \A j \in 1..Len(source) : Rows'[j] = source[j]
        /\ \A j \in 1..Len(native'.queue) : Rows'[Len(source) + j] = native'.queue[j]
    <3>1. PICK q \in Seq(SourceRow) : q = native'.queue  BY <1>3
    <3>2. Rows' = source \o q  BY <3>1, <1>2 DEF Rows
    <3>3. /\ Len(source \o q) = Len(source) + Len(q)
          /\ \A j \in 1..Len(source) + Len(q) :
               (source \o q)[j] = IF j <= Len(source) THEN source[j] ELSE q[j - Len(source)]
      BY <1>t, ConcatProperties
    <3>4. Len(q) \in Nat /\ Len(source) \in Nat  BY <1>t
    <3>5. \A j \in 1..Len(source) : (source \o q)[j] = source[j]  BY <3>3, <3>4
    <3>6. \A j \in 1..Len(q) : (source \o q)[Len(source) + j] = q[j]  BY <3>3, <3>4
    <3>. QED  BY <3>1, <3>2, <3>3, <3>5, <3>6
  <2>2. \A j \in 1..Len(Rows) : Rows[j].kind \in EndOfGame => native.over /\ j = Len(Rows)
    BY <1>p DEF OverOK
  <2>3. ASSUME NEW j \in 1..Len(Rows'), Rows'[j].kind \in EndOfGame
        PROVE  native.over /\ j = Len(Rows')
    <3>1. CASE j \in 1..Len(source)
      <4>1. j \in 1..Len(Rows) /\ j # Len(Rows)  BY <3>1, <1>t
      <4>. QED  BY <4>1, <3>1, <2>1, <2>2, <2>3, <1>t
    <3>2. CASE j \notin 1..Len(source)
      <4>1. PICK k \in 1..Len(native'.queue) : j = Len(source) + k
        <5>1. PICK m \in Nat, l \in Nat : m = Len(source) /\ l = Len(native'.queue)
          <6>1. PICK q \in Seq(SourceRow) : q = native'.queue  BY <1>3
          <6>. QED  BY <6>1, <1>t, LenProperties
        <5>2. j \in 1..(m + l) /\ j \notin 1..m  BY <3>2, <2>1, <5>1
        <5>3. j - m \in 1..l /\ j = m + (j - m)  BY <5>2
        <5>. QED  BY <5>1, <5>3
      <4>2. CASE k < i
        <5>1. k \in 1..Len(native.queue) /\ Rows'[j] = native.queue[k]
          <6>1. Rows'[j] = native'.queue[k]  BY <4>1, <2>1
          <6>2. native'.queue[k] = native.queue[k]  BY <4>2, <1>3
          <6>3. Len(native.queue) \in Nat /\ Len(native'.queue) = Len(native.queue) - 1  BY <1>3, <1>t
          <6>4. k \in 1..Len(native.queue)  BY <6>3
          <6>. QED  BY <6>1, <6>2, <6>4
        <5>2. Len(source) + k \in 1..Len(Rows) /\ Len(source) + k # Len(Rows)  BY <5>1, <4>2, <1>t
        <5>. QED  BY <5>1, <5>2, <2>2, <2>3, <1>t
      <4>3. CASE ~(k < i)
        <5>0. k + 1 \in 1..Len(native.queue)  BY <1>3, <1>t
        <5>1. k + 1 \in 1..Len(native.queue) /\ Rows'[j] = native.queue[k + 1]
          <6>1. Rows'[j] = native'.queue[k]  BY <4>1, <2>1
          <6>2. native'.queue[k] = native.queue[k + 1]  BY <4>3, <1>3
          <6>. QED  BY <5>0, <6>1, <6>2
        <5>2. Len(source) + (k + 1) \in 1..Len(Rows)  BY <5>1, <1>t
        <5>3. native.over /\ Len(source) + (k + 1) = Len(Rows)  BY <5>1, <5>2, <2>2, <2>3, <1>t
        <5>. QED  BY <5>3, <4>1, <2>1, <1>3, <1>t
      <4>. QED  BY <4>2, <4>3
    <3>. QED  BY <3>1, <3>2
  <2>. QED  BY <2>3, <1>5, <1>n, <1>p DEF OverOK
<1>10. WrittenOK'  BY <1>n, <1>t DEF WrittenOK
<1>11. EvidenceOK'
  <2>1. native.queue # <<>>  BY <1>t
  <2>2. evidence.made = "no"  BY <2>1, <1>i, <1>p, SealedIdle
  <2>. QED  BY <2>2, <1>2, StillOpen
<1>. QED  BY <1>4, <1>5, <1>6, <1>7, <1>8, <1>9, <1>10, <1>11 DEF CaptureInv, PlayedOK

LEMMA GoesDownInv ==
  ASSUME CaptureInv, GoesDown
  PROVE  CaptureInv'
<1>i. CaptureTypeOK /\ PlayedOK /\ WrittenOK /\ EvidenceOK  BY DEF CaptureInv
<1>p. GymOK /\ CallsOK /\ HeldOK /\ BootOK /\ OverOK  BY <1>i DEF PlayedOK
<1>t. /\ native \in NativeGame /\ native.held \in Seq(HeldMove) /\ native.saved \in Seq(HeldMove)
      /\ Len(native.held) \in Nat /\ Len(native.saved) \in Nat /\ native.downs \in Nat
      /\ calls \in Seq(Callback) /\ Len(calls) \in Nat
  BY <1>i, StateTypes DEF CaptureTypeOK
<1>1. PICK m \in Len(native.saved)..Len(native.held), n \in 0..Len(native.queue) :
        /\ source' = source \o SubSeq(native.queue, 1, n)
        /\ ~IsOver(source')
        /\ native' = [native EXCEPT !.up = FALSE, !.downs = native.downs + 1, !.over = FALSE,
                        !.held = SubSeq(native.held, 1, m), !.saved = SubSeq(native.held, 1, m),
                        !.queue = <<>>]
  BY DEF GoesDown
<1>2. /\ calls' = [c \in Calls |-> IF c \in Asked THEN [calls[c] EXCEPT !.status = "lost"] ELSE calls[c]]
      /\ UNCHANGED <<recording, imported, gym, evidence>>
  BY DEF GoesDown
<1>3. PICK kept : /\ kept = SubSeq(native.held, 1, m) /\ kept \in Seq(HeldMove) /\ Len(kept) <= Len(native.held)
                  /\ \A i \in 1..Len(kept) : i \in 1..Len(native.held) /\ kept[i] = native.held[i]
  <2>1. m \in Nat /\ m <= Len(native.held)  BY <1>t
  <2>2. /\ SubSeq(native.held, 1, m) \in Seq(HeldMove) /\ Len(SubSeq(native.held, 1, m)) = m
        /\ \A i \in 1..m : SubSeq(native.held, 1, m)[i] = native.held[i]
    BY <2>1, <1>t
  <2>3. \A i \in 1..m : i \in 1..Len(native.held)  BY <2>1, <1>t
  <2>. QED  BY <2>1, <2>2, <2>3
<1>n. /\ native'.queue = <<>> /\ native'.held = kept /\ native'.saved = kept /\ native'.up = FALSE
      /\ native'.over = FALSE /\ native'.gaps = native.gaps /\ native'.downs = native.downs + 1
      /\ native'.boot = native.boot
      /\ native' = [up |-> FALSE, held |-> kept, saved |-> kept, queue |-> <<>>, over |-> FALSE,
                    gaps |-> native.gaps, downs |-> native.downs + 1, boot |-> native.boot]
  BY <1>1, <1>3, <1>t DEF NativeGame
<1>4. /\ source' \in Seq(SourceRow) /\ Len(source') = Len(source) + n
      /\ Rows' = source' /\ Rows' \in Seq(SourceRow) /\ Extends(Rows, Rows')
  BY <1>1, <1>n, <1>i, RowsCut
<1>5. /\ calls' \in Seq(Callback) /\ Len(calls') = Len(calls) /\ Calls' = Calls
      /\ \A c \in Calls : c \notin Asked => calls'[c] = calls[c]
      /\ \A c \in Asked : /\ c \in Calls /\ calls'[c].status = "lost" /\ calls'[c].choice = calls[c].choice
                          /\ calls'[c].seat = calls[c].seat /\ calls'[c].kind = calls[c].kind
  <2>1. \A c \in Calls : calls[c] \in Callback /\ [calls[c] EXCEPT !.status = "lost"] \in Callback
    BY <1>i, CallTypes DEF Callback, Status
  <2>2. \A c \in Calls : calls'[c] = IF c \in Asked THEN [calls[c] EXCEPT !.status = "lost"] ELSE calls[c]
    BY <1>2
  <2>3. calls' \in [1..Len(calls) -> Callback]  BY <2>1, <1>2 DEF Calls
  <2>4. calls' \in Seq(Callback) /\ Len(calls') = Len(calls)  BY <2>3, <1>t
  <2>5. \A c \in Asked : c \in Calls  BY DEF Asked
  <2>6. \A c \in Asked : /\ calls'[c].status = "lost" /\ calls'[c].choice = calls[c].choice
                         /\ calls'[c].seat = calls[c].seat /\ calls'[c].kind = calls[c].kind
    BY <2>1, <2>2, <2>5 DEF Callback
  <2>. QED  BY <2>2, <2>4, <2>5, <2>6 DEF Calls
<1>6. CaptureTypeOK'
  <2>1. native' \in NativeGame  BY <1>n, <1>3, <1>t DEF NativeGame
  <2>2. imported' \in 0..Len(source')
    BY <1>2, <1>4, <1>i, StateTypes DEF CaptureTypeOK
  <2>. QED  BY <2>1, <2>2, <1>2, <1>4, <1>5, <1>i DEF CaptureTypeOK
<1>7. CallsKept
  <2>1. \A c \in Asked : calls[c].status = "asked"  BY DEF Asked
  <2>. QED  BY <2>1, <1>5 DEF CallsKept
<1>8. GymOK'  BY <1>2, <1>7, <1>i, <1>p, GymStays
<1>9. CallsOK'
  <2>1. \A k, d : GymRows(k, d)' = GymRows(k, d)  BY <1>2 DEF GymRows
  <2>2. ASSUME NEW c \in Calls
        PROVE  /\ calls'[c].status = "taken" =>
                    \E j \in GymRows("seat_callback", c) : calls'[c].choice = Accepted(calls'[c].kind, gym[j].choice)
               /\ calls'[c].status # "taken" => calls'[c].choice = None
    <3>1. CASE c \in Asked
      <4>1. calls[c].choice = None  BY <3>1, <1>p DEF CallsOK, Asked
      <4>. QED  BY <4>1, <3>1, <1>5
    <3>2. CASE c \notin Asked  BY <3>2, <1>5, <1>p DEF CallsOK
    <3>. QED  BY <3>1, <3>2
  <2>3. gym' = gym /\ Calls' = Calls  BY <1>2, <1>5
  <2>. QED  BY ONLY <2>1, <2>2, <2>3 DEF CallsOK
<1>10. HeldOK'
  <2>1. \A i \in 1..Len(native.held) : MoveOK(native.held[i])  BY <1>p DEF HeldOK
  <2>. QED  BY <2>1, <1>3, <1>n, <1>7, <1>i, MovesStay DEF HeldOK
<1>11. HeldKept  BY <1>3, <1>n DEF HeldKept
<1>12. BootOK'
  <2>1. Asked' = {}
    <3>1. \A c \in Calls' : calls'[c].status # "asked"  BY <1>5 DEF Asked
    <3>. QED  BY <3>1 DEF Asked
  <2>2. native'.downs > 0  BY <1>n, <1>t
  <2>. QED  BY <2>1, <2>2, <1>n, <1>t DEF BootOK
<1>13. OverOK'
  <2>1. \A i \in 1..Len(Rows') : Rows'[i].kind \notin EndOfGame  BY <1>1, <1>4 DEF IsOver
  <2>. QED  BY <2>1, <1>n DEF OverOK
<1>14. WrittenOK'
  <2>1. SUFFICES ASSUME native.gaps = 0 PROVE RowsOK' /\ LineOK' /\ ShownOK'
    BY <1>n DEF WrittenOK
  <2>2. RowsOK /\ LineOK  BY <2>1, <1>i DEF WrittenOK
  <2>3. RowsOK'  BY <2>2, <1>4, <1>7, <1>11, <1>i, RowsOfPrefix
  <2>4. LineOK'
    <3>1. \A r \in Steps(Rows') : r \in 1..Len(Rows) /\ r <= Len(Rows')
      BY <1>4, <1>i, StateTypes DEF Steps, Extends
    <3>2. \A r \in Steps(Rows') : Rows'[r].before = Led(Rows', r) \/ \E j \in 1..(r - 1) : Bad(Rows', j)
      BY <3>1, <2>2, <1>4, <1>i, OldLine
    <3>. QED  BY <3>2, <1>n DEF LineOK
  <2>5. ShownOK'  BY <1>n, <1>t DEF ShownOK
  <2>. QED  BY <2>3, <2>4, <2>5
<1>15. EvidenceOK'
  <2>1. ASSUME evidence.made # "no" PROVE FALSE
    <3>1. native.queue = <<>> /\ IsOver(source)  BY <2>1, <1>i, <1>p, SealedIdle
    <3>2. n = 0  BY <3>1
    <3>3. source' = source
      <4>1. source \in Seq(SourceRow) /\ SubSeq(native.queue, 1, 0) = <<>>  BY <1>i, StateTypes, SubSeqEmpty
      <4>. QED  BY <4>1, <3>2, <1>1
    <3>. QED  BY <3>1, <3>3, <1>1
  <2>. QED  BY <2>1, <1>2, StillOpen
<1>. QED  BY <1>6, <1>8, <1>9, <1>10, <1>12, <1>13, <1>14, <1>15 DEF CaptureInv, PlayedOK

LEMMA ComesBackInv ==
  ASSUME CaptureInv, ComesBack
  PROVE  CaptureInv'
<1>i. CaptureTypeOK /\ PlayedOK /\ WrittenOK /\ EvidenceOK  BY DEF CaptureInv
<1>p. GymOK /\ CallsOK /\ HeldOK /\ BootOK /\ OverOK  BY <1>i DEF PlayedOK
<1>t. /\ Len(Rows) \in Nat /\ Rows \in Seq(SourceRow) /\ native \in NativeGame /\ native.boot \in Nat
  BY <1>i, StateTypes DEF CaptureTypeOK
<1>0. ~native.up /\ native.queue = <<>> /\ native.held = native.saved /\ ~native.over /\ Asked = {}
      /\ native.downs > 0
  BY <1>p DEF ComesBack, BootOK
<1>1. PICK n, x, y, z, new :
        /\ n \in Nat /\ n = Len(Rows) + 1 /\ x = Row("resume") /\ y = Row("state_checkpoint")
        /\ z = [Row("callback_resume_state") EXCEPT !.state = Digest(native.saved)]
        /\ new = <<x, y, z>>
  <2>1. Len(Rows) + 1 \in Nat  BY <1>t
  <2>. QED  BY <2>1
<1>2. /\ native' = [native EXCEPT !.up = TRUE, !.boot = native.boot + 1, !.queue = new]
      /\ UNCHANGED <<recording, source, imported, gym, calls, evidence>>
  BY <1>1 DEF ComesBack, Resumed
<1>3. /\ x \in SourceRow /\ x.kind = "resume" /\ y \in SourceRow /\ y.kind = "state_checkpoint"
      /\ z \in SourceRow /\ z.kind = "callback_resume_state" /\ z.state = Digest(native.saved)
  <2>1. Digest(native.saved) \in Seq(Moved) /\ <<>> \in Seq(Moved)  BY <1>i, StateTypes, DigestOf
  <2>. QED  BY <2>1, <1>1, HumanIsNoSeat DEF Row, SourceRow, RowKinds
<1>4. new \in Seq(SourceRow) /\ Len(new) = 3 /\ new[1] = x /\ new[2] = y /\ new[3] = z
  BY <1>1, <1>3
<1>n. /\ native'.queue = new /\ native'.held = native.held /\ native'.saved = native.saved
      /\ native'.up = TRUE /\ native'.over = native.over /\ native'.gaps = native.gaps
      /\ native'.downs = native.downs
      /\ native' = [native EXCEPT !.up = TRUE, !.boot = native.boot + 1, !.queue = native'.queue]
  BY <1>2, <1>t DEF NativeGame
<1>5. native'.queue = native.queue \o new  BY <1>0, <1>4, <1>n, ConcatEmptySeq
<1>6. /\ native'.queue \in Seq(SourceRow) /\ Rows' \in Seq(SourceRow)
      /\ Len(Rows') = Len(Rows) + 3 /\ Extends(Rows', Rows)
      /\ Rows'[n] = x /\ Rows'[n + 1] = y /\ Rows'[n + 2] = z
  <2>1. /\ native'.queue \in Seq(SourceRow) /\ Rows' \in Seq(SourceRow)
        /\ Len(Rows') = Len(Rows) + Len(new) /\ Extends(Rows', Rows)
        /\ \A i \in 1..Len(new) : Rows'[Len(Rows) + i] = new[i]
    BY <1>2, <1>4, <1>5, <1>i, RowsGrow
  <2>2. 1 \in 1..Len(new) /\ 2 \in 1..Len(new) /\ 3 \in 1..Len(new)  BY <1>4
  <2>3. n = Len(Rows) + 1 /\ n + 1 = Len(Rows) + 2 /\ n + 2 = Len(Rows) + 3  BY <1>1, <1>t
  <2>. QED  BY <2>1, <2>2, <2>3, <1>4
<1>a. /\ n = Len(Rows) + 1 /\ Len(Rows') = n + 2 /\ Len(Rows) \in Nat
      /\ \A r \in 1..Len(Rows) : Rows'[r] = Rows[r]
  BY <1>1, <1>6, <1>t DEF Extends
<1>r. \A r \in 1..Len(Rows') :
        r = n \/ r = n + 1 \/ r = n + 2 \/ (r \in 1..Len(Rows) /\ Rows'[r] = Rows[r])
  BY <1>a
<1>s. \A r \in (Len(Rows) + 1)..Len(Rows') : r = n \/ r = n + 1 \/ r = n + 2  BY <1>a
<1>7. CaptureTypeOK'
  <2>1. PICK b \in Nat, q \in Seq(SourceRow) : b = native.boot + 1 /\ q = native'.queue
    <3>1. native.boot + 1 \in Nat  BY <1>t
    <3>. QED  BY <3>1, <1>6
  <2>2. native' = [native EXCEPT !.up = TRUE, !.boot = b, !.queue = q]  BY <2>1, <1>n
  <2>3. native' \in NativeGame  BY <2>2, <1>t DEF NativeGame
  <2>. QED  BY <2>3, <1>2, <1>i DEF CaptureTypeOK
<1>8. CallsOK' /\ CallsKept /\ Calls' = Calls /\ Asked' = Asked  BY <1>2, <1>i, <1>p, CallsStay
<1>9. GymOK'  BY <1>2, <1>8, <1>i, <1>p, GymStays
<1>10. HeldOK' /\ HeldKept  BY <1>n, <1>8, <1>i, <1>p, HeldStays
<1>11. BootOK'  BY <1>0, <1>n DEF BootOK
<1>12. OverOK'
  <2>1. \A j \in 1..Len(Rows) : Rows[j].kind \notin EndOfGame  BY <1>0, <1>p, NotOver
  <2>2. \A j \in 1..Len(Rows') : Rows'[j].kind \notin EndOfGame
    BY <2>1, <1>r, <1>3, <1>6 DEF EndOfGame
  <2>. QED  BY <2>2, <1>0, <1>n DEF OverOK
<1>13. WrittenOK'
  <2>1. SUFFICES ASSUME native.gaps = 0 PROVE RowsOK' /\ LineOK' /\ ShownOK'
    BY <1>n DEF WrittenOK
  <2>2. RowsOK /\ LineOK  BY <2>1, <1>i DEF WrittenOK
  <2>3. RowsOK'
    <3>1. \A r \in 1..Len(Rows) : RowOK(Rows, r)'  BY <2>2, <1>6, <1>8, <1>10, <1>i, OldRows
    <3>2. RowOK(Rows, n)' /\ RowOK(Rows, n + 1)'  BY <1>3, <1>6 DEF RowOK
    <3>4. RowOK(Rows, n + 2)'
      <4>1. n + 2 > 1 /\ (n + 2) - 1 = n + 1  BY <1>1
      <4>. QED  BY <4>1, <1>3, <1>6 DEF RowOK
    <3>3. Apart(Rows)'
      <4>1. Apart(Rows)  BY <2>2 DEF RowsOK
      <4>. QED  BY <4>1, <1>s, <1>3, <1>6, <1>i, ApartStays
    <3>. QED  BY <3>1, <3>2, <3>3, <3>4, <1>r DEF RowsOK
  <2>4. LineOK'
    <3>1. \A r \in Steps(Rows') : r \in 1..Len(Rows) /\ r <= Len(Rows')
      BY <1>r, <1>a, <1>3, <1>6 DEF Steps
    <3>2. \A r \in Steps(Rows') : Rows'[r].before = Led(Rows', r) \/ \E j \in 1..(r - 1) : Bad(Rows', j)
      BY <3>1, <2>2, <1>6, <1>i, OldLine
    <3>3. n \in 1..Len(Rows') /\ n + 1 \in 1..Len(Rows') /\ n + 2 \in 1..Len(Rows')  BY <1>a
    <3>4. Led(Rows', n + 1) = Led(Rows', n)  BY <3>3, <1>3, <1>6, LedNext
    <3>5. Led(Rows', (n + 1) + 1) = Led(Rows', n + 1)  BY <3>3, <1>3, <1>6, LedNext
    <3>6. Led(Rows', (n + 2) + 1) = Led(Rows', n + 2)  BY <3>3, <1>3, <1>6, LedNext
    <3>7. Led(Rows', Len(Rows') + 1) = Led(Rows', n + 2)
      <4>1. (n + 1) + 1 = n + 2 /\ (n + 2) + 1 = Len(Rows') + 1  BY <1>a
      <4>. QED  BY <3>6, <4>1
    <3>8. CASE z.state = Led(Rows', n + 2)  BY <3>2, <3>7, <3>8, <1>0, <1>3, <1>n DEF LineOK
    <3>9. CASE z.state # Led(Rows', n + 2)
      <4>1. Bad(Rows', n + 2)  BY <3>3, <3>9, <1>3, <1>6 DEF Bad
      <4>. QED  BY <4>1, <3>2, <3>3 DEF LineOK
    <3>. QED  BY <3>8, <3>9
  <2>5. ShownOK'
    <3>1. n \in 1..Len(Rows') /\ Rows'[n].kind = "resume"  BY <1>a, <1>3, <1>6
    <3>. QED  BY <3>1, <1>0, <1>n DEF ShownOK
  <2>. QED  BY <2>3, <2>4, <2>5
<1>14. EvidenceOK'
  <2>1. evidence.made = "no"  BY <1>0, <1>i, <1>p, SealedIdle
  <2>. QED  BY <2>1, <1>2, StillOpen
<1>. QED  BY <1>7, <1>8, <1>9, <1>10, <1>11, <1>12, <1>13, <1>14 DEF CaptureInv, PlayedOK

-----------------------------------------------------------------------------
(* Rows are written and imported; the Gym's rows are added.                 *)

\* The game, and all that was or will be written of it, are as they were.
SameGame ==
  /\ calls' = calls /\ Rows' = Rows
  /\ native'.held = native.held /\ native'.up = native.up /\ native'.over = native.over
  /\ native'.gaps = native.gaps /\ native'.downs = native.downs

LEMMA SameGameInv ==
  ASSUME CaptureTypeOK, HeldOK, OverOK, WrittenOK, SameGame
  PROVE  CallsKept /\ HeldOK' /\ OverOK' /\ WrittenOK'
<1>1. Calls' = Calls /\ Asked' = Asked  BY DEF SameGame, Calls, Asked
<1>2. CallsKept  BY <1>1 DEF CallsKept, SameGame
<1>3. HeldOK' /\ HeldKept  BY <1>2, HeldStays DEF SameGame
<1>4. OverOK'  BY <1>1 DEF OverOK, SameGame
<1>5. WrittenOK'
  <2>1. SUFFICES ASSUME native.gaps = 0 PROVE RowsOK' /\ LineOK' /\ ShownOK'
    BY DEF WrittenOK, SameGame
  <2>2. RowsOK /\ LineOK /\ ShownOK  BY <2>1 DEF WrittenOK
  <2>3. Rows' = Rows /\ Rows \in Seq(SourceRow) /\ Rows' \in Seq(SourceRow) /\ Extends(Rows, Rows')
    BY StateTypes DEF SameGame, Extends
  <2>4. RowsOK'  BY <2>2, <2>3, <1>2, <1>3, RowsOfPrefix
  <2>5. LineOK'  BY <2>2 DEF LineOK, SameGame
  <2>6. ShownOK'
    <3>1. \A k, c : Shown(k, c)' <=> Shown(k, c)  BY <2>3 DEF Shown
    <3>2. \A c \in Calls : CallShown(c)' <=> CallShown(c)  BY <3>1 DEF CallShown, SameGame
    <3>3. FirstBoot' <=> FirstBoot  BY <2>3 DEF FirstBoot
    <3>. QED  BY <2>2, <3>2, <3>3, <1>1 DEF ShownOK, SameGame
  <2>. QED  BY <2>4, <2>5, <2>6
<1>. QED  BY <1>2, <1>3, <1>4, <1>5

LEMMA ImportsInv ==
  ASSUME CaptureInv, NEW n \in 0..Len(native.queue), Imports(n)
  PROVE  /\ CaptureInv'
         /\ \A i \in 1..Len(native'.queue) : \E j \in 1..Len(native.queue) : native'.queue[i] = native.queue[j]
<1>i. CaptureTypeOK /\ PlayedOK /\ WrittenOK /\ EvidenceOK  BY DEF CaptureInv
<1>p. GymOK /\ CallsOK /\ HeldOK /\ BootOK /\ OverOK  BY <1>i DEF PlayedOK
<1>t. native \in NativeGame /\ Len(source) \in Nat /\ Len(native.queue) \in Nat
  BY <1>i, StateTypes DEF CaptureTypeOK
<1>1. /\ source' = source \o SubSeq(native.queue, 1, n)
      /\ native' = [native EXCEPT !.queue = SubSeq(native.queue, n + 1, Len(native.queue))]
      /\ imported' = Len(source') /\ evidence.made = "no"
      /\ UNCHANGED <<recording, gym, calls, evidence>>
  BY DEF Imports, Unsealed
<1>n. /\ native'.queue = SubSeq(native.queue, n + 1, Len(native.queue)) /\ native'.held = native.held
      /\ native'.saved = native.saved /\ native'.up = native.up /\ native'.over = native.over
      /\ native'.gaps = native.gaps /\ native'.downs = native.downs
      /\ native' = [native EXCEPT !.queue = native'.queue]
  BY <1>1, <1>t DEF NativeGame
<1>2. /\ source' \in Seq(SourceRow) /\ Len(source') = Len(source) + n
      /\ native'.queue \in Seq(SourceRow) /\ Len(native'.queue) = Len(native.queue) - n
      /\ \A i \in 1..Len(native'.queue) : native'.queue[i] = native.queue[n + i]
      /\ Rows' = Rows
  BY <1>1, <1>n, <1>i, RowsWritten
<1>3. CaptureTypeOK'
  <2>1. native' \in NativeGame  BY <1>n, <1>2, <1>t DEF NativeGame
  <2>2. imported' \in 0..Len(source')  BY <1>1, <1>2, <1>t
  <2>. QED  BY <2>1, <2>2, <1>1, <1>2, <1>i DEF CaptureTypeOK
<1>4. SameGame  BY <1>1, <1>2, <1>n DEF SameGame
<1>5. CallsKept /\ HeldOK' /\ OverOK' /\ WrittenOK'  BY <1>4, <1>i, <1>p, SameGameInv
<1>6. GymOK'  BY <1>1, <1>5, <1>i, <1>p, GymStays
<1>7. CallsOK' /\ Calls' = Calls /\ Asked' = Asked  BY <1>1, <1>i, <1>p, CallsStay
<1>8. BootOK'
  <2>1. \A c : Stands(c)' <=> Stands(c)  BY <1>n DEF Stands
  <2>2. native.queue = <<>> => native'.queue = <<>>  BY <1>2, EmptySeq
  <2>. QED  BY <2>1, <2>2, <1>1, <1>7, <1>n, <1>p DEF BootOK
<1>9. EvidenceOK'  BY <1>1, StillOpen
<1>10. \A i \in 1..Len(native'.queue) : n + i \in 1..Len(native.queue)  BY <1>2, <1>t
<1>. QED  BY <1>2, <1>3, <1>5, <1>6, <1>7, <1>8, <1>9, <1>10 DEF CaptureInv, PlayedOK

\* The Gym's rows grow while the game stands as it is.
LEMMA GymGrows ==
  ASSUME CaptureInv, UNCHANGED <<recording, native, source, imported, calls, evidence>>,
         evidence.made = "no", NEW new \in Seq(GymRow), gym' = gym \o new, GymOK'
  PROVE  CaptureInv'
<1>i. CaptureTypeOK /\ PlayedOK /\ WrittenOK /\ EvidenceOK  BY DEF CaptureInv
<1>p. GymOK /\ CallsOK /\ HeldOK /\ BootOK /\ OverOK  BY <1>i DEF PlayedOK
<1>1. gym \in Seq(GymRow) /\ Len(gym) \in Nat  BY <1>i, StateTypes DEF CaptureTypeOK
<1>2. /\ gym \o new \in Seq(GymRow) /\ Len(gym \o new) = Len(gym) + Len(new)
      /\ \A i \in 1..Len(gym) + Len(new) :
           (gym \o new)[i] = IF i <= Len(gym) THEN gym[i] ELSE new[i - Len(gym)]
  BY <1>1, ConcatProperties
<1>3. \A i \in 1..Len(gym) : i \in 1..Len(gym') /\ gym'[i] = gym[i]
  <2>1. Len(new) \in Nat  OBVIOUS
  <2>. QED  BY <1>1, <1>2, <2>1
<1>4. CaptureTypeOK'  BY <1>2, <1>i DEF CaptureTypeOK
<1>5. SameGame  BY DEF SameGame, Rows
<1>6. HeldOK' /\ OverOK' /\ WrittenOK'  BY <1>5, <1>i, <1>p, SameGameInv
<1>7. CallsOK'
  <2>1. \A k, c : GymRows(k, c) \subseteq GymRows(k, c)'  BY <1>3 DEF GymRows
  <2>2. \A c \in Calls : \A i \in GymRows("seat_callback", c) : gym'[i] = gym[i]  BY <1>3 DEF GymRows
  <2>3. Calls' = Calls  BY DEF Calls
  <2>4. ASSUME NEW c \in Calls, calls[c].status = "taken"
        PROVE  \E i \in GymRows("seat_callback", c)' : calls[c].choice = Accepted(calls[c].kind, gym'[i].choice)
    <3>1. PICK i \in GymRows("seat_callback", c) : calls[c].choice = Accepted(calls[c].kind, gym[i].choice)
      BY <2>4, <1>p DEF CallsOK
    <3>. QED  BY <3>1, <2>1, <2>2
  <2>5. \A c \in Calls : calls[c].status # "taken" => calls[c].choice = None  BY <1>p DEF CallsOK
  <2>6. calls' = calls  OBVIOUS
  <2>. QED  BY ONLY <2>3, <2>4, <2>5, <2>6 DEF CallsOK
<1>8. BootOK'
  <2>1. Calls' = Calls /\ Asked' = Asked /\ \A c : Stands(c)' <=> Stands(c)  BY DEF Calls, Asked, Stands
  <2>. QED  BY <2>1, <1>p DEF BootOK
<1>9. EvidenceOK'  BY StillOpen
<1>. QED  BY <1>4, <1>6, <1>7, <1>8, <1>9 DEF CaptureInv, PlayedOK

\* One row that is new of its callback, and comes after the one that begins it.
LEMMA GymRowAdded ==
  ASSUME CaptureTypeOK, GymOK, calls' = calls, NEW g \in GymRow, gym' = gym \o <<g>>,
         g.cid \in Calls, g.kind \in {"decision_started", "seat_callback"}, GymRows(g.kind, g.cid) = {},
         g.kind = "seat_callback" =>
           /\ \E p \in Picks : g.choice = Choice(calls[g.cid].kind, p)
           /\ GymRows("decision_started", g.cid) # {}
  PROVE  GymOK'
<1>1. gym \in Seq(GymRow) /\ Len(gym) \in Nat  BY StateTypes DEF CaptureTypeOK
<1>2. PICK n \in Nat : n = Len(gym) + 1  BY <1>1
<1>3. Len(gym') = n /\ gym'[n] = g /\ \A i \in 1..Len(gym) : gym'[i] = gym[i]  BY <1>1, <1>2
<1>4. \A i \in 1..n : i = n \/ (i \in 1..Len(gym) /\ gym'[i] = gym[i] /\ i < n)  BY <1>1, <1>2, <1>3
<1>5. Calls' = Calls  BY DEF Calls
<1>6. ASSUME NEW i \in 1..n
      PROVE  /\ gym'[i].kind \in {"decision_started", "seat_callback"} => gym'[i].cid \in Calls
             /\ gym'[i].kind \in {"resume", "runtime_context"} => gym'[i].cid = 0
             /\ gym'[i].kind = "seat_callback" =>
                  /\ \E p \in Picks : gym'[i].choice = Choice(calls[gym'[i].cid].kind, p)
                  /\ \E j \in 1..n : j < i /\ gym'[j].kind = "decision_started" /\ gym'[j].cid = gym'[i].cid
  <2>1. CASE i = n
    <3>1. /\ gym'[i].kind \in {"decision_started", "seat_callback"} => gym'[i].cid \in Calls
          /\ gym'[i].kind \in {"resume", "runtime_context"} => gym'[i].cid = 0
          /\ gym'[i].kind = "seat_callback" => \E p \in Picks : gym'[i].choice = Choice(calls[gym'[i].cid].kind, p)
      BY <2>1, <1>3
    <3>2. ASSUME gym'[i].kind = "seat_callback"
          PROVE  \E j \in 1..n : j < i /\ gym'[j].kind = "decision_started" /\ gym'[j].cid = gym'[i].cid
      <4>1. PICK j \in 1..Len(gym) : gym[j].kind = "decision_started" /\ gym[j].cid = g.cid
        BY <3>2, <2>1, <1>3 DEF GymRows
      <4>2. j \in 1..n /\ j < n  BY <1>1, <1>2
      <4>. QED  BY <4>1, <4>2, <2>1, <1>3
    <3>. QED  BY <3>1, <3>2
  <2>2. CASE i # n
    <3>1. i \in 1..Len(gym) /\ gym'[i] = gym[i]  BY <2>2, <1>4
    <3>2. /\ gym[i].kind \in {"decision_started", "seat_callback"} => gym[i].cid \in Calls
          /\ gym[i].kind \in {"resume", "runtime_context"} => gym[i].cid = 0
          /\ gym[i].kind = "seat_callback" =>
               /\ \E p \in Picks : gym[i].choice = Choice(calls[gym[i].cid].kind, p)
               /\ \E j \in 1..Len(gym) : j < i /\ gym[j].kind = "decision_started" /\ gym[j].cid = gym[i].cid
      BY <3>1 DEF GymOK
    <3>3. \A j \in 1..Len(gym) : j \in 1..n /\ gym'[j] = gym[j]  BY <1>1, <1>2, <1>3
    <3>. QED  BY <3>1, <3>2, <3>3
  <2>. QED  BY <2>1, <2>2
<1>7. \A i \in 1..Len(gym) : ~(gym[i].kind = g.kind /\ gym[i].cid = g.cid)  BY DEF GymRows
<1>8. \A i, j \in 1..Len(gym) :
        gym[i].kind = gym[j].kind /\ gym[i].cid = gym[j].cid
          /\ gym[i].kind \in {"decision_started", "seat_callback"} => i = j
  BY DEF GymOK
<1>9. \A i, j \in 1..n :
        gym'[i].kind = gym'[j].kind /\ gym'[i].cid = gym'[j].cid
          /\ gym'[i].kind \in {"decision_started", "seat_callback"} => i = j
  BY <1>3, <1>4, <1>7, <1>8
<1>10. \A i \in 1..Len(gym)' :
         /\ gym'[i].kind \in {"decision_started", "seat_callback"} => gym'[i].cid \in Calls'
         /\ gym'[i].kind \in {"resume", "runtime_context"} => gym'[i].cid = 0
         /\ gym'[i].kind = "seat_callback" =>
              /\ \E p \in Picks : gym'[i].choice = Choice(calls'[gym'[i].cid].kind, p)
              /\ \E j \in 1..Len(gym)' : j < i /\ gym'[j].kind = "decision_started" /\ gym'[j].cid = gym'[i].cid
  BY ONLY <1>3, <1>5, <1>6, calls' = calls
<1>11. \A i, j \in 1..Len(gym)' :
         gym'[i].kind = gym'[j].kind /\ gym'[i].cid = gym'[j].cid
           /\ gym'[i].kind \in {"decision_started", "seat_callback"} => i = j
  BY ONLY <1>3, <1>9
<1>. QED  BY ONLY <1>10, <1>11 DEF GymOK

LEMMA StartsInv ==
  ASSUME CaptureInv, NEW c \in Calls, Starts(c)
  PROVE  CaptureInv'
<1>i. CaptureTypeOK /\ GymOK  BY DEF CaptureInv, PlayedOK
<1>1. PICK g, new : /\ g = [kind |-> "decision_started", cid |-> c, choice |-> None]
                    /\ new = <<g>>
  OBVIOUS
<1>2. g \in GymRow /\ new \in Seq(GymRow)
  <2>1. c \in Nat  BY DEF Calls
  <2>. QED  BY <2>1, <1>1, HumanIsNoSeat DEF GymRow
<1>3. gym' = gym \o <<g>>
  <2>1. gym \in Seq(GymRow)  BY <1>i DEF CaptureTypeOK
  <2>. QED  BY <2>1, <1>1, <1>2, AppendIsConcat DEF Starts
<1>4. GymOK'  BY <1>1, <1>2, <1>3, <1>i, GymRowAdded DEF Starts
<1>. QED  BY <1>1, <1>2, <1>3, <1>4, GymGrows DEF Starts, Unsealed

LEMMA FinishesInv ==
  ASSUME CaptureInv, NEW c \in Calls, Finishes(c)
  PROVE  CaptureInv'
<1>i. CaptureTypeOK /\ GymOK  BY DEF CaptureInv, PlayedOK
<1>0. PICK p \in recording.picks :
        gym' = Append(gym, [kind |-> "seat_callback", cid |-> c, choice |-> Choice(calls[c].kind, p)])
  BY DEF Finishes
<1>1. PICK g, new : /\ g = [kind |-> "seat_callback", cid |-> c, choice |-> Choice(calls[c].kind, p)]
                    /\ new = <<g>>
  OBVIOUS
<1>2. g \in GymRow /\ new \in Seq(GymRow) /\ p \in Picks
  <2>1. c \in Nat  BY DEF Calls
  <2>2. p \in Picks  BY <1>i, PicksAreTyped
  <2>3. Choice(calls[c].kind, p) \in Wordings  BY <2>2, <1>i, CallTypes, ChoiceTypes
  <2>. QED  BY <2>1, <2>2, <2>3, <1>1 DEF GymRow, Words
<1>3. gym' = gym \o <<g>>
  <2>1. gym \in Seq(GymRow)  BY <1>i DEF CaptureTypeOK
  <2>. QED  BY <2>1, <1>0, <1>1, <1>2, AppendIsConcat
<1>4. GymOK'  BY <1>1, <1>2, <1>3, <1>i, GymRowAdded DEF Finishes
<1>. QED  BY <1>1, <1>2, <1>3, <1>4, GymGrows DEF Finishes, Unsealed

LEMMA RecorderRestartsInv ==
  ASSUME CaptureInv, RecorderRestarts
  PROVE  CaptureInv'
<1>i. CaptureTypeOK /\ GymOK  BY DEF CaptureInv, PlayedOK
<1>1. PICK new : new = [i \in 1..2 |-> [kind |-> <<"resume", "runtime_context">>[i], cid |-> 0, choice |-> None]]
  OBVIOUS
<1>2. new \in Seq(GymRow) /\ Len(new) = 2
      /\ \A i \in 1..2 : new[i].kind \in {"resume", "runtime_context"} /\ new[i].cid = 0
  <2>1. \A i \in 1..2 : new[i] \in GymRow
                        /\ new[i].kind \in {"resume", "runtime_context"} /\ new[i].cid = 0
    BY <1>1, HumanIsNoSeat DEF GymRow
  <2>2. new \in [1..2 -> GymRow]  BY <1>1, <2>1
  <2>3. new \in Seq(GymRow)  BY <2>2, SeqDef
  <2>4. Len(new) = 2  BY <2>2, <2>3, LenProperties
  <2>. QED  BY <2>1, <2>3, <2>4
<1>3. gym' = gym \o new  BY <1>1 DEF RecorderRestarts
<1>4. gym \in Seq(GymRow) /\ Len(gym) \in Nat  BY <1>i, StateTypes DEF CaptureTypeOK
<1>5. /\ Len(gym') = Len(gym) + 2
      /\ \A i \in 1..Len(gym) + 2 : gym'[i] = IF i <= Len(gym) THEN gym[i] ELSE new[i - Len(gym)]
  <2>1. /\ Len(gym \o new) = Len(gym) + Len(new)
        /\ \A i \in 1..Len(gym) + Len(new) :
             (gym \o new)[i] = IF i <= Len(gym) THEN gym[i] ELSE new[i - Len(gym)]
    BY <1>2, <1>4, ConcatProperties
  <2>. QED  BY ONLY <2>1, <1>2, <1>3
<1>6. \A i \in 1..Len(gym') : \/ i \in 1..Len(gym) /\ gym'[i] = gym[i]
                              \/ gym'[i].kind \in {"resume", "runtime_context"} /\ gym'[i].cid = 0
  <2>1. TAKE i \in 1..Len(gym')
  <2>2. CASE i <= Len(gym)  BY <2>2, <1>4, <1>5
  <2>3. CASE ~(i <= Len(gym))
    <3>1. i - Len(gym) \in 1..2 /\ i \in 1..Len(gym) + 2  BY <2>3, <1>4, <1>5
    <3>2. gym'[i] = new[i - Len(gym)]  BY <3>1, <2>3, <1>5
    <3>. QED  BY <3>1, <3>2, <1>2
  <2>. QED  BY <2>2, <2>3
<1>7. \A i \in 1..Len(gym) : i \in 1..Len(gym') /\ gym'[i] = gym[i]  BY <1>4, <1>5
<1>8. GymOK'
  <2>1. calls' = calls /\ Calls' = Calls  BY DEF RecorderRestarts, Calls
  <2>2. ASSUME NEW i \in 1..Len(gym')
        PROVE  /\ gym'[i].kind \in {"decision_started", "seat_callback"} => gym'[i].cid \in Calls
               /\ gym'[i].kind \in {"resume", "runtime_context"} => gym'[i].cid = 0
               /\ gym'[i].kind = "seat_callback" =>
                    /\ \E p \in Picks : gym'[i].choice = Choice(calls[gym'[i].cid].kind, p)
                    /\ \E j \in 1..Len(gym') : j < i /\ gym'[j].kind = "decision_started" /\ gym'[j].cid = gym'[i].cid
    <3>1. CASE i \in 1..Len(gym) /\ gym'[i] = gym[i]
      <4>1. /\ gym[i].kind \in {"decision_started", "seat_callback"} => gym[i].cid \in Calls
            /\ gym[i].kind \in {"resume", "runtime_context"} => gym[i].cid = 0
            /\ gym[i].kind = "seat_callback" =>
                 /\ \E p \in Picks : gym[i].choice = Choice(calls[gym[i].cid].kind, p)
                 /\ \E j \in 1..Len(gym) : j < i /\ gym[j].kind = "decision_started" /\ gym[j].cid = gym[i].cid
        BY <3>1, <1>i DEF GymOK
      <4>. QED  BY <4>1, <3>1, <1>7
    <3>2. CASE gym'[i].kind \in {"resume", "runtime_context"} /\ gym'[i].cid = 0  BY <3>2
    <3>. QED  BY <3>1, <3>2, <1>6
  <2>3. \A i, j \in 1..Len(gym) :
          gym[i].kind = gym[j].kind /\ gym[i].cid = gym[j].cid
            /\ gym[i].kind \in {"decision_started", "seat_callback"} => i = j
    BY <1>i DEF GymOK
  <2>4. ASSUME NEW i \in 1..Len(gym'), NEW j \in 1..Len(gym'), gym'[i].kind = gym'[j].kind,
               gym'[i].cid = gym'[j].cid, gym'[i].kind \in {"decision_started", "seat_callback"}
        PROVE  i = j
    BY <2>3, <2>4, <1>6
  <2>. QED  BY <2>1, <2>2, <2>4 DEF GymOK
<1>. QED  BY <1>2, <1>3, <1>8, GymGrows DEF RecorderRestarts, Unsealed
-----------------------------------------------------------------------------
(* What the rows tell, when none is missing and every restored state is     *)
(* where the rows before it lead.                                           *)

CleanRows(rows) == \A j \in 1..Len(rows) : ~Bad(rows, j)

LEMMA RowsChain ==
  ASSUME CaptureTypeOK, RowsOK, LineOK, CleanRows(Rows)
  PROVE  Chained(Rows)
<1>1. ASSUME NEW r \in Steps(Rows)
      PROVE  Rows[r].before = Led(Rows, r)
             /\ \E move \in Moved : Rows[r].state = Append(Rows[r].before, move)
  <2>1. r \in 1..Len(Rows) /\ Rows[r].kind = "native_transition"  BY DEF Steps
  <2>2. \A j \in 1..(r - 1) : j \in 1..Len(Rows)  BY <2>1, StateTypes
  <2>3. Rows[r].before = Led(Rows, r)  BY <2>2 DEF LineOK, CleanRows
  <2>4. StepOK(Rows, r)  BY <2>1 DEF RowsOK, RowOK
  <2>. QED  BY <2>3, <2>4 DEF StepOK
<1>. QED  BY <1>1 DEF Chained

\* A length tells the move.
LEMMA OneOfALength ==
  ASSUME NEW rows \in Seq(SourceRow), Chained(rows), NEW i \in Steps(rows), NEW j \in Steps(rows),
         Len(rows[i].state) = Len(rows[j].state)
  PROVE  i = j
<1>1. i \in Nat /\ j \in Nat  BY DEF Steps
<1>2. Len(rows[i].state) \in Nat
  <2>1. rows[i] \in SourceRow  BY DEF Steps
  <2>. QED  BY <2>1 DEF SourceRow
<1>3. CASE i < j  BY <1>2, <1>3, StatesGrow
<1>4. CASE j < i  BY <1>2, <1>4, StatesGrow
<1>. QED  BY <1>1, <1>3, <1>4

\* The game that plays is where the last move leads: every move is within it.
LEMMA MovesAreHeld ==
  ASSUME CaptureTypeOK, RowsOK, LineOK, CleanRows(Rows), native.up, NEW r \in Steps(Rows)
  PROVE  /\ Len(Rows[r].state) \in 1..Len(native.held)
         /\ Rows[r].state[Len(Rows[r].state)] = Digest(native.held)[Len(Rows[r].state)]
<1>1. Rows \in Seq(SourceRow) /\ Len(Rows) \in Nat /\ native.held \in Seq(HeldMove)  BY StateTypes
<1>2. Chained(Rows)  BY RowsChain
<1>3. Led(Rows, Len(Rows) + 1) = Digest(native.held)  BY DEF LineOK, CleanRows
<1>4. r \in StepsBefore(Rows, Len(Rows) + 1) /\ r \in Nat  BY <1>1 DEF StepsBefore, Steps
<1>5. PICK l \in StepsBefore(Rows, Len(Rows) + 1) :
        Led(Rows, Len(Rows) + 1) = Rows[l].state /\ \A k \in StepsBefore(Rows, Len(Rows) + 1) : k <= l
  <2>1. PICK n \in Nat : n = Len(Rows) + 1  BY <1>1
  <2>2. r \in StepsBefore(Rows, n)  BY <1>4, <2>1
  <2>3. \E l \in StepsBefore(Rows, n) :
          Led(Rows, n) = Rows[l].state /\ \A k \in StepsBefore(Rows, n) : k <= l
    BY ONLY <2>2, <1>1, LedIs, n \in Nat
  <2>. QED  BY ONLY <2>1, <2>3
<1>6. l \in Steps(Rows) /\ l \in Nat /\ r <= l  BY <1>4, <1>5 DEF StepsBefore, Steps
<1>7. PICK s \in Seq(Moved), t \in Seq(Moved) : s = Rows[r].state /\ t = Rows[l].state
  <2>1. Rows[r] \in SourceRow /\ Rows[l] \in SourceRow  BY <1>1, <1>6 DEF Steps
  <2>. QED  BY <2>1 DEF SourceRow
<1>8. Within(s, t)
  <2>1. CASE r = l  BY <2>1, <1>7 DEF Within
  <2>2. CASE r < l  BY <2>2, <1>1, <1>2, <1>6, <1>7, StatesGrow
  <2>. QED  BY <2>1, <2>2, <1>4, <1>6
<1>9. Len(s) > 0
  <2>1. PICK move \in Moved : Rows[r].state = Append(Rows[r].before, move)  BY <1>2 DEF Chained
  <2>2. Rows[r].before \in Seq(Moved)
    <3>1. Rows[r] \in SourceRow  BY <1>1 DEF Steps
    <3>. QED  BY <3>1 DEF SourceRow
  <2>. QED  BY <2>1, <2>2, <1>7
<1>10. t = Digest(native.held) /\ Len(t) = Len(native.held)  BY <1>1, <1>3, <1>5, <1>7, DigestOf
<1>11. Len(s) \in 1..Len(s) /\ Len(s) \in 1..Len(t) /\ t[Len(s)] = s[Len(s)]  BY <1>8, <1>9 DEF Within
<1>. QED  BY <1>7, <1>10, <1>11

\* What was taken was answered, and is a choice.
LEMMA TakenIsAnswered ==
  ASSUME CaptureTypeOK, GymOK, CallsOK, NEW c \in Calls, calls[c].status = "taken"
  PROVE  /\ c \in Completed /\ calls[c].choice # None
         /\ \E i \in GymRows("seat_callback", c), p \in Picks :
              /\ gym[i].choice = Choice(calls[c].kind, p)
              /\ calls[c].choice = Accepted(calls[c].kind, gym[i].choice)
<1>1. PICK i \in GymRows("seat_callback", c) : calls[c].choice = Accepted(calls[c].kind, gym[i].choice)
  BY DEF CallsOK
<1>2. i \in 1..Len(gym) /\ gym[i].kind = "seat_callback" /\ gym[i].cid = c  BY DEF GymRows
<1>3. PICK p \in Picks : gym[i].choice = Choice(calls[c].kind, p)  BY <1>2 DEF GymOK
<1>4. calls[c].choice # None  BY <1>1, <1>3, CallTypes, ChoiceTypes
<1>. QED  BY <1>1, <1>3, <1>4 DEF Completed

\* Every call that was taken is held, if its result is among the rows.
LEMMA TakenAreHeld ==
  ASSUME CaptureInv, native.gaps = 0, native.up, CleanRows(Rows),
         \A c \in Calls : calls[c].status = "taken" => Shown("ai_callback_result", c)
  PROVE  \A c \in Calls : calls[c].status = "taken" => Stands(c)
<1>i. CaptureTypeOK /\ PlayedOK /\ WrittenOK  BY DEF CaptureInv
<1>p. GymOK /\ CallsOK /\ HeldOK  BY <1>i DEF PlayedOK
<1>w. RowsOK /\ LineOK  BY <1>i DEF WrittenOK
<1>t. Rows \in Seq(SourceRow) /\ Len(Rows) \in Nat /\ native.held \in Seq(HeldMove)  BY <1>i, StateTypes
<1>1. TAKE c \in Calls
<1>2. SUFFICES ASSUME calls[c].status = "taken" PROVE Stands(c)  OBVIOUS
<1>3. \A d \in Calls : calls[d].status = "taken" =>
        \E r \in 1..Len(Rows) : Rows[r].cid = d /\ ResultOK(Rows, r) /\ r - 1 \in Steps(Rows)
  <2>1. TAKE d \in Calls
  <2>2. SUFFICES ASSUME calls[d].status = "taken"
                 PROVE \E r \in 1..Len(Rows) : Rows[r].cid = d /\ ResultOK(Rows, r) /\ r - 1 \in Steps(Rows)
    OBVIOUS
  <2>3. PICK r \in 1..Len(Rows) : Rows[r].kind = "ai_callback_result" /\ Rows[r].cid = d
    BY <2>2 DEF Shown
  <2>4. ResultOK(Rows, r)  BY <2>3, <1>w DEF RowsOK, RowOK
  <2>5. r > 1 /\ Rows[r - 1].kind = "native_transition"  BY <2>4 DEF ResultOK
  <2>6. r - 1 \in Steps(Rows)  BY <2>5, <1>t DEF Steps
  <2>. QED  BY <2>3, <2>4, <2>6
<1>4. PICK r \in 1..Len(Rows) : Rows[r].cid = c /\ ResultOK(Rows, r) /\ r - 1 \in Steps(Rows)
  BY <1>2, <1>3
<1>5. PICK m : m = Len(Rows[r - 1].state)  OBVIOUS
<1>6. m \in 1..Len(native.held) /\ Digest(native.held)[m] = <<calls[c].seat, calls[c].choice>>
  <2>1. m \in 1..Len(native.held) /\ Rows[r - 1].state[m] = Digest(native.held)[m]
    BY <1>4, <1>5, <1>i, <1>w, MovesAreHeld
  <2>2. Rows[r - 1].state[m] = <<calls[c].seat, calls[c].choice>>  BY <1>4, <1>5 DEF ResultOK
  <2>. QED  BY <2>1, <2>2
<1>7. native.held[m].seat = calls[c].seat /\ native.held[m].choice = calls[c].choice
  BY <1>6, <1>t, DigestOf
<1>8. PICK d : d = native.held[m].cid  OBVIOUS
<1>9. d \in Calls /\ calls[d].status = "taken"
  <2>1. MoveOK(native.held[m])  BY <1>6, <1>p DEF HeldOK
  <2>2. calls[c].choice # None  BY <1>2, <1>i, <1>p, TakenIsAnswered
  <2>3. d # 0 /\ d \in Calls /\ calls[d].choice # None  BY <2>1, <2>2, <1>7, <1>8 DEF MoveOK
  <2>. QED  BY <2>3, <1>p DEF CallsOK
<1>10. PICK q \in 1..Len(Rows) : Rows[q].cid = d /\ ResultOK(Rows, q) /\ q - 1 \in Steps(Rows)
  BY <1>3, <1>9
<1>11. m = Len(Rows[q - 1].state)  BY <1>6, <1>8, <1>10 DEF ResultOK
<1>12. r - 1 = q - 1
  <2>1. Chained(Rows)  BY <1>i, <1>w, RowsChain
  <2>. QED  BY <2>1, <1>t, <1>4, <1>5, <1>10, <1>11, OneOfALength
<1>13. r = q  BY <1>12, <1>t
<1>14. d = c  BY <1>4, <1>10, <1>13
<1>. QED  BY <1>6, <1>8, <1>14 DEF Stands

\* A move that the game made for a seat has its disposition among the rows.
LEMMA NoneGivenUp ==
  ASSUME CaptureInv, native.gaps = 0, native.up, CleanRows(Rows),
         \A r \in 1..Len(Rows) : Rows[r].kind # "ai_callback_disposition",
         NEW i \in 1..Len(native.held), native.held[i].cid # 0
  PROVE  native.held[i].cid \in Calls /\ calls[native.held[i].cid].status = "taken"
<1>i. CaptureTypeOK /\ PlayedOK /\ WrittenOK  BY DEF CaptureInv
<1>p. GymOK /\ CallsOK /\ HeldOK  BY <1>i DEF PlayedOK
<1>w. RowsOK /\ LineOK  BY <1>i DEF WrittenOK
<1>t. Rows \in Seq(SourceRow) /\ Len(Rows) \in Nat /\ native.held \in Seq(HeldMove)
      /\ Len(native.held) \in Nat
  BY <1>i, StateTypes
<1>1. PICK d : d = native.held[i].cid  OBVIOUS
<1>2. /\ d \in Calls /\ native.held[i].seat = calls[d].seat /\ native.held[i].choice = calls[d].choice
      /\ calls[d].status \in {"taken", "given up"}
  <2>1. MoveOK(native.held[i])  BY <1>p DEF HeldOK
  <2>. QED  BY <2>1, <1>1 DEF MoveOK
<1>3. ASSUME calls[d].status = "given up" PROVE FALSE
  <2>1. Digest(native.held)[i] = <<calls[d].seat, None>>
    <3>1. calls[d].choice = None  BY <1>2, <1>3, <1>p DEF CallsOK
    <3>. QED  BY <3>1, <1>2, <1>t, DigestOf
  <2>2. Chained(Rows)  BY <1>i, <1>w, RowsChain
  <2>3. Led(Rows, Len(Rows) + 1) = Digest(native.held) /\ Len(Digest(native.held)) = Len(native.held)
    BY <1>t, <1>w, DigestOf DEF LineOK, CleanRows
  <2>4. PICK l \in Steps(Rows) : Rows[l].state = Digest(native.held)
    <3>1. Led(Rows, Len(Rows) + 1) # <<>>  BY <2>3, <1>t
    <3>. QED  BY <3>1, <2>3, <1>t, LedIs DEF StepsBefore
  <2>5. PICK j \in Steps(Rows) : j <= l /\ Len(Rows[j].state) = i
    BY <2>2, <2>3, <2>4, <1>t, StatesOfEveryLength
  <2>6. Rows[j].state[i] = <<calls[d].seat, None>>
    BY <2>1, <2>5, <1>i, <1>w, MovesAreHeld
  <2>7. j \in 1..Len(Rows) /\ Rows[j].kind = "native_transition"  BY DEF Steps
  <2>8. StepOK(Rows, j)  BY <2>7, <1>w DEF RowsOK, RowOK
  <2>9. PICK move \in Moved :
          /\ Rows[j].state = Append(Rows[j].before, move)
          /\ move[2] = None /\ move[1] # Human => j > 1 /\ Rows[j - 1].kind = "ai_callback_disposition"
    BY <2>8 DEF StepOK
  <2>10. move = <<calls[d].seat, None>>
    <3>1. Rows[j].before \in Seq(Moved)  BY <2>7, <1>t, SourceRowTypes
    <3>2. PICK b \in Seq(Moved) : b = Rows[j].before  BY <3>1
    <3>3. Append(b, move)[Len(b) + 1] = move /\ Len(Append(b, move)) = Len(b) + 1  BY AppendProperties
    <3>. QED  BY ONLY <3>2, <3>3, <2>5, <2>6, <2>9
  <2>11. calls[d].seat # Human  BY <1>2, <1>i, CallTypes, HumanIsNoSeat
  <2>12. j > 1 /\ Rows[j - 1].kind = "ai_callback_disposition"  BY <2>9, <2>10, <2>11
  <2>13. j - 1 \in 1..Len(Rows)  BY <2>7, <2>12, <1>t
  <2>. QED  BY <2>12, <2>13
<1>. QED  BY <1>1, <1>2, <1>3
-----------------------------------------------------------------------------
(* The readers, when all that was written is imported.                      *)

LEMMA OneIs ==
  ASSUME NEW S, One(S), IsFiniteSet(S)
  PROVE  The(S) \in S /\ \A x \in S : x = The(S)
<1>1. PICK x : S = {x}  BY FS_Singleton DEF One
<1>2. The(S) = x  BY <1>1 DEF The
<1>. QED  BY <1>1, <1>2

LEMMA OneOf ==
  ASSUME NEW S, NEW x, S = {x}
  PROVE  One(S) /\ The(S) = x
<1>1. Cardinality({x}) = 1  BY FS_Singleton
<1>. QED  BY <1>1 DEF One, The

LEMMA PlacesOfRows ==
  ASSUME CaptureTypeOK, imported = Len(source)
  PROVE  /\ \A k : \A i \in At(k) : i \in 1..Len(Rows) /\ source[i] = Rows[i] /\ Rows[i].kind = k
         /\ \A k, c : \A i \in RowsOf(k, c) : i \in At(k) /\ Rows[i].cid = c
         /\ \A k, c : IsFiniteSet(At(k)) /\ IsFiniteSet(RowsOf(k, c)) /\ IsFiniteSet(GymRows(k, c))
<1>1. ASSUME NEW k, NEW i \in At(k)
      PROVE  i \in 1..Len(Rows) /\ source[i] = Rows[i] /\ Rows[i].kind = k
  <2>1. i \in 1..Len(source) /\ source[i].kind = k  BY <1>1 DEF At
  <2>. QED  BY <2>1, StateTypes
<1>2. \A k, c : \A i \in RowsOf(k, c) : i \in At(k) /\ Rows[i].cid = c
  <2>1. \A k, c : \A i \in RowsOf(k, c) : i \in At(k) /\ source[i].cid = c  BY DEF RowsOf
  <2>. QED  BY <2>1, <1>1
<1>3. \A k, c : IsFiniteSet(At(k)) /\ IsFiniteSet(RowsOf(k, c)) /\ IsFiniteSet(GymRows(k, c))
  <2>1. IsFiniteSet(1..Len(source)) /\ IsFiniteSet(1..Len(gym))  BY StateTypes, FS_Interval
  <2>2. \A k : At(k) \in SUBSET (1..Len(source))  BY DEF At
  <2>3. \A k, c : RowsOf(k, c) \in SUBSET (1..Len(source))  BY <2>2 DEF RowsOf
  <2>4. \A k, c : GymRows(k, c) \in SUBSET (1..Len(gym))  BY DEF GymRows
  <2>. QED  BY <2>1, <2>2, <2>3, <2>4, FS_Subset
<1>. QED  BY <1>1, <1>2, <1>3

\* All the rows are on disk.
LEMMA AllPlaces ==
  ASSUME CaptureTypeOK, imported = Len(source), native.queue = <<>>
  PROVE  /\ Rows = source /\ \A k : At(k) = {i \in 1..Len(Rows) : Rows[i].kind = k}
         /\ \A k, c : RowsOf(k, c) = {i \in 1..Len(Rows) : Rows[i].kind = k /\ Rows[i].cid = c}
<1>1. Rows = source
  <2>1. source \in Seq(SourceRow)  BY StateTypes
  <2>. QED  BY <2>1, ConcatEmptySeq DEF Rows
<1>2. \A k : At(k) = {i \in 1..Len(Rows) : Rows[i].kind = k}  BY <1>1 DEF At
<1>. QED  BY <1>1, <1>2 DEF RowsOf

LEMMA BeforeIsLed ==
  ASSUME CaptureTypeOK, imported = Len(source), NEW i \in Nat, i <= Len(source) + 1
  PROVE  Before(i) = Led(Rows, i)
<1>1. /\ source \in Seq(SourceRow) /\ Rows \in Seq(SourceRow) /\ Extends(Rows, source)
  <2>1. Len(source) <= Len(Rows)  BY StateTypes
  <2>. QED  BY <2>1, StateTypes DEF Extends
<1>2. Led(Rows, i) = Led(source, i)  BY <1>1, LedSame
<1>3. {j \in At("native_transition") : j < i} = StepsBefore(source, i)
  BY DEF At, Steps, StepsBefore
<1>4. Before(i) = Led(source, i)  BY <1>3 DEF Before, Led
<1>. QED  BY <1>2, <1>4

\* A restored game that the reader accepts is where the rows before it lead.
LEMMA RestoredIsTrue ==
  ASSUME CaptureTypeOK, RowsOK, imported = Len(source), Authenticated,
         \A i \in 1..Len(native.queue) : native.queue[i].kind # "callback_resume_state"
  PROVE  CleanRows(Rows)
<1>t. /\ Rows \in Seq(SourceRow) /\ Len(Rows) = Len(source) + Len(native.queue)
      /\ Len(source) \in Nat /\ Len(native.queue) \in Nat
      /\ \A i \in 1..Len(source) : Rows[i] = source[i]
      /\ \A i \in 1..Len(native.queue) : Rows[Len(source) + i] = native.queue[i]
  BY StateTypes
<1>1. SUFFICES ASSUME NEW j \in 1..Len(Rows), Bad(Rows, j) PROVE FALSE  BY DEF CleanRows
<1>2. Rows[j].kind = "callback_resume_state" /\ Rows[j].state # Led(Rows, j)  BY <1>1 DEF Bad
<1>3. j \in 1..Len(source)
  <2>1. SUFFICES ASSUME j \notin 1..Len(source) PROVE FALSE  OBVIOUS
  <2>2. j - Len(source) \in 1..Len(native.queue) /\ Len(source) + (j - Len(source)) = j  BY <2>1, <1>t
  <2>. QED  BY <2>2, <1>2, <1>t
<1>4. j \in At("callback_resume_state")  BY <1>2, <1>3, <1>t DEF At
<1>5. j > 1 /\ Rows[j - 1].kind = "state_checkpoint"  BY <1>2 DEF RowsOK, RowOK
<1>6. j - 1 \notin At("resume")
  <2>1. j - 1 \in 1..Len(source)  BY <1>3, <1>5, <1>t
  <2>. QED  BY <2>1, <1>5, <1>t DEF At
<1>7. PICK i : i = j - 2  OBVIOUS
<1>8. i \in At("resume")  BY <1>4, <1>6, <1>7 DEF Authenticated
<1>9. i \in 1..Len(Rows) /\ source[i] = Rows[i] /\ Rows[i].kind = "resume"  BY <1>8, PlacesOfRows
<1>10. i + 1 = j - 1 /\ i + 2 = j /\ i \in Nat /\ i + 1 \in 1..Len(Rows)  BY <1>3, <1>7, <1>9, <1>t
<1>11. i + 1 \notin At("callback_resume_state")  BY <1>5, <1>10, PlacesOfRows
<1>12. source[j].state = Before(i)  BY <1>8, <1>10, <1>11 DEF Authenticated
<1>13. Before(i) = Led(Rows, i)  BY <1>10, <1>9, <1>3, <1>t, BeforeIsLed
<1>14. Led(Rows, i + 1) = Led(Rows, i)  BY <1>9, <1>t, LedNext
<1>15. Led(Rows, (i + 1) + 1) = Led(Rows, i + 1)  BY <1>5, <1>10, <1>t, LedNext
<1>16. (i + 1) + 1 = j  BY <1>10
<1>. QED  BY <1>2, <1>3, <1>12, <1>13, <1>14, <1>15, <1>16, <1>t

\* The record of a result is what was played.
LEMMA RecordIsTruth ==
  ASSUME CaptureTypeOK, RowsOK, imported = Len(source), NEW c, One(RowsOf("ai_callback_result", c))
  PROVE  /\ c \in Calls /\ calls[c].status = "taken" /\ Shown("ai_callback_result", c)
         /\ AcceptedOf(c) = calls[c].choice /\ RecordOf(c) = Truth(c)
<1>1. PICK r : r = The(RowsOf("ai_callback_result", c))  OBVIOUS
<1>2. r \in RowsOf("ai_callback_result", c)  BY <1>1, OneIs, PlacesOfRows
<1>3. r \in 1..Len(Rows) /\ source[r] = Rows[r] /\ Rows[r].kind = "ai_callback_result" /\ Rows[r].cid = c
  BY <1>2, PlacesOfRows
<1>4. ResultOK(Rows, r)  BY <1>3 DEF RowsOK, RowOK
<1>5. c \in Calls /\ calls[c].status = "taken" /\ Rows[r].choice = calls[c].choice
  BY <1>3, <1>4 DEF ResultOK
<1>6. AcceptedOf(c) = calls[c].choice  BY <1>1, <1>3, <1>5 DEF AcceptedOf
<1>. QED  BY <1>3, <1>5, <1>6 DEF Shown, RecordOf, Truth

\* In a recording that is whole so far, the callbacks the Gym finished are those that were
\* taken and are kept.
LEMMA FinishedAreHeld ==
  ASSUME CaptureInv, native.gaps = 0, native.up, imported = Len(source), Authenticated,
         \A i \in 1..Len(native.queue) : native.queue[i].kind # "callback_resume_state",
         \A c \in Completed : One(RowsOf("ai_callback_result", c))
  PROVE  CleanRows(Rows) /\ Completed = TakenAndKept
<1>i. CaptureTypeOK /\ PlayedOK /\ WrittenOK  BY DEF CaptureInv
<1>p. GymOK /\ CallsOK  BY <1>i DEF PlayedOK
<1>w. RowsOK  BY <1>i DEF WrittenOK
<1>1. CleanRows(Rows)  BY <1>i, <1>w, RestoredIsTrue
<1>2. \A c \in Calls : calls[c].status = "taken" <=> c \in Completed
  <2>1. \A c \in Completed : calls[c].status = "taken"  BY <1>i, <1>w, RecordIsTruth
  <2>. QED  BY <2>1, <1>i, <1>p, TakenIsAnswered
<1>3. \A c \in Calls : calls[c].status = "taken" => Shown("ai_callback_result", c)
  BY <1>2, <1>i, <1>w, RecordIsTruth
<1>4. \A c \in Calls : calls[c].status = "taken" => Stands(c)  BY <1>1, <1>3, TakenAreHeld
<1>5. Completed \subseteq Calls  BY DEF Completed
<1>. QED  BY <1>1, <1>2, <1>4, <1>5 DEF TakenAndKept

LEMMA ReadableIsOver ==
  ASSUME CaptureInv, Readable
  PROVE  /\ native.over /\ native.up /\ Asked = {} /\ native.queue = <<>>
         /\ imported = Len(source) /\ IsOver(source) /\ evidence.made = "no"
<1>i. CaptureTypeOK /\ OverOK  BY DEF CaptureInv, PlayedOK
<1>1. PICK i \in 1..Len(source) : source[i].kind \in EndOfGame  BY DEF Readable, IsOver
<1>2. i \in 1..Len(Rows) /\ Rows[i].kind \in EndOfGame  BY <1>1, <1>i, StateTypes
<1>3. native.over /\ i = Len(Rows)  BY <1>2, <1>i DEF OverOK
<1>4. Len(native.queue) = 0  BY <1>1, <1>3, <1>i, StateTypes
<1>5. native.queue = <<>>  BY <1>4, <1>i, StateTypes, EmptySeq
<1>. QED  BY <1>3, <1>5, <1>i DEF OverOK, Readable, Unsealed

LEMMA EnvelopeHolds ==
  ASSUME CaptureInv, Readable, Convertible
  PROVE  /\ Before(imported + 1) = Digest(native.held)
         /\ {RecordOf(c) : c \in Completed} = {Truth(c) : c \in TakenAndKept}
         /\ \A i \in 1..Len(native.held) : native.held[i].cid \in TakenAndKept \cup {0}
<1>i. CaptureTypeOK /\ PlayedOK /\ WrittenOK  BY DEF CaptureInv
<1>0. native.gaps = 0 /\ native.up /\ native.queue = <<>> /\ imported = Len(source)
  BY ReadableIsOver DEF Convertible, WholeSource
<1>w. RowsOK /\ LineOK  BY <1>0, <1>i DEF WrittenOK
<1>1. \A c \in Completed : One(RowsOf("ai_callback_result", c))  BY DEF Convertible, Joined
<1>2. Authenticated /\ \A i \in 1..Len(native.queue) : native.queue[i].kind # "callback_resume_state"
  BY <1>0 DEF Convertible
<1>3. CleanRows(Rows) /\ Completed = TakenAndKept  BY <1>0, <1>1, <1>2, FinishedAreHeld
<1>4. \A c \in Completed : RecordOf(c) = Truth(c)  BY <1>0, <1>1, <1>i, <1>w, RecordIsTruth
<1>5. Before(imported + 1) = Digest(native.held)
  <2>1. Len(source) \in Nat /\ Rows = source  BY <1>0, <1>i, StateTypes, AllPlaces
  <2>2. PICK n \in Nat : n = Len(source) + 1  BY <2>1
  <2>3. Before(n) = Led(Rows, n)  BY <2>1, <2>2, <1>0, <1>i, BeforeIsLed
  <2>4. Led(Rows, Len(Rows) + 1) = Digest(native.held)  BY <1>0, <1>3, <1>w DEF LineOK, CleanRows
  <2>. QED  BY <2>1, <2>2, <2>3, <2>4, <1>0
<1>6. \A r \in 1..Len(Rows) : Rows[r].kind # "ai_callback_disposition"
  <2>1. At("ai_callback_disposition") = {}  BY DEF Convertible, Covered
  <2>. QED  BY <2>1, <1>0, <1>i, AllPlaces
<1>7. ASSUME NEW i \in 1..Len(native.held), native.held[i].cid # 0
      PROVE  native.held[i].cid \in TakenAndKept
  <2>1. native.held[i].cid \in Calls /\ calls[native.held[i].cid].status = "taken"
    BY <1>0, <1>3, <1>6, <1>7, NoneGivenUp
  <2>. QED  BY <2>1 DEF TakenAndKept, Stands
<1>. QED  BY <1>3, <1>4, <1>5, <1>7
-----------------------------------------------------------------------------
(* A game that never went down, and whose every row was written: each call  *)
(* that was taken is there, once, as it was.                                *)

Faultless == native.gaps = 0 /\ native.downs = 0 /\ native.queue = <<>> /\ imported = Len(source)

\* A row of a callback that was taken is the only one of its kind.
LEMMA OnlyRow ==
  ASSUME CaptureInv, Faultless, NEW c \in Calls,
         NEW k \in {"ai_callback_input", "ai_callback_result"}, Shown(k, c)
  PROVE  /\ One(RowsOf(k, c)) /\ The(RowsOf(k, c)) \in 1..Len(Rows)
         /\ Rows[The(RowsOf(k, c))].kind = k /\ Rows[The(RowsOf(k, c))].cid = c
         /\ RowsOf(k, c) = {The(RowsOf(k, c))}
<1>i. CaptureTypeOK /\ RowsOK  BY DEF CaptureInv, WrittenOK, Faultless
<1>1. PICK i \in 1..Len(Rows) : Rows[i].kind = k /\ Rows[i].cid = c  BY DEF Shown
<1>2. RowsOf(k, c) = {j \in 1..Len(Rows) : Rows[j].kind = k /\ Rows[j].cid = c}
  BY <1>i, AllPlaces DEF Faultless
<1>3. \A j \in RowsOf(k, c) : j = i  BY <1>1, <1>2, <1>i DEF RowsOK, Apart
<1>4. RowsOf(k, c) = {i}  BY <1>1, <1>2, <1>3
<1>5. One(RowsOf(k, c)) /\ The(RowsOf(k, c)) = i  BY <1>4, OneOf
<1>. QED  BY <1>1, <1>4, <1>5

LEMMA OnlyGymRow ==
  ASSUME CaptureTypeOK, GymOK, NEW c, NEW k \in {"decision_started", "seat_callback"}, GymRows(k, c) # {}
  PROVE  /\ One(GymRows(k, c)) /\ The(GymRows(k, c)) \in 1..Len(gym)
         /\ gym[The(GymRows(k, c))].kind = k /\ gym[The(GymRows(k, c))].cid = c
         /\ GymRows(k, c) = {The(GymRows(k, c))}
<1>1. PICK i \in GymRows(k, c) : TRUE  OBVIOUS
<1>2. i \in 1..Len(gym) /\ gym[i].kind = k /\ gym[i].cid = c  BY <1>1 DEF GymRows
<1>3. \A j \in GymRows(k, c) : j = i  BY <1>2 DEF GymRows, GymOK
<1>4. GymRows(k, c) = {i}  BY <1>1, <1>3
<1>5. One(GymRows(k, c)) /\ The(GymRows(k, c)) = i  BY <1>4, OneOf
<1>. QED  BY <1>2, <1>4, <1>5

LEMMA TakenIsTold ==
  ASSUME CaptureInv, Faultless, NEW c \in Calls, calls[c].status = "taken"
  PROVE  /\ Joined(c) /\ InOrder(c) /\ SeenBySeat(c) /\ Applied(c)
         /\ RowsOf("ai_callback_disposition", c) = {}
         /\ AcceptedOf(c) = Accepted(calls[c].kind, ChoiceOf(c)) /\ RecordOf(c) = Truth(c)
         /\ \E p \in Picks : ChoiceOf(c) = Choice(calls[c].kind, p)
<1>i. CaptureTypeOK /\ GymOK /\ CallsOK /\ RowsOK /\ ShownOK
  BY DEF CaptureInv, PlayedOK, WrittenOK, Faultless
<1>0. imported = Len(source) /\ native.queue = <<>>  BY DEF Faultless
<1>1. Shown("ai_callback_input", c) /\ Shown("ai_callback_result", c)
  BY <1>i DEF ShownOK, CallShown, Faultless
<1>2. PICK a, r : a = The(RowsOf("ai_callback_input", c)) /\ r = The(RowsOf("ai_callback_result", c))
  OBVIOUS
<1>3. /\ One(RowsOf("ai_callback_input", c)) /\ a \in 1..Len(Rows) /\ Rows[a].kind = "ai_callback_input"
      /\ Rows[a].cid = c /\ RowsOf("ai_callback_input", c) = {a}
  BY <1>1, <1>2, OnlyRow
<1>4. /\ One(RowsOf("ai_callback_result", c)) /\ r \in 1..Len(Rows) /\ Rows[r].kind = "ai_callback_result"
      /\ Rows[r].cid = c /\ RowsOf("ai_callback_result", c) = {r}
  BY <1>1, <1>2, OnlyRow
<1>5. PICK i \in GymRows("seat_callback", c), p \in Picks :
        gym[i].choice = Choice(calls[c].kind, p) /\ calls[c].choice = Accepted(calls[c].kind, gym[i].choice)
  BY <1>i, TakenIsAnswered
<1>6. /\ One(GymRows("seat_callback", c)) /\ i = The(GymRows("seat_callback", c)) /\ i \in 1..Len(gym)
      /\ gym[i].kind = "seat_callback" /\ gym[i].cid = c
  BY <1>5, <1>i, OnlyGymRow
<1>7. PICK j \in 1..Len(gym) : j < i /\ gym[j].kind = "decision_started" /\ gym[j].cid = c
  BY <1>6, <1>i DEF GymOK
<1>8. One(GymRows("decision_started", c)) /\ j = The(GymRows("decision_started", c))
  <2>1. j \in GymRows("decision_started", c)  BY <1>7 DEF GymRows
  <2>. QED  BY <2>1, <1>i, OnlyGymRow
<1>9. Joined(c)  BY <1>3, <1>4, <1>6, <1>8 DEF Joined
<1>10. InOrder(c)
  <2>1. a < r  BY <1>3, <1>4, <1>i DEF RowsOK, Apart
  <2>. QED  BY <2>1, <1>2, <1>6, <1>7, <1>8 DEF InOrder
<1>11. ResultOK(Rows, r) /\ Rows[a].seat = calls[c].seat  BY <1>3, <1>4, <1>i DEF RowsOK, RowOK
<1>12. SeenBySeat(c)
  <2>1. source[a].seat = calls[c].seat /\ source[r].seat = calls[c].seat
    BY <1>0, <1>4, <1>11, <1>i, AllPlaces DEF ResultOK
  <2>. QED  BY <2>1, <1>3, <1>4 DEF SeenBySeat
<1>13. Applied(c)
  <2>1. r > 1 /\ Rows[r - 1].kind = "native_transition" /\ Rows[r - 1].choice = Rows[r].choice
    BY <1>11 DEF ResultOK
  <2>2. r - 1 \in 1..Len(Rows)  BY <2>1, <1>4, <1>i, StateTypes
  <2>3. r - 1 \in At("native_transition") /\ source = Rows  BY <2>1, <2>2, <1>0, <1>i, AllPlaces
  <2>4. Receipt(r) = {source[r].choice}  BY <2>1, <2>3 DEF Receipt
  <2>. QED  BY <2>4, <1>4 DEF Applied
<1>14. RowsOf("ai_callback_disposition", c) = {}
  <2>1. ASSUME NEW q \in RowsOf("ai_callback_disposition", c) PROVE FALSE
    <3>1. q \in 1..Len(Rows) /\ Rows[q].kind = "ai_callback_disposition" /\ Rows[q].cid = c
      BY <1>0, <1>i, AllPlaces
    <3>2. RowOK(Rows, q)  BY <3>1, <1>i DEF RowsOK
    <3>. QED  BY <3>1, <3>2 DEF RowOK
  <2>. QED  BY <2>1
<1>15. AcceptedOf(c) = calls[c].choice /\ RecordOf(c) = Truth(c)  BY <1>0, <1>4, <1>i, RecordIsTruth
<1>16. ChoiceOf(c) = gym[i].choice  BY <1>6 DEF ChoiceOf
<1>. QED  BY <1>5, <1>9, <1>10, <1>12, <1>13, <1>14, <1>15, <1>16

\* How each kind of choice is worded, and accepted.
LEMMA AcceptedIs ==
  ASSUME NEW p
  PROVE  /\ Choice("decideMulligan", p) = [channel |-> "keep", pick |-> p, params |-> "none"]
         /\ Accepted("decideMulligan", Choice("decideMulligan", p))
              = [channel |-> "action", pick |-> p, params |-> "none"]
         /\ Choice("chooseBottomCards", p) = [channel |-> "bottom", pick |-> p, params |-> "none"]
         /\ Accepted("chooseBottomCards", Choice("chooseBottomCards", p))
              = [channel |-> "decision", pick |-> p, params |-> "none"]
         /\ Choice("pending", p) = [channel |-> "decision", pick |-> p, params |-> "routed"]
         /\ Accepted("pending", Choice("pending", p))
              = [channel |-> "decision", pick |-> p, params |-> "none"]
         /\ Choice("parameters", p) = [channel |-> "action", pick |-> p, params |-> "given"]
         /\ Accepted("parameters", Choice("parameters", p))
              = [channel |-> "action", pick |-> p, params |-> "given"]
         /\ Choice("chooseAction", p) = [channel |-> "action", pick |-> p, params |-> "none"]
         /\ Accepted("chooseAction", Choice("chooseAction", p))
              = [channel |-> "action", pick |-> p, params |-> "none"]
<1>3. /\ Choice("decideMulligan", p) = [channel |-> "keep", pick |-> p, params |-> "none"]
      /\ Choice("chooseBottomCards", p) = [channel |-> "bottom", pick |-> p, params |-> "none"]
      /\ Choice("pending", p) = [channel |-> "decision", pick |-> p, params |-> "routed"]
      /\ Choice("parameters", p) = [channel |-> "action", pick |-> p, params |-> "given"]
      /\ Choice("chooseAction", p) = [channel |-> "action", pick |-> p, params |-> "none"]
  BY DEF Choice
<1>4. ASSUME NEW x, NEW y
      PROVE  /\ Accepted("pending", [channel |-> x, pick |-> p, params |-> y])
                  \in [channel : {"decision"}, pick : {p}, params : {"none"}]
             /\ Accepted("chooseBottomCards", [channel |-> x, pick |-> p, params |-> y])
                  \in [channel : {"decision"}, pick : {p}, params : {y}]
             /\ Accepted("decideMulligan", [channel |-> x, pick |-> p, params |-> y])
                  \in [channel : {"action"}, pick : {p}, params : {y}]
             /\ Accepted("parameters", [channel |-> x, pick |-> p, params |-> y])
                  \in [channel : {"action"}, pick : {p}, params : {y}]
             /\ Accepted("chooseAction", [channel |-> x, pick |-> p, params |-> y])
                  \in [channel : {"action"}, pick : {p}, params : {y}]
  BY DEF Accepted
<1>5. ASSUME NEW x, NEW y, NEW a \in [channel : {x}, pick : {p}, params : {y}]
      PROVE  a = [channel |-> x, pick |-> p, params |-> y]
  OBVIOUS
<1>. QED  BY <1>3, <1>4, <1>5

-----------------------------------------------------------------------------
(* The older reader.                                                        *)

\* A recording without a missed row that shows no restart is of a game that never went down.
LEMMA NoRestart ==
  ASSUME CaptureInv, Readable, native.gaps = 0
  PROVE  At("resume") = {} <=> native.downs = 0
<1>i. CaptureTypeOK /\ ShownOK  BY DEF CaptureInv, WrittenOK
<1>0. native.up /\ native.queue = <<>> /\ imported = Len(source)  BY ReadableIsOver
<1>1. At("resume") = {i \in 1..Len(Rows) : Rows[i].kind = "resume"}  BY <1>0, <1>i, AllPlaces
<1>2. native.downs \in Nat  BY <1>i, StateTypes
<1>3. native.downs > 0 => At("resume") # {}  BY <1>0, <1>1, <1>i DEF ShownOK
<1>4. native.downs = 0 => At("resume") = {}  BY <1>1, <1>i DEF ShownOK, FirstBoot
<1>. QED  BY <1>2, <1>3, <1>4

LEMMA ChoicesHold ==
  ASSUME CaptureInv, Readable
  PROVE  /\ AcceptedChoices \subseteq {Truth(c) : c \in TakenAndKept}
         /\ native.downs = 0 /\ native.gaps = 0 =>
              AcceptedChoices = {Truth(c) : c \in {c \in TakenAndKept : calls[c].kind = "chooseAction"}}
<1>i. CaptureTypeOK /\ BootOK  BY DEF CaptureInv, PlayedOK
<1>1. CASE At("resume") # {} \/ native.gaps > 0
  <2>1. AcceptedChoices = {}  BY <1>1 DEF AcceptedChoices
  <2>2. ~(native.downs = 0 /\ native.gaps = 0)  BY <1>1, NoRestart
  <2>. QED  BY <2>1, <2>2
<1>2. CASE ~(At("resume") # {} \/ native.gaps > 0)
  <2>1. native.gaps = 0 /\ native.downs = 0
    <3>1. native.gaps = 0  BY <1>2, <1>i, StateTypes
    <3>. QED  BY <3>1, <1>2, NoRestart
  <2>2. Faultless  BY <2>1, ReadableIsOver DEF Faultless
  <2>3. RowsOK  BY <2>1 DEF CaptureInv, WrittenOK
  <2>4. AcceptedChoices = {RecordOf(c) : c \in {c \in Completed : Acceptable(c)}}
    BY <1>2 DEF AcceptedChoices
  <2>5. ASSUME NEW c \in Completed, Acceptable(c)
        PROVE  /\ c \in TakenAndKept /\ calls[c].kind = "chooseAction" /\ RecordOf(c) = Truth(c)
    <3>1. One(RowsOf("ai_callback_result", c))  BY <2>5 DEF Acceptable, Joined
    <3>2. c \in Calls /\ calls[c].status = "taken" /\ RecordOf(c) = Truth(c)
      BY <3>1, <2>2, <2>3, <1>i, RecordIsTruth DEF Faultless
    <3>3. c \in TakenAndKept  BY <3>2, <2>1, <1>i DEF TakenAndKept, BootOK
    <3>4. PICK p \in Picks : ChoiceOf(c) = Choice(calls[c].kind, p)  BY <3>2, <2>2, TakenIsTold
    <3>5. Choice(calls[c].kind, p).channel = "action" /\ Choice(calls[c].kind, p).params = "none"
      BY <3>4, <2>5 DEF Acceptable
    <3>6. calls[c].kind \in CallbackKinds  BY <3>2, <1>i, CallTypes
    <3>7. calls[c].kind = "chooseAction"  BY <3>5, <3>6 DEF Choice, CallbackKinds
    <3>. QED  BY <3>2, <3>3, <3>7
  <2>6. ASSUME NEW c \in TakenAndKept, calls[c].kind = "chooseAction"
        PROVE  c \in Completed /\ Acceptable(c)
    <3>1. c \in Calls /\ calls[c].status = "taken"  BY DEF TakenAndKept
    <3>2. c \in Completed  BY <3>1, TakenIsAnswered DEF CaptureInv, PlayedOK
    <3>3. /\ Joined(c) /\ InOrder(c) /\ SeenBySeat(c) /\ Applied(c)
          /\ RowsOf("ai_callback_disposition", c) = {}
          /\ AcceptedOf(c) = Accepted(calls[c].kind, ChoiceOf(c))
      BY <3>1, <2>2, TakenIsTold
    <3>4. PICK p \in Picks : ChoiceOf(c) = Choice("chooseAction", p)  BY <3>1, <2>2, <2>6, TakenIsTold
    <3>5. ChoiceOf(c) = [channel |-> "action", pick |-> p, params |-> "none"]  BY <3>4 DEF Choice
    <3>6. Accepted("chooseAction", ChoiceOf(c)) = ChoiceOf(c)  BY <3>4, <3>5, AcceptedIs
    <3>. QED  BY <3>2, <3>3, <3>5, <3>6, <2>6 DEF Acceptable
  <2>7. AcceptedChoices = {Truth(c) : c \in {c \in TakenAndKept : calls[c].kind = "chooseAction"}}
    <3>1. \A c \in {c \in Completed : Acceptable(c)} :
            c \in {d \in TakenAndKept : calls[d].kind = "chooseAction"} /\ RecordOf(c) = Truth(c)
      BY <2>5
    <3>2. \A c \in {c \in TakenAndKept : calls[c].kind = "chooseAction"} :
            c \in {d \in Completed : Acceptable(d)}
      BY <2>6
    <3>. QED  BY <2>4, <3>1, <3>2
  <2>. QED  BY <2>7
<1>. QED  BY <1>1, <1>2

-----------------------------------------------------------------------------
(* A game without a fault is converted.                                     *)

\* Places whose rows name each of some callbacks once are as many as these.
LEMMA AsMany ==
  ASSUME NEW S, NEW D, IsFiniteSet(S), NEW f \in [S -> D],
         \A i, j \in S : f[i] = f[j] => i = j,
         \A d \in D : \E i \in S : f[i] = d
  PROVE  Cardinality(S) = Cardinality(D)
<1>1. f \in Injection(S, D) /\ f \in Surjection(S, D)
  BY DEF Injection, Surjection, IsInjective
<1>2. ExistsBijection(S, D)  BY <1>1 DEF ExistsBijection, Bijection
<1>. QED  BY <1>2, FS_Bijection

NeverDown == native.downs = 0 /\ native.gaps = 0
NoneMissed == \A c \in Calls : calls[c].status # "given up"
LEMMA CleanHolds ==
  ASSUME CaptureInv, Readable, NeverDown,
         NoneMissed
  PROVE  Convertible
<1>i. CaptureTypeOK /\ PlayedOK /\ RowsOK /\ LineOK /\ ShownOK
  BY DEF CaptureInv, WrittenOK, NeverDown
<1>p. GymOK /\ CallsOK /\ BootOK /\ OverOK  BY <1>i DEF PlayedOK
<1>0. /\ native.up /\ native.queue = <<>> /\ imported = Len(source) /\ Asked = {} /\ IsOver(source)
      /\ Faultless
  BY ReadableIsOver DEF Faultless, NeverDown
<1>1. \A c \in Calls : calls[c].status = "taken"
  <2>1. \A c \in Calls : calls[c].status \in Status  BY <1>i, CallTypes
  <2>2. \A c \in Calls : calls[c].status # "asked"  BY <1>0 DEF Asked
  <2>3. \A c \in Calls : calls[c].status # "lost"
    <3>1. \A c \in Calls : calls[c].status = "lost" => native.downs > 0  BY <1>p DEF BootOK
    <3>2. ~(native.downs > 0)  BY DEF NeverDown
    <3>. QED  BY <3>1, <3>2
  <2>. QED  BY <2>1, <2>2, <2>3 DEF Status, NoneMissed
<1>2. Completed = Calls  BY <1>1, <1>i, <1>p, TakenIsAnswered DEF Completed
<1>3. /\ Rows = source /\ Rows \in Seq(SourceRow) /\ Len(Rows) \in Nat
      /\ \A k : At(k) = {i \in 1..Len(Rows) : Rows[i].kind = k}
  BY <1>0, <1>i, AllPlaces, StateTypes
<1>f. FirstBoot  BY <1>i DEF ShownOK, NeverDown
<1>4. At("resume") = {} /\ At("callback_resume_state") = {}  BY <1>3, <1>f DEF FirstBoot
<1>5. WholeSource
  <2>1. At("initialization") = {1}
    <3>1. 1 \in At("initialization")
      <4>1. 1 \in 1..Len(Rows) /\ Rows[1].kind = "initialization"  BY <1>3, <1>f DEF FirstBoot
      <4>. QED  BY <4>1, <1>3
    <3>2. \A r \in At("initialization") : r = 1  BY <1>3, <1>i DEF RowsOK, RowOK
    <3>. QED  BY <3>1, <3>2
  <2>2. PICK i \in 1..Len(source) : source[i].kind \in EndOfGame  BY <1>0 DEF IsOver
  <2>3. At("terminal") \cup At("session_closed") = {i}
    <3>1. i \in At("terminal") \cup At("session_closed")  BY <2>2, <1>3 DEF EndOfGame
    <3>2. \A r \in At("terminal") \cup At("session_closed") : r \in 1..Len(Rows) /\ Rows[r].kind \in EndOfGame
      BY <1>3 DEF EndOfGame
    <3>3. \A r \in 1..Len(Rows) : Rows[r].kind \in EndOfGame => r = Len(Rows)  BY <1>p DEF OverOK
    <3>4. i = Len(Rows)  BY <2>2, <3>3, <1>3
    <3>. QED  BY <3>1, <3>2, <3>3, <3>4
  <2>. QED  BY <2>1, <2>3, <1>0, OneOf DEF WholeSource, NeverDown
<1>6. CleanRows(Rows)  BY <1>f DEF CleanRows, Bad, FirstBoot
<1>7. Continuous
  <2>1. Chained(Rows)  BY <1>6, <1>i, RowsChain
  <2>2. ASSUME NEW i \in At("native_transition") PROVE source[i].before = Before(i)
    <3>0. i \in 1..Len(Rows) /\ Rows[i].kind = "native_transition"  BY <1>3
    <3>1. i \in Steps(Rows) /\ i \in Nat /\ i <= Len(source) + 1
      <4>1. Len(source) = Len(Rows)  BY <1>3
      <4>. QED  BY <3>0, <4>1, <1>3 DEF Steps
    <3>2. Before(i) = Led(Rows, i)  BY <3>1, <1>0, <1>i, BeforeIsLed
    <3>. QED  BY <3>1, <3>2, <2>1, <1>3 DEF Chained
  <2>. QED  BY <2>2 DEF Continuous
<1>8. Authenticated  BY <1>4 DEF Authenticated
<1>9. \A c \in Calls : Joined(c) /\ InOrder(c) /\ SeenBySeat(c) /\ Applied(c)
  BY <1>0, <1>1, TakenIsTold
<1>10. ASSUME NEW c \in Calls PROVE Submitted(calls[c].kind, ChoiceOf(c), AcceptedOf(c))
  <2>1. PICK p \in Picks : ChoiceOf(c) = Choice(calls[c].kind, p)  BY <1>0, <1>1, TakenIsTold
  <2>2. AcceptedOf(c) = Accepted(calls[c].kind, Choice(calls[c].kind, p))
    BY <2>1, <1>0, <1>1, TakenIsTold
  <2>3. calls[c].kind \in CallbackKinds  BY <1>i, CallTypes
  <2>4. ASSUME NEW k \in CallbackKinds PROVE Submitted(k, Choice(k, p), Accepted(k, Choice(k, p)))
    <3>1. CASE k = "decideMulligan"  BY ONLY <3>1, AcceptedIs DEF Submitted
    <3>2. CASE k = "chooseBottomCards"  BY ONLY <3>2, AcceptedIs DEF Submitted
    <3>3. CASE k = "pending"  BY ONLY <3>3, AcceptedIs DEF Submitted
    <3>4. CASE k = "parameters"  BY ONLY <3>4, AcceptedIs DEF Submitted
    <3>5. CASE k = "chooseAction"  BY ONLY <3>5, AcceptedIs DEF Submitted
    <3>. QED  BY <3>1, <3>2, <3>3, <3>4, <3>5 DEF CallbackKinds
  <2>. QED  BY <2>1, <2>2, <2>3, <2>4
<1>11. Covered
  <2>1. At("ai_callback_disposition") = {}
    <3>1. \A r \in 1..Len(Rows) : Rows[r].kind # "ai_callback_disposition"
      BY <1>1, <1>i DEF RowsOK, RowOK
    <3>. QED  BY <3>1, <1>3
  <2>2. CountOf("decision_started") = Cardinality(Calls)
    <3>. DEFINE S == {i \in 1..Len(gym) : gym[i].kind = "decision_started"}
                f == [i \in S |-> gym[i].cid]
    <3>1. IsFiniteSet(S)
      <4>1. Len(gym) \in Nat  BY <1>i, StateTypes
      <4>2. IsFiniteSet(1..Len(gym))  BY <4>1, FS_Interval
      <4>3. S \in SUBSET (1..Len(gym))  OBVIOUS
      <4>. QED  BY <4>2, <4>3, FS_Subset
    <3>2. f \in [S -> Calls]  BY <1>p DEF GymOK
    <3>3. \A i, j \in S : f[i] = f[j] => i = j  BY <1>p DEF GymOK
    <3>4. \A c \in Calls : \E i \in S : f[i] = c
      <4>1. TAKE c \in Calls
      <4>2. One(GymRows("decision_started", c))  BY <1>9 DEF Joined
      <4>3. IsFiniteSet(GymRows("decision_started", c))  BY <1>0, <1>i, PlacesOfRows
      <4>4. The(GymRows("decision_started", c)) \in GymRows("decision_started", c)  BY <4>2, <4>3, OneIs
      <4>. QED  BY <4>4 DEF GymRows
    <3>5. Cardinality(S) = Cardinality(Calls)
      <4>. HIDE DEF S, f
      <4>. QED  BY <3>1, <3>2, <3>3, <3>4, AsMany
    <3>. QED  BY <3>5 DEF CountOf
  <2>3. ASSUME NEW k \in {"ai_callback_input", "ai_callback_result"}
        PROVE  Cardinality(At(k)) = Cardinality(Calls)
    <3>. DEFINE f == [i \in At(k) |-> Rows[i].cid]
    <3>1. IsFiniteSet(At(k))  BY <1>0, <1>i, PlacesOfRows
    <3>2. f \in [At(k) -> Calls]
      <4>1. \A i \in At(k) : i \in 1..Len(Rows) /\ Rows[i].kind = k  BY <1>3
      <4>2. \A i \in At(k) : RowOK(Rows, i)  BY <4>1, <1>i DEF RowsOK
      <4>3. \A i \in At(k) : Rows[i].cid \in Calls  BY <4>1, <4>2 DEF RowOK, ResultOK
      <4>. QED  BY <4>3
    <3>3. \A i, j \in At(k) : f[i] = f[j] => i = j
      <4>1. \A i \in At(k) : i \in 1..Len(Rows) /\ Rows[i].kind = k  BY <1>3
      <4>2. Apart(Rows)  BY <1>i DEF RowsOK
      <4>3. \A i, j \in At(k) : Rows[i].cid = Rows[j].cid => i = j  BY <4>1, <4>2 DEF Apart
      <4>. QED  BY <4>3
    <3>4. \A c \in Calls : \E i \in At(k) : f[i] = c
      <4>1. TAKE c \in Calls
      <4>2. One(RowsOf(k, c))  BY <1>9 DEF Joined
      <4>3. IsFiniteSet(RowsOf(k, c))  BY <1>0, <1>i, PlacesOfRows
      <4>4. The(RowsOf(k, c)) \in RowsOf(k, c)  BY <4>2, <4>3, OneIs
      <4>5. PICK i \in RowsOf(k, c) : TRUE  BY <4>4
      <4>6. i \in At(k) /\ Rows[i].cid = c  BY <1>0, <1>i, PlacesOfRows
      <4>. QED  BY <4>6
    <3>. QED
      <4>. HIDE DEF f
      <4>. QED  BY <3>1, <3>2, <3>3, <3>4, AsMany
  <2>. QED  BY <2>1, <2>2, <2>3, <1>2 DEF Covered
<1>. QED  BY <1>2, <1>5, <1>7, <1>8, <1>9, <1>10, <1>11 DEF Convertible
-----------------------------------------------------------------------------
(* The evidence is made.                                                    *)

EnvelopeOf(records) ==
  /\ Before(imported + 1) = Digest(native.held)
  /\ records = {Truth(c) : c \in TakenAndKept}
  /\ \A i \in 1..Len(native.held) : native.held[i].cid \in TakenAndKept \cup {0}
ChoicesOf(records) ==
  /\ records \subseteq {Truth(c) : c \in TakenAndKept}
  /\ native.downs = 0 /\ native.gaps = 0 =>
       records = {Truth(c) : c \in {c \in TakenAndKept : calls[c].kind = "chooseAction"}}
Faulted == native.downs > 0 \/ native.gaps > 0 \/ \E c \in Calls : calls[c].status = "given up"

LEMMA GameUnchanged ==
  ASSUME UNCHANGED <<native, source, imported, calls>>
  PROVE  /\ Calls' = Calls /\ Asked' = Asked /\ TakenAndKept' = TakenAndKept /\ Rows' = Rows
         /\ \A n : Before(n)' = Before(n)
         /\ \A c : Truth(c)' = Truth(c) /\ (Stands(c)' <=> Stands(c))
<1>1. Calls' = Calls /\ Asked' = Asked /\ Rows' = Rows  BY DEF Calls, Asked, Rows
<1>2. \A c : Truth(c)' = Truth(c) /\ (Stands(c)' <=> Stands(c))  BY DEF Truth, Stands
<1>3. TakenAndKept' = TakenAndKept  BY <1>1, <1>2 DEF TakenAndKept
<1>4. At("native_transition")' = At("native_transition")  BY DEF At
<1>5. \A n : Before(n)' = Before(n)  BY <1>4 DEF Before
<1>. QED  BY <1>1, <1>2, <1>3, <1>5

LEMMA SealedInv ==
  ASSUME CaptureInv, Readable, UNCHANGED <<recording, native, source, imported, gym, calls>>,
         evidence' \in [made : {"yes", "refused"}, records : SUBSET HeldMove],
         evidence'.made = "yes" /\ recording.version = 2 => EnvelopeOf(evidence'.records),
         evidence'.made = "yes" /\ recording.version = 1 => ChoicesOf(evidence'.records),
         evidence'.made = "refused" => Faulted
  PROVE  CaptureInv'
<1>i. CaptureTypeOK /\ PlayedOK /\ WrittenOK /\ EvidenceOK  BY DEF CaptureInv
<1>p. GymOK /\ CallsOK /\ HeldOK /\ BootOK /\ OverOK  BY <1>i DEF PlayedOK
<1>1. /\ Calls' = Calls /\ Asked' = Asked /\ TakenAndKept' = TakenAndKept
      /\ \A n : Before(n)' = Before(n)
      /\ \A c : Truth(c)' = Truth(c) /\ (Stands(c)' <=> Stands(c))
  BY GameUnchanged
<1>2. CaptureTypeOK'  BY <1>i DEF CaptureTypeOK
<1>3. SameGame  BY DEF SameGame, Rows
<1>4. CallsKept /\ HeldOK' /\ OverOK' /\ WrittenOK'  BY <1>3, <1>i, <1>p, SameGameInv
<1>5. CallsOK'  BY <1>i, <1>p, CallsStay
<1>6. GymOK'  BY <1>4, <1>i, <1>p, GymStays
<1>7. BootOK'  BY <1>1, <1>p DEF BootOK
<1>8. EvidenceOK'
  <2>1. imported' = Len(source') /\ IsOver(source)'
    <3>1. imported = Len(source) /\ IsOver(source)  BY DEF Readable
    <3>. QED  BY <3>1 DEF IsOver
  <2>2. EnvelopeIsTrue'
    <3>1. SUFFICES ASSUME evidence'.made = "yes", recording.version = 2 PROVE EnvelopeIsTrue'
      BY DEF EnvelopeIsTrue
    <3>2. EnvelopeOf(evidence'.records)  BY <3>1
    <3>3. PICK n : n = imported + 1  OBVIOUS
    <3>4. Before(n)' = Before(n) /\ Before(n) = Digest(native.held)  BY <3>2, <3>3, <1>1 DEF EnvelopeOf
    <3>5. Before(imported + 1)' = Before(n)'  BY <3>3 DEF Before, At
    <3>6. Digest(native.held)' = Digest(native.held)  OBVIOUS
    <3>7. evidence'.records = {Truth(c) : c \in TakenAndKept}'  BY <3>2, <1>1 DEF EnvelopeOf
    <3>8. (\A i \in 1..Len(native.held) : native.held[i].cid \in TakenAndKept \cup {0})'
      BY <3>2, <1>1 DEF EnvelopeOf
    <3>. QED  BY ONLY <3>4, <3>5, <3>6, <3>7, <3>8 DEF EnvelopeIsTrue
  <2>3. ChoicesAreTrue'
    <3>1. SUFFICES ASSUME evidence'.made = "yes", recording.version = 1
                   PROVE  /\ evidence'.records \subseteq {Truth(c)' : c \in TakenAndKept'}
                          /\ native.downs = 0 /\ native.gaps = 0 =>
                               evidence'.records =
                                 {Truth(c)' : c \in {c \in TakenAndKept' : calls[c].kind = "chooseAction"}}
      BY DEF ChoicesAreTrue
    <3>2. ChoicesOf(evidence'.records)  BY <3>1
    <3>. QED  BY <3>2, <1>1 DEF ChoicesOf
  <2>4. CleanIsConverted'  BY <1>1 DEF CleanIsConverted, Faulted
  <2>. QED  BY <2>1, <2>2, <2>3, <2>4 DEF EvidenceOK, EvidenceIsTrue
<1>. QED  BY <1>2, <1>4, <1>5, <1>6, <1>7, <1>8 DEF CaptureInv, PlayedOK

LEMMA TruthTypes ==
  ASSUME CaptureTypeOK
  PROVE  {Truth(c) : c \in TakenAndKept} \in SUBSET HeldMove
<1>1. ASSUME NEW c \in TakenAndKept PROVE Truth(c) \in HeldMove
  <2>1. c \in Calls  BY DEF TakenAndKept
  <2>2. c \in Nat /\ calls[c].seat \in Players /\ calls[c].choice \in Words
    BY <2>1, CallTypes, HumanIsNoSeat
  <2>. QED  BY <2>2 DEF Truth, HeldMove
<1>. QED  BY <1>1

LEMMA AttachesInv ==
  ASSUME CaptureInv, Attaches
  PROVE  CaptureInv'
<1>i. CaptureTypeOK  BY DEF CaptureInv
<1>0. /\ Readable /\ recording.version = 2
      /\ UNCHANGED <<recording, native, source, imported, gym, calls>>
  BY DEF Attaches
<1>1. CASE Convertible
  <2>1. evidence' = [made |-> "yes", records |-> {RecordOf(c) : c \in Completed}]  BY <1>1 DEF Attaches
  <2>2. EnvelopeOf({RecordOf(c) : c \in Completed})  BY <1>0, <1>1, EnvelopeHolds DEF EnvelopeOf
  <2>3. {RecordOf(c) : c \in Completed} \in SUBSET HeldMove
    BY <2>2, <1>i, TruthTypes DEF EnvelopeOf
  <2>4. PICK R \in SUBSET HeldMove : R = {RecordOf(c) : c \in Completed}  BY <2>3
  <2>5. evidence' = [made |-> "yes", records |-> R] /\ EnvelopeOf(R)  BY <2>1, <2>2, <2>4
  <2>6. evidence' \in [made : {"yes", "refused"}, records : SUBSET HeldMove]  BY ONLY <2>5, R \in SUBSET HeldMove
  <2>7. evidence'.made = "yes" /\ EnvelopeOf(evidence'.records) /\ recording.version # 1  BY <2>5, <1>0
  <2>. QED  BY <1>0, <2>6, <2>7, SealedInv
<1>2. CASE ~Convertible
  <2>1. evidence' = [made |-> "refused", records |-> {}]  BY <1>2 DEF Attaches
  <2>2. Faulted
    <3>1. SUFFICES ASSUME ~Faulted PROVE FALSE  OBVIOUS
    <3>2. native.downs \in Nat /\ native.gaps \in Nat  BY <1>i, StateTypes
    <3>3. NeverDown
      <4>1. ~(native.downs > 0) /\ ~(native.gaps > 0)  BY <3>1 DEF Faulted
      <4>. QED  BY <3>2, <4>1 DEF NeverDown
    <3>4. NoneMissed  BY <3>1 DEF Faulted, NoneMissed
    <3>. QED  BY <3>3, <3>4, <1>0, <1>2, CleanHolds
  <2>3. evidence' \in [made : {"yes", "refused"}, records : SUBSET HeldMove]  BY <2>1
  <2>4. evidence'.made = "refused"  BY <2>1
  <2>. QED  BY <1>0, <2>2, <2>3, <2>4, SealedInv
<1>. QED  BY <1>1, <1>2

LEMMA ReadsChoicesInv ==
  ASSUME CaptureInv, ReadsChoices
  PROVE  CaptureInv'
<1>i. CaptureTypeOK  BY DEF CaptureInv
<1>0. /\ Readable /\ recording.version = 1
      /\ UNCHANGED <<recording, native, source, imported, gym, calls>>
  BY DEF ReadsChoices
<1>1. ChoicesOf(AcceptedChoices)  BY <1>0, ChoicesHold DEF ChoicesOf
<1>2. AcceptedChoices \in SUBSET HeldMove  BY <1>1, <1>i, TruthTypes DEF ChoicesOf
<1>3. PICK R \in SUBSET HeldMove : R = AcceptedChoices  BY <1>2
<1>4. evidence' = [made |-> "yes", records |-> R] /\ ChoicesOf(R)  BY <1>1, <1>3 DEF ReadsChoices
<1>5. evidence' \in [made : {"yes", "refused"}, records : SUBSET HeldMove]  BY ONLY <1>4, R \in SUBSET HeldMove
<1>6. evidence'.made = "yes" /\ ChoicesOf(evidence'.records) /\ recording.version # 2  BY <1>4, <1>0
<1>. QED  BY <1>0, <1>5, <1>6, SealedInv

-----------------------------------------------------------------------------
(* The recording begins, and goes on.                                       *)

LEMMA CaptureBegins ==
  ASSUME CaptureInit
  PROVE  CaptureInv
<1>0. PICK x : x = Row("initialization")  OBVIOUS
<1>1. /\ recording \in Recordings
      /\ native = [up |-> TRUE, held |-> <<>>, saved |-> <<>>, queue |-> <<x>>,
                   over |-> FALSE, gaps |-> 0, downs |-> 0, boot |-> 1]
      /\ source = <<>> /\ imported = 0 /\ gym = <<>> /\ calls = <<>>
      /\ evidence = [made |-> "no", records |-> {}]
  BY <1>0 DEF CaptureInit
<1>2. x \in SourceRow /\ x.kind = "initialization"  BY <1>0, RowTypes DEF RowKinds
<1>3. Rows = <<x>> /\ Len(Rows) = 1 /\ Rows[1] = x /\ 1..Len(Rows) = {1}
  <2>1. <<x>> \in Seq(SourceRow)  BY <1>2
  <2>2. Rows = <<>> \o <<x>>  BY <1>1 DEF Rows
  <2>3. Rows = <<x>>  BY <2>1, <2>2, ConcatEmptySeq
  <2>4. Len(Rows) = 1 /\ Rows[1] = x  BY <2>3
  <2>. QED  BY <2>3, <2>4
<1>4. Calls = {} /\ Asked = {}  BY <1>1 DEF Calls, Asked
<1>5. CaptureTypeOK
  <2>1. <<>> \in Seq(HeldMove) /\ <<x>> \in Seq(SourceRow)  BY <1>2
  <2>2. native \in NativeGame  BY <2>1, <1>1 DEF NativeGame
  <2>3. <<>> \in Seq(SourceRow) /\ <<>> \in Seq(GymRow) /\ <<>> \in Seq(Callback)  OBVIOUS
  <2>4. 0 \in 0..Len(source)  BY <1>1
  <2>. QED  BY <2>2, <2>3, <2>4, <1>1 DEF CaptureTypeOK
<1>6. GymOK  BY <1>1 DEF GymOK
<1>7. CallsOK  BY <1>4 DEF CallsOK
<1>8. HeldOK  BY <1>1 DEF HeldOK
<1>9. BootOK  BY <1>1, <1>4 DEF BootOK
<1>10. OverOK  BY <1>1, <1>2, <1>3 DEF OverOK, EndOfGame
<1>11. RowsOK
  <2>1. RowOK(Rows, 1)  BY <1>2, <1>3 DEF RowOK
  <2>2. Apart(Rows)  BY <1>2, <1>3 DEF Apart
  <2>. QED  BY <2>1, <2>2, <1>3 DEF RowsOK
<1>12. LineOK
  <2>1. Steps(Rows) = {}  BY <1>2, <1>3 DEF Steps
  <2>2. Led(Rows, Len(Rows) + 1) = <<>>  BY <2>1 DEF Led, StepsBefore
  <2>3. Digest(native.held) = <<>>  BY <1>1 DEF Digest
  <2>. QED  BY <2>1, <2>2, <2>3 DEF LineOK
<1>13. ShownOK
  <2>1. FirstBoot  BY <1>2, <1>3 DEF FirstBoot
  <2>2. ~(native.downs > 0)  BY <1>1
  <2>. QED  BY <2>1, <2>2, <1>4 DEF ShownOK
<1>14. EvidenceOK  BY <1>1 DEF EvidenceOK
<1>. QED  BY <1>5, <1>6, <1>7, <1>8, <1>9, <1>10, <1>11, <1>12, <1>13, <1>14
         DEF CaptureInv, PlayedOK, WrittenOK

LEMMA CaptureStutters ==
  ASSUME CaptureInv, UNCHANGED captureVars
  PROVE  CaptureInv'
<1>i. CaptureTypeOK /\ PlayedOK /\ WrittenOK /\ EvidenceOK  BY DEF CaptureInv
<1>p. GymOK /\ CallsOK /\ HeldOK /\ BootOK /\ OverOK  BY <1>i DEF PlayedOK
<1>u. UNCHANGED <<recording, native, source, imported, gym, calls, evidence>>  BY DEF captureVars
<1>1. /\ Calls' = Calls /\ Asked' = Asked /\ TakenAndKept' = TakenAndKept
      /\ \A n : Before(n)' = Before(n)
      /\ \A c : Truth(c)' = Truth(c) /\ (Stands(c)' <=> Stands(c))
  BY <1>u, GameUnchanged
<1>2. CaptureTypeOK'  BY <1>u, <1>i DEF CaptureTypeOK
<1>3. SameGame  BY <1>u DEF SameGame, Rows
<1>4. CallsKept /\ HeldOK' /\ OverOK' /\ WrittenOK'  BY <1>3, <1>i, <1>p, SameGameInv
<1>5. CallsOK'  BY <1>u, <1>i, <1>p, CallsStay
<1>6. GymOK'  BY <1>u, <1>4, <1>i, <1>p, GymStays
<1>7. BootOK'  BY <1>u, <1>1, <1>p DEF BootOK
<1>8. EvidenceOK'
  <2>1. CASE evidence.made = "no"  BY <2>1, <1>u DEF EvidenceOK
  <2>2. CASE evidence.made # "no"
    <3>0. imported = Len(source) /\ IsOver(source) /\ EvidenceIsTrue  BY <2>2, <1>i DEF EvidenceOK
    <3>1. imported' = Len(source') /\ IsOver(source)'  BY <3>0, <1>u DEF IsOver
    <3>2. PICK n : n = imported + 1  OBVIOUS
    <3>8. Before(imported + 1)' = Before(n)'  BY <3>2, <1>u DEF Before, At
    <3>3. Before(imported + 1)' = Before(imported + 1)  BY <3>2, <3>8, <1>1
    <3>4. Digest(native.held)' = Digest(native.held)  BY <1>u
    <3>5. EnvelopeIsTrue'  BY <3>0, <3>3, <3>4, <1>1, <1>u DEF EvidenceIsTrue, EnvelopeIsTrue
    <3>6. ChoicesAreTrue'  BY <3>0, <1>1, <1>u DEF EvidenceIsTrue, ChoicesAreTrue
    <3>7. CleanIsConverted'  BY <3>0, <1>1, <1>u DEF EvidenceIsTrue, CleanIsConverted
    <3>. QED  BY <3>1, <3>5, <3>6, <3>7 DEF EvidenceOK, EvidenceIsTrue
  <2>. QED  BY <2>1, <2>2
<1>. QED  BY <1>2, <1>4, <1>5, <1>6, <1>7, <1>8 DEF CaptureInv, PlayedOK

LEMMA CaptureStepInv ==
  ASSUME CaptureInv, CaptureStep
  PROVE  CaptureInv'
<1>1. CASE HumanMoves  BY <1>1, HumanMovesInv
<1>2. CASE Overs  BY <1>2, OversInv
<1>3. CASE LosesRow  BY <1>3, LosesRowInv
<1>4. CASE ComesBack  BY <1>4, ComesBackInv
<1>5. CASE ImportsAll
  <2>1. Len(native.queue) \in 0..Len(native.queue)  BY StateTypes DEF CaptureInv
  <2>. QED  BY <2>1, <1>5, ImportsInv DEF ImportsAll
<1>6. CASE Attaches  BY <1>6, AttachesInv
<1>7. CASE ReadsChoices  BY <1>7, ReadsChoicesInv
<1>8. ASSUME NEW c \in Calls, TakesAnswer(c) \/ GivesUp(c) \/ Starts(c) \/ Finishes(c)
      PROVE  CaptureInv'
  BY <1>8, TakesAnswerInv, GivesUpInv, StartsInv, FinishesInv
<1>. QED  BY <1>1, <1>2, <1>3, <1>4, <1>5, <1>6, <1>7, <1>8 DEF CaptureStep
-----------------------------------------------------------------------------
(* The gate and the observer.                                               *)

\* A step that the observer would not notice: no restart, no restored state among the
\* rows that wait, and, if the game waits for nobody, nothing asked, answered or undone.
Keeps ==
  /\ native'.boot = native.boot /\ native'.up = native.up
  /\ \A i \in 1..Len(native'.queue) : native'.queue[i].kind = "callback_resume_state" =>
       \E j \in 1..Len(native.queue) : native.queue[j].kind = "callback_resume_state"
  /\ Asked = {} => Len(calls') = Len(calls) /\ Asked' = {} /\ TakenAndKept' = TakenAndKept

LEMMA KeepsInv ==
  ASSUME DrainTypeOK, GateOK, ObserverOK, Keeps, UNCHANGED drainVars
  PROVE  DrainTypeOK' /\ GateOK' /\ ObserverOK'
<1>u. gate' = gate /\ drain' = drain  BY DEF drainVars
<1>1. DrainTypeOK'  BY <1>u DEF DrainTypeOK
<1>2. GateOK'  BY <1>u DEF GateOK, Keeps
<1>3. (Still' <=> Still) /\ (Busy' <=> Busy)  BY <1>u DEF Still, SameEpoch, Busy, Keeps
<1>4. ObserverOK'  BY <1>u, <1>3 DEF ObserverOK, Keeps, Busy
<1>. QED  BY <1>1, <1>2, <1>4

\* What waits after rows were added.
LEMMA QueueGrew ==
  ASSUME NEW q \in Seq(SourceRow), NEW x, NEW y
  PROVE  /\ \A i \in 1..Len(q \o <<x>>) : (q \o <<x>>)[i] = x \/ \E j \in 1..Len(q) : (q \o <<x>>)[i] = q[j]
         /\ \A i \in 1..Len(q \o <<x, y>>) :
              (q \o <<x, y>>)[i] \in {x, y} \/ \E j \in 1..Len(q) : (q \o <<x, y>>)[i] = q[j]
<1>1. PICK S : SourceRow \subseteq S /\ x \in S /\ y \in S
  <2>1. SourceRow \subseteq SourceRow \cup {x, y} /\ x \in SourceRow \cup {x, y} /\ y \in SourceRow \cup {x, y}
    OBVIOUS
  <2>. QED  BY <2>1
<1>2. q \in Seq(S)
  <2>1. q \in [1..Len(q) -> SourceRow] /\ Len(q) \in Nat  OBVIOUS
  <2>2. q \in [1..Len(q) -> S]  BY <2>1, <1>1
  <2>. QED  BY <2>1, <2>2, SeqDef
<1>3. PICK a \in Seq(S), b \in Seq(S) : a = <<x>> /\ b = <<x, y>>
  <2>1. x \in S /\ y \in S  BY <1>1
  <2>2. <<x>> \in Seq(S) /\ <<x, y>> \in Seq(S)  BY ONLY <2>1
  <2>. QED  BY <2>2
<1>4. Len(a) = 1 /\ a[1] = x /\ Len(b) = 2 /\ b[1] = x /\ b[2] = y  BY <1>3
<1>5. ASSUME NEW n \in Seq(S), NEW i \in 1..Len(q \o n)
      PROVE  (\E k \in 1..Len(n) : (q \o n)[i] = n[k]) \/ \E j \in 1..Len(q) : (q \o n)[i] = q[j]
  <2>1. /\ Len(q \o n) = Len(q) + Len(n)
        /\ \A k \in 1..Len(q) + Len(n) : (q \o n)[k] = IF k <= Len(q) THEN q[k] ELSE n[k - Len(q)]
    BY <1>2, ConcatProperties
  <2>2. Len(q) \in Nat /\ Len(n) \in Nat  BY <1>2
  <2>3. CASE i <= Len(q)
    <3>1. i \in 1..Len(q)  BY <2>1, <2>2, <2>3
    <3>. QED  BY <3>1, <2>1, <2>3
  <2>4. CASE ~(i <= Len(q))
    <3>1. i - Len(q) \in 1..Len(n)  BY <2>1, <2>2, <2>4
    <3>. QED  BY <3>1, <2>1, <2>4
  <2>. QED  BY <2>3, <2>4
<1>6. \A k \in 1..Len(a) : a[k] = x  BY <1>4
<1>7. \A k \in 1..Len(b) : b[k] \in {x, y}
  <2>1. \A k \in 1..Len(b) : k = 1 \/ k = 2  BY <1>4
  <2>. QED  BY <2>1, <1>4
<1>8. \A i \in 1..Len(q \o a) : (q \o a)[i] = x \/ \E j \in 1..Len(q) : (q \o a)[i] = q[j]
  <2>1. TAKE i \in 1..Len(q \o a)
  <2>. QED  BY <1>5, <1>6
<1>9. \A i \in 1..Len(q \o b) : (q \o b)[i] \in {x, y} \/ \E j \in 1..Len(q) : (q \o b)[i] = q[j]
  <2>1. TAKE i \in 1..Len(q \o b)
  <2>. QED  BY <1>5, <1>7
<1>. QED  BY <1>3, <1>8, <1>9

\* A step that leaves the game alone.
LEMMA GameKept ==
  ASSUME UNCHANGED <<native, source, imported, calls>>
  PROVE  Keeps
BY GameUnchanged DEF Keeps

\* A step that answers.
LEMMA AnswersKeep ==
  ASSUME CaptureInv, NEW c \in Calls, TakesAnswer(c) \/ GivesUp(c)
  PROVE  Keeps
<1>t. native \in NativeGame /\ native.queue \in Seq(SourceRow)
  BY StateTypes DEF CaptureInv, CaptureTypeOK
<1>0. Asked # {}  BY DEF TakesAnswer, GivesUp, Asked
<1>1. PICK m, x, y, h :
        /\ native' = [native EXCEPT !.held = h, !.queue = native.queue \o <<x, y>>]
        /\ x.kind # "callback_resume_state" /\ y.kind # "callback_resume_state"
  <2>1. CASE TakesAnswer(c)
    <3>0. PICK i \in 1..Len(gym) :
            LET m == Move(c, calls[c].seat, Accepted(calls[c].kind, gym[i].choice))
                taken == [CallRow("ai_callback_result", c) EXCEPT !.choice = m.choice]
            IN native' = [native EXCEPT !.held = Append(native.held, m),
                            !.queue = native.queue \o <<Transition(m), taken>>]
      BY <2>1 DEF TakesAnswer, Queued
    <3>1. PICK m, x, y :
            /\ m = Move(c, calls[c].seat, Accepted(calls[c].kind, gym[i].choice))
            /\ x = Transition(m) /\ y = [CallRow("ai_callback_result", c) EXCEPT !.choice = m.choice]
            /\ native' = [native EXCEPT !.held = Append(native.held, m), !.queue = native.queue \o <<x, y>>]
      BY <3>0
    <3>2. x.kind = "native_transition"  BY <3>1 DEF Transition, Row
    <3>3. y.kind = "ai_callback_result"  BY <3>1 DEF CallRow, Row
    <3>. QED  BY <3>1, <3>2, <3>3
  <2>2. CASE GivesUp(c)
    <3>1. PICK m, x, y :
            /\ m = Move(c, calls[c].seat, None)
            /\ x = CallRow("ai_callback_disposition", c) /\ y = Transition(m)
            /\ native' = [native EXCEPT !.held = Append(native.held, m), !.queue = native.queue \o <<x, y>>]
      BY <2>2 DEF GivesUp, Queued
    <3>2. y.kind = "native_transition"  BY <3>1 DEF Transition, Row
    <3>3. x.kind = "ai_callback_disposition"  BY <3>1 DEF CallRow, Row
    <3>. QED  BY <3>1, <3>2, <3>3
  <2>. QED  BY <2>1, <2>2
<1>2. native'.boot = native.boot /\ native'.up = native.up /\ native'.queue = native.queue \o <<x, y>>
  BY <1>1, <1>t DEF NativeGame
<1>3. \A i \in 1..Len(native.queue \o <<x, y>>) :
        \/ (native.queue \o <<x, y>>)[i] \in {x, y}
        \/ \E j \in 1..Len(native.queue) : (native.queue \o <<x, y>>)[i] = native.queue[j]
  BY <1>t, QueueGrew
<1>. QED  BY <1>0, <1>1, <1>2, <1>3 DEF Keeps

LEMMA HumanMovesKeep ==
  ASSUME CaptureInv, HumanMoves
  PROVE  Keeps
<1>i. CaptureTypeOK /\ HeldOK  BY DEF CaptureInv, PlayedOK
<1>t. native \in NativeGame /\ native.queue \in Seq(SourceRow)  BY <1>i, StateTypes DEF CaptureTypeOK
<1>1. PICK m, x :
        /\ m = [cid |-> 0, seat |-> Human, choice |-> None] /\ x = Transition(m)
        /\ native' = [native EXCEPT !.held = Append(native.held, m), !.queue = native.queue \o <<x>>]
        /\ calls' = calls
  BY DEF HumanMoves, Move, Queued
<1>2. /\ native'.boot = native.boot /\ native'.up = native.up /\ native'.queue = native.queue \o <<x>>
      /\ native'.held = Append(native.held, m)
  BY <1>1, <1>t DEF NativeGame
<1>3. x.kind = "native_transition"  BY <1>1 DEF Transition, Row
<1>4. \A i \in 1..Len(native.queue \o <<x>>) :
        \/ (native.queue \o <<x>>)[i] = x
        \/ \E j \in 1..Len(native.queue) : (native.queue \o <<x>>)[i] = native.queue[j]
  BY <1>t, QueueGrew
<1>5. m \in HeldMove /\ m.cid = 0  BY <1>1, HumanIsNoSeat DEF HeldMove
<1>6. \A c \in Calls : Stands(c)' <=> Stands(c)
  <2>1. \A c \in Calls : c # 0  BY DEF Calls
  <2>2. (\A c : Stands(c) => Stands(c)') /\ \A c : Stands(c)' => Stands(c) \/ c = m.cid
    BY <1>2, <1>5, <1>i, MoveAdded
  <2>. QED  BY <2>1, <2>2, <1>5
<1>7. Calls' = Calls /\ Asked' = Asked  BY <1>1 DEF Calls, Asked
<1>8. TakenAndKept' = TakenAndKept  BY <1>1, <1>6, <1>7 DEF TakenAndKept
<1>. QED  BY <1>1, <1>2, <1>3, <1>4, <1>7, <1>8 DEF Keeps

\* Steps that only write of the game.
LEMMA WritingKeeps ==
  ASSUME calls' = calls, native'.held = native.held, native'.boot = native.boot, native'.up = native.up,
         \A i \in 1..Len(native'.queue) : native'.queue[i].kind = "callback_resume_state" =>
           \E j \in 1..Len(native.queue) : native.queue[j].kind = "callback_resume_state"
  PROVE  Keeps
<1>1. Calls' = Calls /\ Asked' = Asked  BY DEF Calls, Asked
<1>2. \A c : Stands(c)' <=> Stands(c)  BY DEF Stands
<1>3. TakenAndKept' = TakenAndKept  BY <1>1, <1>2 DEF TakenAndKept
<1>. QED  BY <1>1, <1>3 DEF Keeps

LEMMA OversKeep ==
  ASSUME CaptureInv, Overs
  PROVE  Keeps
<1>t. native \in NativeGame /\ native.queue \in Seq(SourceRow)
  BY StateTypes DEF CaptureInv, CaptureTypeOK
<1>1. PICK k, x :
        /\ k \in EndOfGame /\ x = Row(k) /\ native' = [native EXCEPT !.over = TRUE, !.queue = native.queue \o <<x>>]
        /\ calls' = calls
  BY DEF Overs, Queued
<1>2. /\ native'.boot = native.boot /\ native'.up = native.up /\ native'.queue = native.queue \o <<x>>
      /\ native'.held = native.held
  BY <1>1, <1>t DEF NativeGame
<1>3. x.kind # "callback_resume_state"  BY <1>1 DEF Row, EndOfGame
<1>4. \A i \in 1..Len(native.queue \o <<x>>) :
        \/ (native.queue \o <<x>>)[i] = x
        \/ \E j \in 1..Len(native.queue) : (native.queue \o <<x>>)[i] = native.queue[j]
  BY <1>t, QueueGrew
<1>. QED  BY <1>1, <1>2, <1>3, <1>4, WritingKeeps

LEMMA LosesRowKeeps ==
  ASSUME CaptureInv, LosesRow
  PROVE  Keeps
<1>t. native \in NativeGame /\ native.queue \in Seq(SourceRow) /\ Len(native.queue) \in Nat
  BY StateTypes DEF CaptureInv, CaptureTypeOK
<1>1. PICK i \in 1..Len(native.queue) :
        /\ native' = [native EXCEPT !.queue = RemoveAt(native.queue, i), !.gaps = native.gaps + 1]
        /\ calls' = calls
  BY DEF LosesRow
<1>2. /\ native'.boot = native.boot /\ native'.up = native.up /\ native'.queue = RemoveAt(native.queue, i)
      /\ native'.held = native.held
  BY <1>1, <1>t DEF NativeGame
<1>3. \A k \in 1..Len(native'.queue) : \E j \in 1..Len(native.queue) : native'.queue[k] = native.queue[j]
  <2>1. TAKE k \in 1..Len(native'.queue)
  <2>2. k \in 1..(Len(native.queue) - 1)
        /\ native'.queue[k] = IF k < i THEN native.queue[k] ELSE native.queue[k + 1]
    BY <1>2, <1>t, RowRemoved
  <2>3. k \in 1..Len(native.queue) /\ k + 1 \in 1..Len(native.queue)  BY <2>2, <1>t
  <2>. QED  BY <2>2, <2>3
<1>. QED  BY <1>1, <1>2, <1>3, WritingKeeps

LEMMA ImportsKeep ==
  ASSUME CaptureInv, NEW n \in 0..Len(native.queue), Imports(n)
  PROVE  Keeps
<1>t. native \in NativeGame  BY DEF CaptureInv, CaptureTypeOK
<1>1. /\ native' = [native EXCEPT !.queue = SubSeq(native.queue, n + 1, Len(native.queue))]
      /\ calls' = calls
  BY DEF Imports
<1>2. native'.boot = native.boot /\ native'.up = native.up /\ native'.held = native.held
  BY <1>1, <1>t DEF NativeGame
<1>3. \A i \in 1..Len(native'.queue) : \E j \in 1..Len(native.queue) : native'.queue[i] = native.queue[j]
  BY ImportsInv
<1>. QED  BY <1>1, <1>2, <1>3, WritingKeeps
-----------------------------------------------------------------------------
(* Each step of the observer, of the gate, and of the game beneath them.    *)

LEMMA DrainBegins ==
  ASSUME CaptureInit, DrainInit
  PROVE  DrainInv
<1>1. CaptureInv  BY CaptureBegins
<1>2. DrainTypeOK  BY DEF DrainInit, DrainTypeOK, Observation, Nothing
<1>3. GateOK
  <2>1. native.boot = 1 /\ ~gate.paused /\ drain.now.boot = 0
    BY DEF CaptureInit, DrainInit, Nothing
  <2>. QED  BY <2>1 DEF GateOK
<1>4. ObserverOK
  <2>1. ~Busy  BY DEF Busy, DrainInit
  <2>2. drain.at # "read"  BY DEF DrainInit
  <2>. QED  BY <2>1, <2>2 DEF ObserverOK
<1>. QED  BY <1>1, <1>2, <1>3, <1>4 DEF DrainInv

LEMMA ComesBackDrains ==
  ASSUME DrainInv, ComesBack, UNCHANGED drainVars
  PROVE  DrainInv'
<1>i. CaptureInv /\ DrainTypeOK /\ GateOK /\ ObserverOK  BY DEF DrainInv
<1>u. gate' = gate /\ drain' = drain  BY DEF drainVars
<1>t. native \in NativeGame /\ native.boot \in Nat /\ drain.now.boot \in Nat
  BY <1>i, StateTypes DEF CaptureInv, CaptureTypeOK, DrainTypeOK, Observation
<1>0. ~native.up /\ ~gate.paused  BY <1>i DEF ComesBack, GateOK
<1>1. native'.boot = native.boot + 1  BY <1>t DEF ComesBack, NativeGame
<1>2. CaptureInv'  BY <1>i, ComesBackInv
<1>3. DrainTypeOK'  BY <1>i, <1>u DEF DrainTypeOK
<1>4. GateOK'
  <2>1. drain.now.boot <= native.boot /\ native.boot > 0  BY <1>i DEF GateOK
  <2>2. native'.boot > 0 /\ drain'.now.boot <= native'.boot /\ native'.boot # drain'.now.boot
    BY <2>1, <1>t, <1>u, <1>1
  <2>. QED  BY <2>2, <1>0, <1>u DEF GateOK
<1>5. ObserverOK'
  <2>1. ~Still'  BY <1>0, <1>u DEF Still
  <2>. QED  BY <2>1, <1>i, <1>u DEF ObserverOK, Busy
<1>. QED  BY <1>2, <1>3, <1>4, <1>5 DEF DrainInv

LEMMA CaptureStepDrains ==
  ASSUME DrainInv, CaptureStep, UNCHANGED drainVars
  PROVE  DrainInv'
<1>i. CaptureInv /\ DrainTypeOK /\ GateOK /\ ObserverOK  BY DEF DrainInv
<1>1. CaptureInv'  BY <1>i, CaptureStepInv
<1>2. ASSUME Keeps PROVE DrainInv'  BY <1>1, <1>2, <1>i, KeepsInv DEF DrainInv
<1>3. CASE HumanMoves  BY <1>2, <1>3, <1>i, HumanMovesKeep
<1>4. CASE Overs  BY <1>2, <1>4, <1>i, OversKeep
<1>5. CASE LosesRow  BY <1>2, <1>5, <1>i, LosesRowKeeps
<1>6. CASE ComesBack  BY <1>6, ComesBackDrains
<1>7. CASE ImportsAll
  <2>1. Len(native.queue) \in 0..Len(native.queue)  BY <1>i, StateTypes DEF CaptureInv
  <2>. QED  BY <2>1, <1>2, <1>7, <1>i, ImportsKeep DEF ImportsAll
<1>8. CASE Attaches \/ ReadsChoices  BY <1>2, <1>8, GameKept DEF Attaches, ReadsChoices
<1>9. ASSUME NEW c \in Calls, TakesAnswer(c) \/ GivesUp(c) PROVE DrainInv'
  BY <1>2, <1>9, <1>i, AnswersKeep
<1>10. ASSUME NEW c \in Calls, Starts(c) \/ Finishes(c) PROVE DrainInv'
  BY <1>2, <1>10, GameKept DEF Starts, Finishes
<1>. QED  BY <1>3, <1>4, <1>5, <1>6, <1>7, <1>8, <1>9, <1>10 DEF CaptureStep

LEMMA AsksDrains ==
  ASSUME DrainInv, ~gate.paused, Asks, UNCHANGED drainVars
  PROVE  DrainInv'
<1>i. CaptureInv /\ DrainTypeOK /\ GateOK /\ ObserverOK  BY DEF DrainInv
<1>u. gate' = gate /\ drain' = drain  BY DEF drainVars
<1>t. native \in NativeGame  BY <1>i DEF CaptureInv, CaptureTypeOK
<1>1. native'.boot = native.boot /\ native'.up = native.up
  BY <1>t DEF Asks, NativeGame
<1>2. CaptureInv'  BY <1>i, AsksInv
<1>3. DrainTypeOK'  BY <1>i, <1>u DEF DrainTypeOK
<1>4. GateOK'  BY <1>i, <1>u, <1>1 DEF GateOK
<1>5. ObserverOK'
  <2>1. ~Still'  BY <1>u DEF Still
  <2>. QED  BY <2>1, <1>i, <1>u DEF ObserverOK, Busy
<1>. QED  BY <1>2, <1>3, <1>4, <1>5 DEF DrainInv

LEMMA ImportsDrains ==
  ASSUME DrainInv, NEW n \in 0..Len(native.queue), Imports(n), UNCHANGED drainVars
  PROVE  DrainInv'
<1>i. CaptureInv /\ DrainTypeOK /\ GateOK /\ ObserverOK  BY DEF DrainInv
<1>1. CaptureInv'  BY <1>i, ImportsInv
<1>2. Keeps  BY <1>i, ImportsKeep
<1>. QED  BY <1>1, <1>2, <1>i, KeepsInv DEF DrainInv

LEMMA GoesDownDrains ==
  ASSUME DrainInv, GoesDown, gate' = [paused |-> FALSE, generation |-> 0], UNCHANGED drain
  PROVE  DrainInv'
<1>i. CaptureInv /\ DrainTypeOK /\ GateOK /\ ObserverOK  BY DEF DrainInv
<1>t. native \in NativeGame  BY <1>i DEF CaptureInv, CaptureTypeOK
<1>1. native'.boot = native.boot /\ native'.up = FALSE  BY <1>t DEF GoesDown, NativeGame
<1>2. CaptureInv'  BY <1>i, GoesDownInv
<1>3. DrainTypeOK'  BY <1>i DEF DrainTypeOK
<1>4. GateOK'  BY <1>i, <1>1 DEF GateOK
<1>5. ObserverOK'
  <2>1. ~Still'  BY <1>1 DEF Still
  <2>. QED  BY <2>1, <1>i DEF ObserverOK, Busy
<1>. QED  BY <1>2, <1>3, <1>4, <1>5 DEF DrainInv

LEMMA PausesDrains ==
  ASSUME DrainInv, Pauses
  PROVE  DrainInv'
<1>i. CaptureInv /\ DrainTypeOK /\ GateOK /\ ObserverOK  BY DEF DrainInv
<1>t. gate.generation \in Nat /\ drain.now.generation \in Nat  BY <1>i DEF DrainTypeOK, Observation
<1>1. /\ native.up /\ gate' = [paused |-> TRUE, generation |-> gate.generation + 1]
      /\ UNCHANGED captureVars /\ drain' = drain /\ native' = native
      /\ \A i \in 1..Len(native.queue) : native.queue[i].kind # "callback_resume_state"
  BY DEF Pauses, captureVars
<1>2. CaptureInv'  BY <1>1, <1>i, CaptureStutters
<1>3. DrainTypeOK'  BY <1>1, <1>t, <1>i DEF DrainTypeOK
<1>4. native.boot = drain.now.boot => drain.now.generation <= gate.generation  BY <1>1, <1>i DEF GateOK
<1>5. GateOK'
  <2>1. drain.now.generation <= gate.generation => drain.now.generation <= gate.generation + 1
    BY <1>t
  <2>. QED  BY <2>1, <1>1, <1>4, <1>i DEF GateOK
<1>6. ~Still'
  <2>1. SUFFICES ASSUME Still' PROVE FALSE  OBVIOUS
  <2>2. native.boot = drain.now.boot /\ gate.generation + 1 = drain.now.generation
    BY <2>1, <1>1 DEF Still, SameEpoch
  <2>. QED  BY <2>2, <1>4, <1>t
<1>7. ObserverOK'  BY <1>1, <1>6, <1>i DEF ObserverOK, Busy
<1>. QED  BY <1>2, <1>3, <1>5, <1>7 DEF DrainInv

LEMMA ReopensDrains ==
  ASSUME DrainInv, Reopens
  PROVE  DrainInv'
<1>i. CaptureInv /\ DrainTypeOK /\ GateOK /\ ObserverOK  BY DEF DrainInv
<1>1. /\ gate' = [gate EXCEPT !.paused = FALSE] /\ UNCHANGED captureVars
      /\ drain' = drain /\ native' = native
  BY DEF Reopens, captureVars
<1>t. gate'.paused = FALSE /\ gate'.generation = gate.generation
      /\ gate' \in [paused : BOOLEAN, generation : Nat]
  BY <1>1, <1>i DEF DrainTypeOK
<1>2. CaptureInv'  BY <1>1, <1>i, CaptureStutters
<1>3. DrainTypeOK'  BY <1>1, <1>t, <1>i DEF DrainTypeOK
<1>4. GateOK'  BY <1>1, <1>t, <1>i DEF GateOK
<1>5. ObserverOK'
  <2>1. ~Still'  BY <1>t DEF Still
  <2>. QED  BY <2>1, <1>1, <1>i DEF ObserverOK, Busy
<1>. QED  BY <1>2, <1>3, <1>4, <1>5 DEF DrainInv

LEMMA RecorderRestartsDrains ==
  ASSUME DrainInv, RecorderRestarts
  PROVE  DrainInv'
<1>i. CaptureInv /\ DrainTypeOK /\ GateOK /\ ObserverOK  BY DEF DrainInv
<1>1. UNCHANGED <<native, source, imported, calls>> /\ UNCHANGED drainVars  BY DEF RecorderRestarts
<1>2. CaptureInv'  BY <1>i, RecorderRestartsInv
<1>3. Keeps  BY <1>1, GameKept
<1>. QED  BY <1>1, <1>2, <1>3, <1>i, KeepsInv DEF DrainInv

\* The observer's steps leave the rest as it is.
LEMMA ObserverSteps ==
  ASSUME CaptureInv, UNCHANGED <<captureVars, gate>>
  PROVE  /\ CaptureInv' /\ native' = native /\ gate' = gate /\ calls' = calls
         /\ Asked' = Asked /\ TakenAndKept' = TakenAndKept
<1>1. UNCHANGED captureVars /\ UNCHANGED <<native, source, imported, calls>>  BY DEF captureVars
<1>. QED  BY <1>1, CaptureStutters, GameUnchanged

LEMMA ReadsStatusDrains ==
  ASSUME DrainInv, ReadsStatus
  PROVE  DrainInv'
<1>i. CaptureInv /\ DrainTypeOK /\ GateOK /\ ObserverOK  BY DEF DrainInv
<1>t. /\ native.boot \in Nat /\ gate.generation \in Nat /\ Len(calls) \in Nat
      /\ drain.first \in Observation /\ drain.now \in Observation /\ native.boot > 0
  BY <1>i, StateTypes DEF CaptureInv, DrainTypeOK, GateOK
<1>1. PICK now, first :
        /\ now = [boot |-> native.boot, generation |-> gate.generation, asked |-> Len(calls), seen |-> {},
                  native |-> 0, rows |-> 0]
        /\ first = IF drain.at = "done" THEN drain.now ELSE Nothing
        /\ drain' = [at |-> "reading", first |-> first, now |-> now]
  BY DEF ReadsStatus, Nothing
<1>2. /\ CaptureInv' /\ native' = native /\ gate' = gate /\ calls' = calls
      /\ Asked' = Asked /\ TakenAndKept' = TakenAndKept
  BY <1>i, ObserverSteps DEF ReadsStatus
<1>3. native.up /\ gate.paused /\ Asked = {}  BY DEF ReadsStatus, Paused
<1>4. now \in Observation /\ first \in Observation
  <2>1. Nothing \in Observation  BY DEF Nothing, Observation
  <2>. QED  BY <2>1, <1>1, <1>t DEF Observation
<1>5. drain'.at = "reading" /\ drain'.first = first /\ drain'.now = now
      /\ now.boot = native.boot /\ now.generation = gate.generation /\ now.asked = Len(calls)
  BY <1>1
<1>6. DrainTypeOK'  BY <1>1, <1>2, <1>4, <1>i DEF DrainTypeOK
<1>7. GateOK'  BY <1>2, <1>5, <1>t, <1>i DEF GateOK
<1>8. first.boot = now.boot /\ first.generation = now.generation => first.asked = now.asked
  <2>1. CASE drain.at = "done"
    <3>1. first = drain.now /\ Busy  BY <2>1, <1>1 DEF Busy
    <3>2. ASSUME first.boot = now.boot, first.generation = now.generation
          PROVE  first.asked = now.asked
      <4>1. Still  BY <3>1, <3>2, <1>3, <1>5 DEF Still, SameEpoch
      <4>. QED  BY <4>1, <3>1, <1>5, <1>i DEF ObserverOK
    <3>. QED  BY <3>2
  <2>2. CASE drain.at # "done"
    <3>1. first = Nothing  BY <2>2, <1>1
    <3>2. first.boot = 0  BY <3>1 DEF Nothing
    <3>. QED  BY <3>2, <1>5, <1>t
  <2>. QED  BY <2>1, <2>2
<1>9. ObserverOK'  BY <1>2, <1>3, <1>5, <1>8 DEF ObserverOK
<1>. QED  BY <1>2, <1>6, <1>7, <1>9 DEF DrainInv

LEMMA GoesDrains ==
  ASSUME DrainInv, UNCHANGED <<captureVars, gate>>, NEW place \in {"refused", "done", "again", "verified"},
         Goes(place), place \in {"done", "again"} => Busy
  PROVE  DrainInv'
<1>i. CaptureInv /\ DrainTypeOK /\ GateOK /\ ObserverOK  BY DEF DrainInv
<1>1. /\ drain' = [drain EXCEPT !.at = place] /\ drain'.at = place
      /\ drain'.first = drain.first /\ drain'.now = drain.now
  BY <1>i DEF Goes, DrainTypeOK
<1>2. /\ CaptureInv' /\ native' = native /\ gate' = gate /\ calls' = calls
      /\ Asked' = Asked /\ TakenAndKept' = TakenAndKept
  BY <1>i, ObserverSteps
<1>3. DrainTypeOK'  BY <1>1, <1>2, <1>i DEF DrainTypeOK
<1>4. GateOK'  BY <1>1, <1>2, <1>i DEF GateOK
<1>5. (Still' <=> Still) /\ (Busy' => Busy) /\ drain'.at # "read"
  BY <1>1, <1>2 DEF Still, SameEpoch, Busy
<1>6. ObserverOK'  BY <1>1, <1>2, <1>5, <1>i DEF ObserverOK
<1>. QED  BY <1>2, <1>3, <1>4, <1>6 DEF DrainInv

LEMMA ReadsRecordingDrains ==
  ASSUME DrainInv, ReadsRecording
  PROVE  DrainInv'
<1>i. CaptureInv /\ DrainTypeOK /\ GateOK /\ ObserverOK  BY DEF DrainInv
<1>1. CASE ~Whole  BY <1>1, GoesDrains DEF ReadsRecording
<1>2. CASE Whole
  <2>t. /\ drain.now \in Observation /\ drain.first \in Observation /\ Completed \in SUBSET Nat
        /\ imported \in Nat /\ Len(gym) \in Nat
    <3>1. Completed \in SUBSET Nat  BY DEF Completed, Calls
    <3>2. imported \in Nat /\ Len(gym) \in Nat  BY <1>i, StateTypes DEF CaptureInv, CaptureTypeOK
    <3>. QED  BY <3>1, <3>2, <1>i DEF DrainTypeOK
  <2>1. PICK now, seen :
          /\ seen = Completed
          /\ now = [boot |-> drain.now.boot, generation |-> drain.now.generation, asked |-> drain.now.asked,
                    seen |-> seen, native |-> imported, rows |-> Len(gym)]
    OBVIOUS
  <2>2. drain' = [at |-> "read", first |-> drain.first, now |-> now]
    <3>1. drain' = [drain EXCEPT !.at = "read", !.now.seen = seen, !.now.native = imported,
                      !.now.rows = Len(gym)]
      BY <1>2, <2>1 DEF ReadsRecording
    <3>. QED  BY <3>1, <2>1, <1>i DEF DrainTypeOK, Observation
  <2>3. now \in Observation  BY <2>1, <2>t DEF Observation
  <2>4. /\ drain'.at = "read" /\ drain'.first = drain.first /\ drain'.now = now
        /\ now.boot = drain.now.boot /\ now.generation = drain.now.generation
        /\ now.asked = drain.now.asked /\ now.seen = Completed
    BY <2>1, <2>2
  <2>5. /\ CaptureInv' /\ native' = native /\ gate' = gate /\ calls' = calls
        /\ Asked' = Asked /\ TakenAndKept' = TakenAndKept
    BY <1>i, ObserverSteps DEF ReadsRecording
  <2>6. DrainTypeOK'  BY <2>2, <2>3, <2>5, <1>i DEF DrainTypeOK
  <2>7. GateOK'  BY <2>4, <2>5, <1>i DEF GateOK
  <2>8. (Still' <=> Still) /\ Busy  BY <2>4, <2>5 DEF Still, SameEpoch, Busy, ReadsRecording
  <2>9. Still => Completed = TakenAndKept
    <3>1. SUFFICES ASSUME Still PROVE Completed = TakenAndKept  OBVIOUS
    <3>2. native.up /\ \A i \in 1..Len(native.queue) : native.queue[i].kind # "callback_resume_state"
      BY <3>1, <1>i DEF Still, GateOK
    <3>3. /\ native.gaps = 0 /\ imported = Len(source) /\ Authenticated
          /\ \A c \in Completed : One(RowsOf("ai_callback_result", c))
      BY <1>2 DEF Whole, Joined
    <3>. QED  BY <3>2, <3>3, <1>i, FinishedAreHeld
  <2>10. ObserverOK'  BY <2>4, <2>5, <2>8, <2>9, <1>i DEF ObserverOK
  <2>. QED  BY <2>5, <2>6, <2>7, <2>10 DEF DrainInv
<1>. QED  BY <1>1, <1>2

LEMMA ReadsStatusAgainDrains ==
  ASSUME DrainInv, ReadsStatusAgain
  PROVE  DrainInv'
<1>1. Busy /\ UNCHANGED <<captureVars, gate>>  BY DEF ReadsStatusAgain, Busy
<1>2. PICK place \in {"refused", "done", "again", "verified"} : Goes(place)  BY DEF ReadsStatusAgain
<1>. QED  BY <1>1, <1>2, GoesDrains

LEMMA VerifiesDrains ==
  ASSUME DrainInv, Verifies
  PROVE  DrainInv'
<1>1. Busy /\ UNCHANGED <<captureVars, gate>>  BY DEF Verifies, Busy
<1>2. PICK place \in {"refused", "done", "again", "verified"} : Goes(place)  BY DEF Verifies
<1>. QED  BY <1>1, <1>2, GoesDrains

LEMMA DrainStutters ==
  ASSUME DrainInv, UNCHANGED <<captureVars, drainVars>>
  PROVE  DrainInv'
<1>i. CaptureInv /\ DrainTypeOK /\ GateOK /\ ObserverOK  BY DEF DrainInv
<1>1. UNCHANGED captureVars /\ UNCHANGED drainVars /\ UNCHANGED <<native, source, imported, calls>>
  BY DEF captureVars
<1>2. CaptureInv'  BY <1>1, <1>i, CaptureStutters
<1>3. Keeps  BY <1>1, GameKept
<1>. QED  BY <1>1, <1>2, <1>3, <1>i, KeepsInv DEF DrainInv

LEMMA DrainNextInv ==
  ASSUME DrainInv, DrainNext
  PROVE  DrainInv'
<1>1. CASE (CaptureStep \/ (~gate.paused /\ Asks)) /\ UNCHANGED drainVars
  BY <1>1, CaptureStepDrains, AsksDrains
<1>2. CASE (\E n \in 0..Len(native.queue) : Imports(n)) /\ UNCHANGED drainVars
  BY <1>2, ImportsDrains
<1>3. CASE GoesDown /\ gate' = [paused |-> FALSE, generation |-> 0] /\ UNCHANGED drain
  BY <1>3, GoesDownDrains
<1>4. CASE Pauses \/ Reopens \/ RecorderRestarts
  BY <1>4, PausesDrains, ReopensDrains, RecorderRestartsDrains
<1>5. CASE ReadsStatus \/ ReadsRecording \/ ReadsStatusAgain \/ Verifies
  BY <1>5, ReadsStatusDrains, ReadsRecordingDrains, ReadsStatusAgainDrains, VerifiesDrains
<1>. QED  BY <1>1, <1>2, <1>3, <1>4, <1>5 DEF DrainNext

\* In every state of a recording and of its observation the invariant holds: what the
\* game holds, what its rows tell, and what the observer has read agree, with the
\* exceptions that each part names.
THEOREM RecordingsAreKept == DrainSpec => []DrainInv
<1>1. CaptureInit /\ DrainInit => DrainInv  BY DrainBegins
<1>2. DrainInv /\ [DrainNext]_<<captureVars, drainVars>> => DrainInv'  BY DrainNextInv, DrainStutters
<1>. QED  BY <1>1, <1>2, PTL DEF DrainSpec

\* canonical_capture.py and captured_choices.py: whatever the crashes, the missed rows and
\* the late answers, an envelope that is made tells of the game as it was played, move by
\* move, the older reader gives no choice that was not played and kept, and a game without
\* a fault is never refused.
THEOREM EvidenceHolds == DrainSpec => []EvidenceIsTrue
<1>1. DrainInv => EvidenceIsTrue
  <2>1. SUFFICES ASSUME DrainInv PROVE EvidenceIsTrue  OBVIOUS
  <2>2. EvidenceOK  BY <2>1 DEF DrainInv, CaptureInv
  <2>3. CASE evidence.made = "no"
    BY <2>3 DEF EvidenceIsTrue, EnvelopeIsTrue, ChoicesAreTrue, CleanIsConverted
  <2>4. CASE evidence.made # "no"  BY <2>2, <2>4 DEF EvidenceOK
  <2>. QED  BY <2>3, <2>4
<1>. QED  BY <1>1, RecordingsAreKept, PTL

\* Only the second look at the gate ends an observation, and only the comparison verifies.
LEMMA ObservationEnds ==
  ASSUME DrainInv, DrainNext, drain.at = "read", drain'.at \in {"done", "again"}
  PROVE  Len(calls) = drain.now.asked /\ Asked = {} /\ drain.now.seen = TakenAndKept
<1>i. DrainTypeOK /\ ObserverOK  BY DEF DrainInv
<1>1. drain' # drain  OBVIOUS
<1>2. ReadsStatusAgain
  <2>1. ~(ReadsStatus \/ ReadsRecording \/ Verifies)  BY DEF ReadsStatus, ReadsRecording, Verifies
  <2>. QED  BY <1>1, <2>1 DEF DrainNext, drainVars, Pauses, Reopens, RecorderRestarts
<1>3. Paused /\ SameEpoch
  <2>1. SUFFICES ASSUME ~(Paused /\ SameEpoch) PROVE FALSE  OBVIOUS
  <2>2. drain'.at = "refused"  BY <2>1, <1>2, <1>i DEF ReadsStatusAgain, Goes, DrainTypeOK
  <2>. QED  BY <2>2
<1>4. Still /\ Busy  BY <1>3 DEF Paused, Still, Busy
<1>. QED  BY <1>4, <1>i DEF ObserverOK

LEMMA RestartVerified ==
  ASSUME DrainInv, DrainNext, drain.at # "verified", drain'.at = "verified"
  PROVE  /\ drain.now.asked = drain.first.asked
         /\ \A i \in (drain.first.rows + 1)..Len(gym) : gym[i].cid = 0
<1>i. DrainTypeOK /\ ObserverOK /\ CaptureTypeOK /\ GymOK  BY DEF DrainInv, CaptureInv, PlayedOK
<1>1. drain' # drain  OBVIOUS
<1>2. Verifies
  <2>1. ~ReadsStatus  BY DEF ReadsStatus
  <2>2. ~ReadsRecording  BY <1>i DEF ReadsRecording, Goes, DrainTypeOK, Observation
  <2>3. ~ReadsStatusAgain  BY <1>i DEF ReadsStatusAgain, Goes, DrainTypeOK
  <2>. QED  BY <1>1, <2>1, <2>2, <2>3 DEF DrainNext, drainVars, Pauses, Reopens, RecorderRestarts
<1>3. Unchanged /\ Since \in {<<>>, <<"resume", "runtime_context">>}
  <2>1. SUFFICES ASSUME ~(Unchanged /\ Since \in {<<>>, <<"resume", "runtime_context">>}) PROVE FALSE
    OBVIOUS
  <2>2. drain'.at = "refused"  BY <2>1, <1>2, <1>i DEF Verifies, Goes, DrainTypeOK
  <2>. QED  BY <2>2
<1>4. drain.first.boot = drain.now.boot /\ drain.first.generation = drain.now.generation
  BY <1>3, <1>i DEF Unchanged, DrainTypeOK, Observation
<1>5. drain.now.asked = drain.first.asked
  <2>1. Busy  BY <1>2 DEF Verifies, Busy
  <2>. QED  BY <2>1, <1>4, <1>i DEF ObserverOK
<1>6. ASSUME NEW i \in (drain.first.rows + 1)..Len(gym) PROVE gym[i].cid = 0
  <2>1. PICK n \in Nat, m \in Nat : n = drain.first.rows /\ m = Len(gym)
    BY <1>i, StateTypes DEF DrainTypeOK, Observation
  <2>2. i - n \in 1..(m - n) /\ n + (i - n) = i /\ i \in 1..m  BY <2>1
  <2>3. Since[i - n] = gym[i].kind  BY <2>1, <2>2 DEF Since
  <2>4. i - n \in DOMAIN Since  BY <2>1, <2>2 DEF Since
  <2>5. gym[i].kind \in {"resume", "runtime_context"}
    <3>1. PICK s : s = Since  OBVIOUS
    <3>2. CASE s = <<>>  BY <3>1, <3>2, <2>4
    <3>3. CASE s = <<"resume", "runtime_context">>
      <4>1. i - n \in 1..2  BY <3>1, <3>3, <2>4
      <4>2. s[1] = "resume" /\ s[2] = "runtime_context"  BY <3>3
      <4>. QED  BY <4>1, <4>2, <3>1, <2>3
    <3>. QED  BY <3>1, <3>2, <3>3, <1>3
  <2>. QED  BY <2>1, <2>2, <2>5, <1>i DEF GymOK
<1>. QED  BY <1>5, <1>6

\* qa_callback_drain.py: an observation that is accepted is of a game at rest, though the
\* observer holds no lock between its three readings; and a restart that is verified lost
\* nothing and let nothing begin.
THEOREM DrainsAreRests == DrainSpec => DrainedMeansAtRest
<1>1. DrainInv /\ [DrainNext]_<<captureVars, drainVars>> =>
        [ObservedAtRest /\ ReopenedAtRest]_<<captureVars, drainVars>>
  BY ObservationEnds, RestartVerified DEF ObservedAtRest, ReopenedAtRest
<1>. QED  BY <1>1, RecordingsAreKept, PTL DEF DrainSpec, DrainedMeansAtRest
=============================================================================
