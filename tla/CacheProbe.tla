------------------------------ MODULE CacheProbe ------------------------------
(***************************************************************************)
(* One paid experiment that must survive being killed                      *)
(* (commander_gym/cache_probe_session.py with its executor,                *)
(* scripts/run_saved_cache_probe.py).  A fixed list of requests is sent to *)
(* a provider, each once, with an immediate retry for at most MaxRetries   *)
(* answers that were no valid choice.  Three files outlive a process: the  *)
(* manifest with the ledger as the session found it, the intents (written  *)
(* before anything is sent) and the results; the ledger of the shared      *)
(* budget (OpenAIRunBudget) is the fourth.  Every process of the session   *)
(* verifies that the four agree before it sends anything.                  *)
(*                                                                         *)
(* A request reserves 2; a full usage report is charged with 1, a report   *)
(* without cache details with 2 (nothing is known to be cheaper), a report *)
(* above the estimate with 3, and no report leaves the reservation.        *)
(***************************************************************************)
EXTENDS Naturals, Sequences, FiniteSets, SequencesExt

CONSTANTS
  Procs,        \* processes that run the session, one after another or at once
  Trials,       \* number of primary requests
  MaxAttempts, MaxRetries,
  Increment,    \* what the session may reserve in all
  MaxFaults,    \* bound: deaths and failed writes
  MaxForeign,   \* bound: requests of other runs on the same ledger
  LedgerCap     \* cap of the shared ledger

ASSUME ProbeAssumption ==
  /\ Trials \in Nat \ {0} /\ MaxAttempts \in Nat \ {0} /\ MaxRetries \in Nat
  /\ Increment \in Nat /\ LedgerCap \in Nat /\ Procs # {}

VARIABLES
  manifest,    \* {} or {the ledger at the start}; "torn" while half-written
  intents, results,
  receipts,    \* attempt-NN.json: ordinals whose response is kept
  tail,        \* a half-written last row: {}, {"intents"} or {"results"}
  ledger,      \* the shared ledger: [usd, requests, unsettled]
  lock,        \* .session.lock: {} or {process}
  pc, here,    \* per process: where it is, and the attempt it works on
  faults, foreign,
  sent,        \* history: [ordinal, trial, retry] of each dispatch, in order
  billed       \* history: what the provider has charged the session

vars == <<manifest, intents, results, receipts, tail, ledger, lock, pc, here,
          faults, foreign, sent, billed>>
disk == <<manifest, intents, results, receipts, tail>>

Reservation == 2
Usages == {"full", "bare", "over", "none"}
Charge(u) == CASE u = "full" -> 1 [] u = "over" -> 3 [] OTHER -> Reservation
NoAttempt == [trial |-> 0, retry |-> FALSE, usage |-> "none", valid |-> FALSE]

Charged(s)   == FoldSeq(LAMBDA row, acc : acc + row.charge, 0, s)
Unsettled(s) == FoldSeq(LAMBDA row, acc : acc + row.unsettled, 0, s)
Retries(s)   == Cardinality({i \in DOMAIN s : s[i].retry})
Primaries(s) == Len(s) - Retries(s)
Start == CHOOSE l \in manifest : TRUE

Init ==
  /\ manifest = {} /\ intents = <<>> /\ results = <<>> /\ receipts = {} /\ tail = {}
  /\ ledger = [usd |-> 0, requests |-> 0, unsettled |-> 0]
  /\ lock = {} /\ pc = [p \in Procs |-> "down"] /\ here = [p \in Procs |-> NoAttempt]
  /\ faults = 0 /\ foreign = 0 /\ sent = <<>> /\ billed = 0

-----------------------------------------------------------------------------
(* What a process checks. *)

WholeLines == tail = {}

LedgerAgrees ==
  /\ ledger.requests = Start.requests + Len(intents)
  /\ ledger.unsettled = Start.unsettled + Unsettled(results)
  /\ ledger.usd = Start.usd + Charged(results)

\* Variant: an attempt without a result is taken for one that was not sent.
VerifiedUnpaired ==
  /\ WholeLines /\ Len(intents) <= MaxAttempts
  /\ Reservation * Len(intents) <= Increment
\* verify: the journals pair up, and the ledger moved by what they say and no more.
Verified ==
  /\ WholeLines /\ Len(intents) = Len(results) /\ Len(intents) <= MaxAttempts
  /\ LedgerAgrees
  /\ Reservation * Len(intents) <= Increment
  /\ ledger.usd <= Start.usd + Increment /\ ledger.usd <= LedgerCap

NeedsReview ==
  results # <<>> /\ (Last(results).kind # "provider_response" \/ Last(results).unsettled # 0)

RetryDue ==
  /\ results # <<>> /\ ~Last(results).valid /\ ~Last(results).retry
  /\ Retries(intents) < MaxRetries

AllSent == Primaries(intents) >= Trials

Moves(p, place) == pc' = [pc EXCEPT ![p] = place]
\* The process ends with an error; its lock goes with it.
Stops(p) == Moves(p, "down") /\ lock' = lock \ {p}

-----------------------------------------------------------------------------
(* Opening: take the lock, write or compare the manifest, verify. *)

TakeLock(p) ==
  /\ pc[p] = "down" /\ lock = {}
  /\ lock' = {p} /\ Moves(p, "opening")
  /\ UNCHANGED <<disk, ledger, here, faults, foreign, sent, billed>>

WriteManifest(p) ==
  /\ pc[p] = "opening" /\ manifest = {} /\ intents = <<>> /\ results = <<>> /\ WholeLines
  /\ manifest' = {ledger} /\ Moves(p, "ready")
  /\ UNCHANGED <<intents, results, receipts, tail, ledger, lock, here, faults, foreign, sent, billed>>

Resume(p) ==
  /\ pc[p] = "opening" /\ manifest # {} /\ Verified
  /\ Moves(p, "ready")
  /\ UNCHANGED <<disk, ledger, lock, here, faults, foreign, sent, billed>>

OpenRefused(p) ==
  /\ pc[p] = "opening"
  /\ IF manifest = {} THEN intents # <<>> \/ results # <<>> \/ ~WholeLines ELSE ~Verified
  /\ Stops(p)
  /\ UNCHANGED <<disk, ledger, here, faults, foreign, sent, billed>>

-----------------------------------------------------------------------------
(* execute_trials: one turn of its loop. *)

MayGoOn == Verified /\ ~NeedsReview
NextAttempt ==
  IF RetryDue THEN [NoAttempt EXCEPT !.trial = Last(results).trial, !.retry = TRUE]
  ELSE [NoAttempt EXCEPT !.trial = Primaries(intents) + 1]

\* begin: its guards, then the intent, durable before anything is sent.
MayBegin ==
  /\ Len(intents) < MaxAttempts
  /\ Reservation * (Len(intents) + 1) <= Increment

Begin(p) ==
  /\ pc[p] = "ready" /\ MayGoOn /\ (RetryDue \/ ~AllSent) /\ MayBegin
  /\ here' = [here EXCEPT ![p] = NextAttempt]
  /\ intents' = Append(intents, [trial |-> NextAttempt.trial, retry |-> NextAttempt.retry])
  /\ Moves(p, "intended")
  /\ UNCHANGED <<manifest, results, receipts, tail, ledger, lock, faults, foreign, sent, billed>>

Completes(p) ==
  /\ pc[p] = "ready" /\ MayGoOn /\ ~RetryDue /\ AllSent
  /\ Stops(p)
  /\ UNCHANGED <<disk, ledger, here, faults, foreign, sent, billed>>

StopsForReview(p) ==
  /\ pc[p] = "ready"
  /\ ~MayGoOn \/ ((RetryDue \/ ~AllSent) /\ ~MayBegin)
  /\ Stops(p)
  /\ UNCHANGED <<disk, ledger, here, faults, foreign, sent, billed>>

-----------------------------------------------------------------------------
(* OpenAIRunBudget.create with the frozen ceilings of the session. *)

WithinCeilings ==
  /\ ledger.usd + Reservation <= LedgerCap
  /\ ledger.usd + Reservation <= Start.usd + Increment
  /\ ledger.requests < Start.requests + MaxAttempts

Reserved == [ledger EXCEPT !.usd = @ + Reservation, !.requests = @ + 1, !.unsettled = @ + 1]

Reserve(p) ==
  /\ pc[p] = "intended" /\ WithinCeilings
  /\ ledger' = Reserved /\ Moves(p, "reserved")
  /\ UNCHANGED <<disk, lock, here, faults, foreign, sent, billed>>

\* A rejected reservation leaves the intent unresolved.
Rejected(p) ==
  /\ pc[p] = "intended" /\ ~WithinCeilings
  /\ Stops(p)
  /\ UNCHANGED <<disk, ledger, here, faults, foreign, sent, billed>>

\* The ledger could not be written, or was written although its writer was told
\* that it failed.  This error is no budget error: the executor takes it for a
\* failed transport.
ReserveFails(p) ==
  /\ pc[p] = "intended" /\ WithinCeilings /\ faults < MaxFaults
  /\ faults' = faults + 1
  /\ ledger' \in {ledger, Reserved} /\ Moves(p, "transport failed")
  /\ UNCHANGED <<disk, lock, here, foreign, sent, billed>>

\* The provider may have processed a request whose answer never came.
Send(p) ==
  /\ pc[p] = "reserved"
  /\ sent' = Append(sent, [ordinal |-> Len(intents), trial |-> here[p].trial, retry |-> here[p].retry])
  /\ \E u \in Usages, v \in BOOLEAN, answered \in BOOLEAN :
       /\ billed' = billed + Charge(u)
       /\ here' = [here EXCEPT ![p].usage = u, ![p].valid = v]
       /\ Moves(p, IF answered THEN "answered" ELSE "transport failed")
  /\ UNCHANGED <<disk, ledger, lock, faults, foreign>>

SettledTo(u) == [ledger EXCEPT !.usd = @ - Reservation + Charge(u), !.unsettled = @ - 1]

\* Strict mode: an answer without cache details, above the estimate or without
\* usage is an error although it has been settled as far as possible.
Settle(p) ==
  /\ pc[p] = "answered"
  /\ ledger' = IF here[p].usage = "none" THEN ledger ELSE SettledTo(here[p].usage)
  /\ Moves(p, IF here[p].usage = "full" THEN "settled" ELSE "budget error")
  /\ UNCHANGED <<disk, lock, here, faults, foreign, sent, billed>>

SettleFails(p) ==
  /\ pc[p] = "answered" /\ here[p].usage # "none" /\ faults < MaxFaults
  /\ faults' = faults + 1
  /\ ledger' \in {ledger, SettledTo(here[p].usage)} /\ Moves(p, "budget error")
  /\ UNCHANGED <<disk, lock, here, foreign, sent, billed>>

-----------------------------------------------------------------------------
(* _dispatch after the budget: keep the response, finish, verify. *)

KeepResponse(p) ==
  /\ pc[p] \in {"settled", "budget error"} /\ Len(intents) \notin receipts
  /\ receipts' = receipts \cup {Len(intents)}
  /\ UNCHANGED <<manifest, intents, results, tail, ledger, lock, pc, here, faults, foreign, sent, billed>>

MayFinish(p) ==
  \/ pc[p] = "transport failed"
  \/ pc[p] \in {"settled", "budget error"} /\ Len(intents) \in receipts

ResultKind(p) == CASE pc[p] = "settled" -> "provider_response"
                   [] pc[p] = "budget error" -> "budget_error"
                   [] OTHER -> "transport_error"

\* Variant: the reservation is written down as the charge.
UsageChargeReserved(p) ==
  <<Reservation, IF pc[p] = "transport failed" \/ here[p].usage = "none" THEN 1 ELSE 0>>
\* _usage_charge: what the result says the ledger was charged, and whether it is open.
UsageCharge(p) ==
  IF pc[p] = "transport failed" \/ here[p].usage = "none" THEN <<Reservation, 1>>
  ELSE <<Charge(here[p].usage), 0>>

\* finish: the result belongs to the last intent, or the order of the journal changed.
Finish(p) ==
  /\ MayFinish(p)
  /\ IF Len(intents) = Len(results) + 1
     THEN /\ results' = Append(results,
               [trial |-> here[p].trial, retry |-> here[p].retry, kind |-> ResultKind(p),
                valid |-> here[p].valid /\ pc[p] = "settled",
                charge |-> UsageCharge(p)[1], unsettled |-> UsageCharge(p)[2]])
          /\ Moves(p, "finished") /\ lock' = lock
     ELSE results' = results /\ Stops(p)
  /\ UNCHANGED <<manifest, intents, receipts, tail, ledger, here, faults, foreign, sent, billed>>

\* After a valid call the loop goes on if the files still agree; after an error
\* the process ends in any case.
AfterAttempt(p) ==
  /\ pc[p] = "finished"
  /\ IF Verified /\ Last(results).kind = "provider_response"
     THEN Moves(p, "ready") /\ lock' = lock ELSE Stops(p)
  /\ UNCHANGED <<disk, ledger, here, faults, foreign, sent, billed>>

-----------------------------------------------------------------------------
(* A process may die anywhere, also in the middle of a row or a manifest. *)

Writing(p) == CASE pc[p] = "ready" -> {"intents"}
                [] pc[p] \in {"settled", "budget error", "transport failed"} -> {"results"}
                [] pc[p] = "opening" /\ manifest = {} -> {"manifest"}
                [] OTHER -> {}

Dies(p) ==
  /\ pc[p] # "down" /\ faults < MaxFaults
  /\ faults' = faults + 1 /\ Stops(p)
  /\ tail' \in {tail, Writing(p)}
  /\ UNCHANGED <<manifest, intents, results, receipts, ledger, here, foreign, sent, billed>>

\* Another run reserves, and settles or not, on the same ledger.
Foreign ==
  /\ foreign < MaxForeign /\ foreign' = foreign + 1
  /\ ledger.usd + Reservation <= LedgerCap
  /\ ledger' \in {Reserved, [ledger EXCEPT !.usd = @ + 1, !.requests = @ + 1]}
  /\ UNCHANGED <<disk, lock, pc, here, faults, sent, billed>>

Work(p) ==
  \/ TakeLock(p) \/ WriteManifest(p) \/ Resume(p) \/ OpenRefused(p)
  \/ Begin(p) \/ Completes(p) \/ StopsForReview(p)
  \/ Reserve(p) \/ Rejected(p) \/ Send(p) \/ Settle(p)
  \/ KeepResponse(p) \/ Finish(p) \/ AfterAttempt(p)

Next == Foreign \/ \E p \in Procs : Work(p) \/ ReserveFails(p) \/ SettleFails(p) \/ Dies(p)

\* Somebody starts the session again as long as it is not complete, and a
\* process that runs goes on.
Spec == Init /\ [][Next]_vars /\ \A p \in Procs : WF_vars(Work(p))

-----------------------------------------------------------------------------
(* Properties. *)

\* Whatever dies and is started again, no request of the list is sent twice:
\* each trial once, its retry once, in the order of the list.
SentOnce ==
  /\ \A i, j \in DOMAIN sent : i < j =>
       /\ sent[i].ordinal < sent[j].ordinal
       /\ <<sent[i].trial, sent[i].retry>> # <<sent[j].trial, sent[j].retry>>
       /\ sent[i].trial <= sent[j].trial
  /\ Retries(sent) <= MaxRetries

\* An earlier request whose outcome is not known, or not settled, is the last
\* one the session sends: a later process never goes past it.
StopsAtDoubt ==
  [][sent' # sent =>
       /\ \A i \in DOMAIN sent : sent[i].ordinal \in DOMAIN results
       /\ \A i \in DOMAIN results : results[i].kind = "provider_response" /\ results[i].unsettled = 0]_vars

\* The bill of the session is covered by what it reserved, up to one answer
\* above the estimate (after which nothing is sent), and the responses that
\* were paid for are on disk before the attempt is closed.
PaidIsKept ==
  /\ billed <= Reservation * Len(intents) + 1
  /\ \A i \in DOMAIN results : results[i].kind # "transport_error" => i \in receipts

\* The experiment is paid for once, its evidence is whole and it stops at doubt,
\* however often it was killed and started again.
NothingIsLostOrRepeated == [](SentOnce /\ PaidIsKept) /\ StopsAtDoubt

Disturbed == foreign > 0 \/ \E i \in DOMAIN results : results[i].kind # "provider_response"
Complete == AllSent /\ ~RetryDue /\ Len(intents) = Len(results)

\* A session that only dies between attempts is resumed and completed: the two
\* journals and the ledger are brought to the same sums by different code, and
\* agree.
EventuallyComplete ==
  <>[](Complete \/ Disturbed \/ tail # {} \/ (Len(intents) # Len(results)))
=============================================================================
