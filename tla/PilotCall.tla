------------------------------- MODULE PilotCall -------------------------------
(***************************************************************************)
(* One callback of a seat that is put to a model: the attempts of          *)
(* OpenAIResponsesPilot.choose and LMStudioPilot.choose, the child process *)
(* that bounds a request in time (bounded_provider_process,                *)
(* lmstudio_provider), the run budget in front of it, and the seat around  *)
(* it (GameServerSeatAdapter), which keeps a receipt of what was paid for. *)
(* Before the model comes the route of PilotRoute: a component without a   *)
(* model may answer, or defer to it.                                       *)
(*                                                                         *)
(* The pilots: "absent" is none, "plain" has no deadline of its own, "bounded" repeats       *)
(* transient server errors within the callback, "local" is the LM Studio   *)
(* pilot.  The clock counts units of five seconds; only waiting takes      *)
(* time.  An answer is one of those of NativeOffer, and only the verdict   *)
(* on it is kept.                                                          *)
(***************************************************************************)
EXTENDS NativeOffer, PilotRoute

CONSTANTS
  Confs,           \* the configurations to choose from
  CallbackLimit,   \* 110 s: the bounded pilot's own limit for a callback
  RequestLimit,    \* 90 s
  Margin,          \* 5 s: to return in
  MinRetry,        \* 10 s
  LocalLimit,      \* 100 s: the local pilot's deadline
  EngineLimit      \* 120 s: Argentum's policy deadline

ASSUME PilotCallAssumption ==
  /\ {CallbackLimit, RequestLimit, Margin, MinRetry, LocalLimit, EngineLimit} \subseteq Nat
  /\ LocalLimit + Margin <= CallbackLimit /\ CallbackLimit <= EngineLimit
  /\ \A c \in Confs : /\ c.pilot \in {"absent", "plain", "bounded", "local"}
                      /\ c.maxAttempts \in Nat \ {0} /\ c.funds \in Nat
                      /\ c.window \in Windows /\ c.flags \in Flags /\ WellFormed(c.offer)

VARIABLES
  conf,       \* [component, window, pilot, maxAttempts, funds, callback, flags, offer]
  pc,         \* where the callback is
  clock,
  until,      \* when the child process in flight is killed
  attempt,    \* index of the attempt
  validation, \* {} or {"error"}: the validation error the next request corrects
  attempts,   \* the model-I/O trace: the outcome of each attempt kept
  funds,      \* reservations the budget will still take
  engine,     \* "waits", or "gone" after its own deadline
  receipt,    \* what the seat recorded: <<>> or <<[outcome, attempts]>>
  sent        \* history: what became of each request that left the process

callVars == <<conf, pc, clock, until, attempt, validation, attempts, funds, engine, receipt, sent>>
call == <<conf, clock, engine, receipt>>

\* The provider components the sidecar resolves, and what each lets a model answer
\* beside a choice.
Providers == {"responses", "autopass", "wait2", "wait3", "compact", "guarded",
              "continuation", "recovery", "explicit"}
FlagsOf(provider) ==
  [delegation   |-> provider # "responses",
   named        |-> provider \notin {"responses", "autopass"},
   nonempty     |-> provider \notin {"responses", "autopass", "wait2"},
   continuation |-> provider \in {"continuation", "recovery", "explicit"}]

Bounded == conf.pilot = "bounded"
Local   == conf.pilot = "local"

CallInit ==
  /\ conf \in Confs
  /\ pc = "route" /\ clock = 0 /\ until = 0 /\ attempt = 0 /\ validation = {}
  /\ attempts = <<>> /\ funds = conf.funds /\ engine = "waits" /\ receipt = <<>> /\ sent = <<>>

Raise(trace) == pc' = "raised" /\ attempts' = trace
More == attempt + 1 < conf.maxAttempts
\* What is left of the time of this callback.
Remaining == IF Bounded THEN CallbackLimit - clock ELSE LocalLimit - clock

\* Variant: every request may take its full time.
DeadlineUnshared == clock + RequestLimit
Deadline == clock + (IF RequestLimit < Remaining - Margin THEN RequestLimit ELSE Remaining - Margin)
RoomToRetry == Remaining >= MinRetry + Margin

-----------------------------------------------------------------------------
(* ComposedPilot.choose: the deterministic component, then the provider; if *)
(* all defer, no choice is made up.                                         *)

Route ==
  /\ pc = "route"
  /\ pc' = IF Takes(conf.component, conf.window) # {} THEN "handled"
           ELSE IF conf.pilot = "absent" THEN "raised" ELSE "attempt"
  /\ UNCHANGED <<call, until, attempt, validation, attempts, funds, sent>>

-----------------------------------------------------------------------------
(* OpenAIResponsesPilot.choose *)

OutOfTime ==
  /\ ~Local /\ pc = "attempt" /\ Bounded /\ ~RoomToRetry
  /\ Raise(attempts)
  /\ UNCHANGED <<call, until, attempt, validation, funds, sent>>

\* A rejected reservation is no attempt: the earlier ones are still reported.
BudgetRefuses ==
  /\ ~Local /\ pc = "attempt" /\ (Bounded => RoomToRetry) /\ funds = 0
  /\ Raise(attempts)
  /\ UNCHANGED <<call, until, attempt, validation, funds, sent>>

Dispatch ==
  /\ ~Local /\ pc = "attempt" /\ (Bounded => RoomToRetry) /\ funds > 0
  /\ funds' = funds - 1 /\ sent' = Append(sent, "open") /\ pc' = "waiting"
  /\ until' = IF Bounded THEN Deadline ELSE until
  /\ UNCHANGED <<call, attempt, validation, attempts>>

Outcome(what) == sent' = [sent EXCEPT ![Len(sent)] = what]

\* The provider's answer came back and the budget settled it.
Answered(verdict) ==
  CASE verdict \in {"valid", "contract"} ->
         pc' = (IF verdict = "valid" THEN "chosen" ELSE "refused")
         /\ attempts' = Append(attempts, verdict) /\ UNCHANGED <<attempt, validation>>
    [] verdict = "invalid" ->
         /\ attempts' = Append(attempts, "invalid") /\ validation' = {"error"}
         /\ pc' = (IF More THEN "attempt" ELSE "exhausted")
         /\ attempt' = attempt + (IF More THEN 1 ELSE 0)
    [] OTHER -> pc' = "untyped" /\ UNCHANGED <<attempts, attempt, validation>>

Verdicts == {Verdict(conf.flags, conf.offer, a) : a \in Answers(conf.offer)}
\* The seat sees what the checks of the pilot and the contract let through.
SeatVerdicts ==
  {IF Verdict(conf.flags, conf.offer, a) = "valid" /\ ~SeatAccepts(conf.callback, conf.offer, a)
   THEN "unacceptable" ELSE Verdict(conf.flags, conf.offer, a) : a \in Answers(conf.offer)}

ProviderAnswers ==
  /\ ~Local /\ pc = "waiting"
  /\ \E v \in Verdicts : Outcome(v) /\ Answered(v)
  /\ UNCHANGED <<call, until, funds>>

\* The ledger cannot be settled: an attempt, but no choice.
SettlementFails ==
  /\ ~Local /\ pc = "waiting" /\ Outcome("budget")
  /\ Raise(Append(attempts, "budget"))
  /\ UNCHANGED <<call, until, attempt, validation, funds>>

\* Variant: the attempt is repeated without a trace.
FailedTraceLost(what) == attempts
FailedTrace(what) == Append(attempts, what)

\* A transient server error is repeated if there is another attempt and time for it.
ServerFails ==
  /\ ~Local /\ pc = "waiting"
  /\ \E what \in {"transient", "transport"} :
       /\ Outcome(what)
       /\ IF what = "transient" /\ Bounded /\ More /\ RoomToRetry
          THEN pc' = "attempt" /\ attempt' = attempt + 1 /\ attempts' = FailedTrace(what)
          ELSE Raise(FailedTrace(what)) /\ attempt' = attempt
  /\ UNCHANGED <<call, until, validation, funds>>

\* Variant: the timeout of the provider's library, which a trickling answer resets.
ChildKilledIdle ==
  /\ pc = "waiting" /\ Local /\ clock >= until
  /\ Raise(Append(attempts, "open"))
  /\ UNCHANGED <<call, until, attempt, validation, funds, sent>>
\* The child is killed and reaped: the request stays open at the provider.
ChildKilled ==
  /\ pc = "waiting" /\ conf.pilot # "plain" /\ clock >= until
  /\ Raise(Append(attempts, "open"))
  /\ UNCHANGED <<call, until, attempt, validation, funds, sent>>

Exhausted ==
  /\ pc = "exhausted" /\ validation # {}
  /\ Raise(attempts)
  /\ UNCHANGED <<call, until, attempt, validation, funds, sent>>

-----------------------------------------------------------------------------
(* LMStudioPilot.choose: one deadline over all of it, and before each        *)
(* request the loaded model is looked up.                                   *)

Cancelled == engine = "gone" \/ clock >= LocalLimit

LookUp ==
  /\ Local /\ pc = "attempt"
  /\ \/ ~Cancelled /\ pc' = "looking" /\ until' = LocalLimit /\ attempts' = attempts
     \/ Raise(attempts) /\ until' = until    \* prompt too long, or cancelled
  /\ UNCHANGED <<call, attempt, validation, funds, sent>>

LocalDispatch ==
  /\ pc = "looking" /\ ~Cancelled
  /\ sent' = Append(sent, "open") /\ pc' = "waiting"
  /\ UNCHANGED <<call, until, attempt, validation, attempts, funds>>

\* The attempt is kept before the time is looked at again: one whose call is
\* cancelled by then, or whose child does not start, is never sent.
LocalUnsent ==
  /\ pc = "looking" /\ ~Cancelled
  /\ Raise(Append(attempts, "unsent"))
  /\ UNCHANGED <<call, until, attempt, validation, funds, sent>>

LookUpFails ==
  /\ pc = "looking" /\ Raise(attempts)
  /\ UNCHANGED <<call, until, attempt, validation, funds, sent>>

\* A result that comes late or after a cancellation is discarded before it is read.
LocalAnswers ==
  /\ Local /\ pc = "waiting"
  /\ \E v \in Verdicts \ {"untyped"} :
       LET verdict == IF v = "contract" THEN "invalid" ELSE v IN
       /\ Outcome(verdict)
       /\ IF Cancelled THEN Raise(Append(attempts, verdict)) /\ UNCHANGED <<attempt, validation>>
          ELSE Answered(verdict)
  /\ UNCHANGED <<call, until, funds>>

\* The usage is malformed or above what was configured, or the request failed.
LocalFails ==
  /\ Local /\ pc = "waiting"
  /\ \E what \in {"transient", "transport", "budget"} :
       /\ Outcome(what)
       /\ IF what = "transient" /\ More
          THEN pc' = "attempt" /\ attempt' = attempt + 1 /\ attempts' = FailedTrace(what)
          ELSE Raise(FailedTrace(what)) /\ attempt' = attempt
  /\ UNCHANGED <<call, until, validation, funds>>

-----------------------------------------------------------------------------
(* The seat: _choose_with_failure_receipt and the callback around it. *)

Record(outcome) == receipt' = Append(receipt, [outcome |-> outcome, attempts |-> attempts])

SeatActs ==
  /\ pc = "handled" \/ (pc = "chosen" /\ "valid" \in SeatVerdicts)
  /\ pc' = "acted" /\ Record("choice")
  /\ UNCHANGED <<conf, clock, until, attempt, validation, attempts, funds, engine, sent>>

SeatRefuses ==
  /\ pc = "chosen" /\ "unacceptable" \in SeatVerdicts
  /\ pc' = "refused"
  /\ UNCHANGED <<call, until, attempt, validation, attempts, funds, sent>>

SeatReports ==
  /\ pc = "raised" /\ pc' = "failed"
  /\ IF attempts # <<>> THEN Record("error") ELSE receipt' = receipt
  /\ UNCHANGED <<conf, clock, until, attempt, validation, attempts, funds, engine, sent>>

-----------------------------------------------------------------------------
(* Time. *)

Waiting == pc \in {"waiting", "looking"}
Ended   == pc \in {"acted", "failed", "refused", "untyped"}

\* The child is killed before more time passes.
Tick ==
  /\ Waiting /\ clock <= EngineLimit
  /\ conf.pilot # "plain" => clock < until
  /\ clock' = clock + 1
  /\ UNCHANGED <<conf, pc, until, attempt, validation, attempts, funds, engine, receipt, sent>>

EngineLeaves ==
  /\ engine = "waits" /\ ~Ended /\ clock >= EngineLimit
  /\ engine' = "gone"
  /\ UNCHANGED <<conf, pc, clock, until, attempt, validation, attempts, funds, receipt, sent>>

\* The connection of the callback is closed, or the service stops.
Closes ==
  /\ engine = "waits" /\ Local /\ ~Ended
  /\ engine' = "gone"
  /\ UNCHANGED <<conf, pc, clock, until, attempt, validation, attempts, funds, receipt, sent>>

CancelSeen ==
  /\ Local /\ Waiting /\ engine = "gone"
  /\ Raise(IF pc = "waiting" THEN Append(attempts, "open") ELSE attempts)
  /\ UNCHANGED <<call, until, attempt, validation, funds, sent>>

Pilot ==
  \/ Route \/ OutOfTime \/ BudgetRefuses \/ Dispatch \/ ChildKilled \/ Exhausted
  \/ LookUp \/ LocalDispatch \/ LocalUnsent \/ LookUpFails \/ CancelSeen
  \/ SeatActs \/ SeatRefuses \/ SeatReports
World ==
  \/ ProviderAnswers \/ SettlementFails \/ ServerFails \/ LocalAnswers \/ LocalFails
  \/ EngineLeaves \/ Closes

CallNext == Pilot \/ World \/ Tick

\* The pilot's own steps are taken, and time passes.
CallSpec == CallInit /\ [][CallNext]_callVars /\ WF_callVars(Pilot) /\ WF_callVars(Tick)

-----------------------------------------------------------------------------
(* Properties. *)

Report == IF receipt = <<>> THEN <<>> ELSE receipt[1].attempts

\* Whatever was sent to a provider is in the one receipt of the callback, in
\* order and with what became of it, for a choice as for a pilot error; the
\* choice is the last attempt's.  Only the local pilot may report one attempt more,
\* the last, which was never sent.
PaidIsReported ==
  pc \in {"acted", "failed"} =>
    /\ Report = sent \/ (Local /\ pc = "failed" /\ Report = Append(sent, "unsent"))
    /\ Len(receipt) = (IF pc = "failed" /\ Report = <<>> THEN 0 ELSE 1)
    /\ pc = "acted" /\ sent # <<>> => Last(sent) = "valid"
    /\ Len(sent) <= conf.maxAttempts /\ (Local \/ Len(sent) <= conf.funds)

\* The bounded and the local pilot are back with time to spare before the engine
\* gives the callback up, however the time went over the attempts.
BackInTime == conf.pilot # "plain" => clock + Margin <= CallbackLimit

\* A bounded or local call ends, whatever the provider does, even if it never answers.
EveryCallEnds == <>(Ended \/ conf.pilot = "plain")

\* The format that goes with a request is fair to a model that keeps to it.
FormatsAreFair == pc = "attempt" => FormatIsFair(conf.flags, conf.offer)

\* A window is answered without a model only if there is nothing in it to decide:
\* nothing playable is passed over, the components agree, and nothing was spent.
RoutesAreForced ==
  pc = "handled" => RouteIsForced(conf.component, conf.window) /\ sent = <<>> /\ funds = conf.funds
=============================================================================
