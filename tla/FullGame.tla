------------------------------- MODULE FullGame -------------------------------
(***************************************************************************)
(* One process that plays games on a remote engine, in one of three ways:  *)
(* "full", the full-game runner, one game after another                    *)
(* (commander_gym/full_game.py), of seats given or planned from bindings   *)
(* (binding_session.py); "session", the bounded four-seat session          *)
(* (pilot_session.py), or "partial", if not every seat has to act in it;   *)
(* "direct", the proof of one mutation (remote_proof.py).  All go through  *)
(* the orchestrator, the client and the gateway (ArgentumLink), the games  *)
(* and sessions through execute_pilot_choice.                              *)
(* The engine is external: it holds environments by id, may restart, with  *)
(* another build, and then has none.                                       *)
(***************************************************************************)
EXTENDS ArgentumLink, Naturals, Sequences

CONSTANTS
  Seats,
  Bindings,     \* binding id -> what it resolves to: {} or {[name, format, deck]}
  Setups,       \* the runs considered: [mode, client]
  Games,        \* games of one invocation of the full runner
  MaxChoices,   \* choices of one game
  LoopLimit,    \* equal states with equal choices that are taken for a loop
  MaxFaults     \* bound: failed requests and restarts

ASSUME FullGameAssumption ==
  /\ IsFiniteSet(Seats) /\ Seats # {}
  /\ Setups \subseteq [mode : {"full", "binding", "session", "partial", "direct"}, client : [scheme : STRING, host : STRING, token : STRING]]
  /\ \A s \in Setups : ClientMay(s.client)
  /\ Games \in Nat \ {0} /\ MaxChoices \in Nat /\ MaxChoices >= Cardinality(Seats)
  /\ LoopLimit \in Nat \ {0, 1} /\ MaxFaults \in Nat

VARIABLES
  setup,        \* [mode, client], for good
  build, envs,  \* engine: its build, and env -> [toAct, over, digest]
  played,       \* history: the moves applied in this game's environment
  game, stage,  \* the runner: which game, and the stage it is in
  env,          \* {} or {env}: the id the reply to create gave
  inspected,    \* the builds its inspections saw, in order
  seen,         \* the last observation: {} or {[toAct, over, digest]}
  choices,      \* decision index
  decisions,    \* records: [seat, digest] in order
  looped,       \* <<last [digest, seat], how often>>
  failures,     \* [stage, domain, qualification] in order
  qualification, disposed, healthy,
  results,      \* the artifacts written: [status, qualification]
  faults

engine == <<build, envs, played>>
control == <<game, setup, results>>
outcome == <<qualification, disposed, healthy>>
runnerVars == <<setup, build, envs, played, game, stage, env, inspected, seen, choices, decisions,
          looped, failures, qualification, disposed, healthy, results, faults>>

Ids == 1..Games

mode == setup.mode
client == setup.client
FullRunner == mode \in {"full", "binding"}
LastGame == IF mode = "full" THEN Games ELSE 1
Fresh ==
  /\ env' = {} /\ inspected' = <<>> /\ seen' = {} /\ choices' = 0 /\ decisions' = <<>>
  /\ looped' = <<>> /\ failures' = <<>>
  /\ qualification' = "technical_censored" /\ disposed' = FALSE /\ healthy' = FALSE


RunnerInit ==
  /\ setup \in Setups /\ build = 1 /\ envs = <<>> /\ played = <<>>
  /\ game = 1 /\ stage = IF mode = "binding" THEN "plan" ELSE "inspect"
  /\ env = {} /\ inspected = <<>> /\ seen = {}
  /\ choices = 0 /\ decisions = <<>> /\ looped = <<>> /\ failures = <<>>
  /\ qualification = "technical_censored" /\ disposed = FALSE /\ healthy = FALSE
  /\ results = <<>> /\ faults = 0

Env == CHOOSE e \in env : TRUE
Seen == CHOOSE o \in seen : TRUE
Known == env # {} /\ Env \in DOMAIN envs
Choice == [seat |-> Seen.toAct, digest |-> Seen.digest]   \* made on what was seen

-----------------------------------------------------------------------------
(* Failures: what the exception is, and what _failure makes of it.  The    *)
(* kinds: those of ArgentumLink ("unknown", "connection", "remote",        *)
(* "garbled", "broken"), "incompatible" (the orchestrator's checks), "session" (a    *)
(* check of the runner), "model", "contract", "record".                    *)

EngineStages == {"inspect", "create", "observe", "seat_observe", "dispose", "postflight"}
Domain(kind, at) ==
  CASE kind = "model" -> "model"
    [] kind \in {"contract", "record"} -> "pilot"
    [] kind \in {"unknown", "connection", "garbled"} -> "transport"
    [] kind \in {"remote", "incompatible"} -> "engine"
    [] OTHER -> IF at = "pilot" THEN "pilot"
                ELSE IF at \in EngineStages THEN "engine" ELSE "orchestration"

Classified(kind) ==
  CASE kind = "record" -> "unsupported_decision"
    [] kind \in {"model", "contract"} -> "pilot_failure"
    [] kind \in {"remote", "incompatible"} -> "engine_failure"
    [] OTHER -> "technical_censored"

QualificationOf(kind, at) == IF at = "pilot" THEN "pilot_failure" ELSE Classified(kind)

Failure(kind, at) ==
  [stage |-> at, domain |-> Domain(kind, at), qualification |-> QualificationOf(kind, at)]

\* The except and finally clauses: dispose of what is known, then look again; only
\* the full runner looks again after a failure.
AfterGame == IF env # {} THEN "dispose" ELSE IF FullRunner /\ inspected # <<>> THEN "postflight" ELSE "write"
Fails(kind, at) ==
  /\ failures' = Append(failures, Failure(kind, at))
  /\ qualification' = QualificationOf(kind, at)
  /\ stage' = AfterGame

Fault == faults < MaxFaults /\ faults' = faults + 1
Kinds(r) == {o.kind : o \in Raises(r, client)}
LookKinds == {"incompatible"} \cup UNION {Kinds(r) : r \in Looks}
Answered == \A r \in Looks : "ok" \in {o.kind : o \in Outcomes(r, client)}

-----------------------------------------------------------------------------
(* build_binding_launch_plan: every seat's deck and pilot from one binding,  *)
(* and no two players of a name; or nothing is asked of the engine.         *)

Fits(b) == b.deck = "prebuilt" \/ (b.format = "commander" /\ b.deck = "cards with the commander")
LaunchPlan(ids) ==
  LET resolved == [i \in Seats |-> Bindings[ids[i]]] IN
  IF /\ \A i \in Seats : resolved[i] # {} /\ \A b \in resolved[i] : Fits(b)
     /\ \A i, j \in Seats : i # j => \A b \in resolved[i], c \in resolved[j] : b.name # c.name
  THEN {[i \in Seats |-> ids[i]]} ELSE {}

Plan ==
  /\ stage = "plan"
  /\ \E ids \in [Seats -> DOMAIN Bindings] :
       IF LaunchPlan(ids) # {} THEN stage' = "inspect" /\ UNCHANGED <<failures, qualification>>
       ELSE Fails("session", "plan")
  /\ UNCHANGED <<control, engine, env, inspected, seen, choices, decisions, looped, disposed, healthy, faults>>

-----------------------------------------------------------------------------
(* inspect, (the direct proof lists,) create, the first observation *)

Inspect ==
  /\ stage = "inspect"
  /\ \/ /\ Answered /\ inspected' = Append(inspected, build)
        /\ stage' = (IF mode = "direct" THEN "before" ELSE "create")
        /\ UNCHANGED <<failures, qualification, faults>>
     \/ /\ IF Answered THEN Fault ELSE faults' = faults
        /\ \E kind \in LookKinds : Fails(kind, "inspect") /\ inspected' = inspected
  /\ UNCHANGED <<control, engine, env, seen, choices, decisions, looped, disposed, healthy>>

ListBefore ==
  /\ stage = "before"
  /\ \/ stage' = "create" /\ UNCHANGED <<failures, qualification, faults>>
     \/ Fault /\ \E kind \in Kinds(ListEnvs) : Fails(kind, "before")
  /\ UNCHANGED <<control, engine, env, inspected, seen, choices, decisions, looped, disposed, healthy>>

NewEnv(e) ==
  /\ \E s \in Seats : envs' = [x \in DOMAIN envs \cup {e} |->
                                IF x = e THEN [toAct |-> s, over |-> FALSE, digest |-> 0] ELSE envs[x]]
  /\ UNCHANGED <<build, played>>

Create ==
  /\ stage = "create"
  /\ NewEnv(game) /\ env' = {game} /\ stage' = "observe"
  /\ UNCHANGED <<control, inspected, seen, choices, decisions, looped, failures, outcome, faults>>

\* The full runner has another seed than its configuration, and asks for nothing;
\* or what was created is not named in the reply.
Rejected ==
  {[kind |-> "incompatible", applied |-> TRUE]}
  \cup (IF FullRunner THEN {[kind |-> "session", applied |-> FALSE]} ELSE {})

\* The id of an environment whose creation was not answered stays unknown.
CreateFails ==
  /\ stage = "create" /\ Fault
  /\ \E o \in Raises(CreateEnv, client) \cup Rejected :
       /\ IF o.applied THEN NewEnv(game) ELSE UNCHANGED engine
       /\ Fails(o.kind, "create")
  /\ UNCHANGED <<control, env, inspected, seen, choices, decisions, looped, disposed, healthy>>

Observe ==
  /\ stage = "observe" /\ Known
  /\ seen' = {envs[Env]} /\ stage' = IF mode = "direct" THEN "pilot" ELSE "loop"
  /\ UNCHANGED <<control, engine, env, inspected, choices, decisions, looped, failures, outcome, faults>>

-----------------------------------------------------------------------------
(* One turn of the loop: end, limit, or the projected observation of the    *)
(* acting seat (a session uses the one it has, and one that is to be whole  *)
(* ends well only when every seat has acted).                                                   *)

\* Variant: only the end of the game ends the loop.
LoopEndsAtTheEnd ==
  /\ stage = "loop" /\ Seen.over /\ qualification' = "valid_complete" /\ stage' = "dispose"
  /\ UNCHANGED <<control, engine, env, inspected, seen, choices, decisions, looped, failures, disposed, healthy, faults>>
Acted == {decisions[i].seat : i \in DOMAIN decisions}
LoopEnds ==
  /\ stage = "loop" /\ (Seen.over \/ choices = MaxChoices)
  /\ IF mode = "session" /\ Acted # Seats THEN Fails("session", "loop")
     ELSE /\ qualification' = IF Seen.over THEN "valid_complete" ELSE "technical_censored"
          /\ stage' = "dispose" /\ failures' = failures
  /\ UNCHANGED <<control, engine, env, inspected, seen, choices, decisions, looped, disposed, healthy, faults>>

SeatObserve ==
  /\ stage = "loop" /\ FullRunner /\ ~Seen.over /\ choices < MaxChoices
  /\ Known /\ envs[Env] = Seen
  /\ stage' = "pilot"
  /\ UNCHANGED <<control, engine, env, inspected, seen, choices, decisions, looped, failures, outcome, faults>>

\* The session's pilot is given what the session has seen; a seat it has no pilot for
\* ends it.
SessionTurn ==
  /\ stage = "loop" /\ mode \in {"session", "partial"} /\ ~Seen.over /\ choices < MaxChoices
  /\ \/ stage' = "pilot" /\ UNCHANGED <<failures, qualification, faults>>
     \/ Fault /\ Fails("session", "loop")
  /\ UNCHANGED <<control, engine, env, inspected, seen, choices, decisions, looped, disposed, healthy>>

\* The players of the first observation are not the four seats.
RosterFails ==
  /\ stage = "observe" /\ mode # "direct" /\ Known /\ Fault /\ Fails("session", "observe")
  /\ UNCHANGED <<control, engine, env, inspected, seen, choices, decisions, looped, disposed, healthy>>

\* Reads fail on the way, because the environment is gone, or because what comes
\* back is not an observation for this seat.
ReadFails ==
  /\ \/ stage \in {"observe", "reobserve"}
     \/ stage = "loop" /\ FullRunner /\ ~Seen.over /\ choices < MaxChoices
  /\ LET at == IF stage = "loop" THEN "seat_observe" ELSE "observe"
         r == IF stage = "loop" THEN ObserveSeat ELSE ObserveEnv IN
     IF Known THEN Fault /\ \E kind \in Kinds(r) \cup (IF stage = "loop" THEN {"session"} ELSE {}) : Fails(kind, at)
     ELSE Fails("remote", at) /\ faults' = faults
  /\ UNCHANGED <<control, engine, env, inspected, seen, choices, decisions, looped, disposed, healthy>>

-----------------------------------------------------------------------------
(* execute_pilot_choice: the pilot, then one submission, never repeated. *)

PilotFails ==
  /\ stage = "pilot" /\ mode # "direct" /\ \E kind \in {"model", "contract"} : Fails(kind, "pilot")
  /\ UNCHANGED <<control, engine, env, inspected, seen, choices, decisions, looped, disposed, healthy, faults>>

Applied ==
  \E s \in Seats, over \in BOOLEAN, same \in BOOLEAN :
    LET move == [seat |-> envs[Env].toAct, digest |-> envs[Env].digest] IN
    /\ envs' = [envs EXCEPT ![Env] = [toAct |-> s, over |-> over, digest |-> @.digest + (IF same THEN 0 ELSE 1)]]
    /\ played' = Append(played, move)
    /\ build' = build

Submit ==
  /\ stage = "pilot" /\ mode # "direct" /\ Known
  /\ Applied /\ stage' = "record"
  /\ UNCHANGED <<control, env, inspected, seen, choices, decisions, looped, failures, outcome, faults>>

\* Variant: after an unanswered submission the game goes on from a new observation.
SubmitFailsReobserved ==
  /\ stage = "pilot" /\ Known /\ Fault /\ Applied /\ stage' = "observe"
  /\ UNCHANGED <<control, env, inspected, seen, choices, decisions, looped, failures, outcome>>
SubmitFails ==
  /\ stage = "pilot"
  /\ \/ Known /\ Fault /\ \E r \in {StepEnv, SubmitDecision} : \E o \in Raises(r, client) :
          (IF o.applied THEN Applied ELSE UNCHANGED engine) /\ Fails(o.kind, "pilot")
     \/ ~Known /\ UNCHANGED <<engine, faults>> /\ Fails("remote", "pilot")
  /\ UNCHANGED <<control, env, inspected, seen, choices, decisions, looped, disposed, healthy>>

-----------------------------------------------------------------------------
(* The direct proof: the one legal action (or the one asked for), submitted *)
(* once, and the environment read again.                                     *)

ChooseFails ==
  /\ stage = "pilot" /\ mode = "direct" /\ Fails("session", "pilot")
  /\ UNCHANGED <<control, engine, env, inspected, seen, choices, decisions, looped, disposed, healthy, faults>>

SubmitOne ==
  /\ stage = "pilot" /\ mode = "direct" /\ Known
  /\ Applied /\ stage' = "reobserve"
  /\ decisions' = Append(decisions, Choice)
  /\ UNCHANGED <<control, env, inspected, seen, choices, looped, failures, outcome, faults>>

Reobserve ==
  /\ stage = "reobserve" /\ Known
  /\ seen' = {envs[Env]} /\ stage' = "dispose"
  /\ UNCHANGED <<control, engine, env, inspected, choices, decisions, looped, failures, outcome, faults>>

-----------------------------------------------------------------------------
(* The record of the choice, and the check for a loop (full runner only): a *)
(* choice made again in an equal state.                                     *)

Looped(again) == IF again /\ looped # <<>> /\ looped[1] = Seen THEN <<Seen, looped[2] + 1>> ELSE <<Seen, 1>>

\* The submission returned the next observation.
RecordChoice ==
  /\ stage = "record"
  /\ decisions' = Append(decisions, Choice)
  /\ \E again \in BOOLEAN :
       /\ looped' = IF FullRunner THEN Looped(again) ELSE looped
       /\ IF FullRunner /\ Looped(again)[2] >= LoopLimit
          THEN Fails("session", "record") /\ UNCHANGED <<seen, choices>>
          ELSE /\ \E o \in IF Known THEN {envs[Env]} ELSE {[Seen EXCEPT !.over = b] : b \in BOOLEAN} : seen' = {o}
               /\ choices' = choices + 1 /\ stage' = "loop"
               /\ UNCHANGED <<failures, qualification>>
  /\ UNCHANGED <<control, engine, env, inspected, disposed, healthy, faults>>

RecordFails ==
  /\ stage = "record" /\ Fails("record", "record")
  /\ UNCHANGED <<control, engine, env, inspected, seen, choices, decisions, looped, disposed, healthy, faults>>

-----------------------------------------------------------------------------
(* finally: dispose and look whether it is gone; then whether the engine is *)
(* still the one the game began on.                                         *)

Without(e) == [x \in DOMAIN envs \ {e} |-> envs[x]]

Dispose ==
  /\ stage = "dispose" /\ stage' = "list"
  /\ \/ envs' = Without(Env) /\ faults' = faults
     \/ Fault /\ envs' = envs   \* answered, and still there
  /\ UNCHANGED <<control, build, played, env, inspected, seen, choices, decisions, looped, failures, outcome>>

CleanupFails(kind, at) ==
  /\ failures' = Append(failures, Failure(kind, at))
  /\ qualification' = "technical_censored"

\* After the clause, in the full runner or when all is well, the engine is looked at.
AfterCleanup(ok) == IF FullRunner \/ ok THEN "postflight" ELSE "write"

DisposeFails ==
  /\ stage = "dispose" /\ Fault
  /\ \E o \in Raises(DisposeEnvs, client) :
       /\ envs' = IF o.applied THEN Without(Env) ELSE envs
       /\ CleanupFails(o.kind, "dispose")
  /\ stage' = AfterCleanup(FALSE)
  /\ UNCHANGED <<control, build, played, env, inspected, seen, choices, decisions, looped, disposed, healthy>>

List ==
  /\ stage = "list"
  /\ \/ disposed' = ~Known /\ faults' = faults
        /\ IF Known THEN CleanupFails("session", "dispose") ELSE UNCHANGED <<failures, qualification>>
     \/ Fault /\ disposed' = disposed /\ \E kind \in Kinds(ListEnvs) : CleanupFails(kind, "dispose")
  /\ stage' = AfterCleanup(failures' = <<>>)
  /\ UNCHANGED <<control, engine, env, inspected, seen, choices, decisions, looped, healthy>>

SameIdentity == build = inspected[1]

Postflight ==
  /\ stage = "postflight" /\ stage' = "write"
  /\ \/ healthy' = SameIdentity /\ faults' = faults /\ inspected' = Append(inspected, build)
        /\ IF SameIdentity THEN UNCHANGED <<failures, qualification>>
           ELSE CleanupFails("session", "postflight")
     \/ Fault /\ healthy' = FALSE /\ inspected' = inspected /\ \E kind \in LookKinds : CleanupFails(kind, "postflight")
  /\ UNCHANGED <<control, engine, env, seen, choices, decisions, looped, disposed>>

Terminal == seen # {} /\ Seen.over
SessionStatus == IF Terminal THEN "completed" ELSE "stopped"
FullStatus ==
  IF qualification = "valid_complete" /\ disposed /\ healthy THEN "completed"
  ELSE IF failures # <<>> THEN "failed" ELSE "stopped"
Status ==
  IF FullRunner THEN FullStatus
  ELSE IF failures # <<>> THEN "raised"
  ELSE IF mode = "direct" THEN "proved" ELSE SessionStatus

\* The session and the proof raise what went wrong and write only what ended well;
\* so does the plan, before there is a game.
Artifact == [status |-> Status, qualification |-> qualification]
Planned == failures = <<>> \/ failures[1].stage # "plan"
IsWritten == Status # "raised" /\ Planned
Write ==
  /\ stage = "write"
  /\ results' = IF IsWritten THEN Append(results, Artifact) ELSE results
  /\ IF game < LastGame
     THEN game' = game + 1 /\ stage' = "inspect" /\ played' = <<>> /\ Fresh
     ELSE stage' = "done" /\ UNCHANGED <<game, played, env, inspected, seen, choices, decisions,
                                        looped, failures, outcome>>
  /\ UNCHANGED <<setup, build, envs, faults>>

-----------------------------------------------------------------------------

Restart ==
  /\ stage # "done" /\ Fault
  /\ envs' = <<>> /\ build' \in {build, build + 1}
  /\ UNCHANGED <<control, played, stage, env, inspected, seen, choices, decisions, looped, failures, outcome>>

Runner ==
  \/ Plan \/ Inspect \/ ListBefore \/ Create \/ CreateFails \/ Observe \/ ReadFails \/ LoopEnds \/ SeatObserve \/ SessionTurn \/ RosterFails
  \/ PilotFails \/ Submit \/ SubmitFails \/ ChooseFails \/ SubmitOne \/ Reobserve \/ RecordChoice \/ RecordFails
  \/ Dispose \/ DisposeFails \/ List \/ Postflight \/ Write
RunnerNext == Runner \/ Restart

\* The runner goes on as long as the engine answers at all, be it with an error.
RunnerSpec == RunnerInit /\ [][RunnerNext]_runnerVars /\ WF_runnerVars(Runner)

-----------------------------------------------------------------------------
(* Properties. *)

\* What is called completed, stopped or proved is whole: its records are the moves
\* the engine applied, all of them and in order, by the seats whose turn it was; its
\* environment is gone, and one engine was there from beginning to end.  What is
\* called completed ended; a session had every seat act; a proof is of one move.
ArtifactIsWhole ==
  stage = "write" /\ Status \in {"completed", "stopped", "proved"} =>
    /\ Status = "completed" => Terminal
    /\ failures = <<>> /\ env # {} /\ decisions = played /\ ~Known
    /\ Len(inspected) = 2 /\ inspected[1] = inspected[2]
    /\ mode = "session" => Acted = Seats
    /\ mode = "direct" => Len(played) = 1

\* An environment still on the engine when its game is over has been reported, and a
\* launch that could not be planned has asked the engine for nothing.
LeftIsReported ==
  stage = "write" => /\ game \in DOMAIN envs => failures # <<>> /\ Status \in {"failed", "raised"}
                     /\ ~Planned => envs = <<>> /\ inspected = <<>>

\* After a submission whose fate is unknown nothing more is submitted in that
\* game: no move is ever made on a state the runner has not seen.
NoMoveUnseen ==
  [][Len(played') > Len(played) =>
       Len(played) = Len(decisions) /\ seen = {envs[Env]} /\ failures = <<>>]_runnerVars

\* What the artifact of a game says of it is so, and no move is made unseen.
VerdictIsTrue == [](ArtifactIsWhole /\ LeftIsReported) /\ NoMoveUnseen

\* Every game of the invocation is brought to its end, those of the full runner to
\* an artifact each.
EveryGameEnds == <>(stage = "done" /\ (FullRunner /\ Planned => Len(results) = LastGame))
=============================================================================
