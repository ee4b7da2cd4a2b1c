------------------------------- MODULE PodGame -------------------------------
(***************************************************************************)
(* One paid four-seat game, from the launcher's first check to the result  *)
(* it prints (scripts/run_two_luna_binding_game.py and the harness it      *)
(* runs, commander_gym/two_luna_debug.py).  The launcher compares the      *)
(* shared ledger with what its controller saw, starts the sidecar and the  *)
(* game server, and runs the harness; the harness polls the native game,   *)
(* gives up on silence, then waits for the provider's attempts to reach    *)
(* policy.jsonl, keeps the terminal replay and reports what the ledger     *)
(* says the game cost.  The services are killed last.                      *)
(*                                                                         *)
(* The ledger counts requests and the unsettled ones among them; an        *)
(* attempt is asked (reserved), answered (settled) or lost (left           *)
(* unsettled), and then written as a row.                                  *)
(***************************************************************************)
EXTENDS Integers, FiniteSets

CONSTANTS
  Games,        \* the games of the batch, numbered from 1
  MaxRequests,  \* the request limit once the batch has raised it
  MaxStrangers, \* bound: requests of other runs on the same ledger
  MaxFaults     \* bound: lost answers, second tries, deaths, signals

ASSUME PodAssumption ==
  /\ Games = 1..Cardinality(Games) /\ MaxRequests \in Nat
  /\ MaxStrangers \in Nat /\ MaxFaults \in Nat

VARIABLES
  budget,     \* the shared budget: [requests, unsettled, limit, cap]
  game,       \* per game: its launcher, services, native game and artifacts
  strangers, faults

podVars == <<budget, game, strangers, faults>>

None == [requests |-> -1, unsettled |-> -1]
Snapshot == [requests |-> budget.requests, unsettled |-> budget.unsettled]

NoResult == [completed |-> FALSE, recorded |-> -1, spent |-> -1, total |-> -1,
             unsettled |-> -1, clean |-> FALSE, finalized |-> FALSE, terminal |-> FALSE]
NoGame ==
  [at |-> "none", expected |-> None, base |-> None, services |-> FALSE,
   native |-> "none", attempt |-> "none", rows |-> 0, made |-> 0, clean |-> TRUE,
   result |-> NoResult, printed |-> FALSE]

\* Any process of the game's group is alive.
Alive(g) == game[g].services \/ game[g].at \notin {"none", "exited", "dead"}

PodInit ==
  /\ budget = [requests |-> 0, unsettled |-> 0, limit |-> "old", cap |-> "old"]
  /\ game = [g \in Games |-> NoGame] /\ strangers = 0 /\ faults = 0

At(g, place) == game[g].at = place
Goes(g, place) == game' = [game EXCEPT ![g].at = place]
Fault == faults < MaxFaults /\ faults' = faults + 1

-----------------------------------------------------------------------------
(* The launcher brings the services up. *)

\* checked_existing_budget: the ledger is the one the controller committed to.
Checks(g) ==
  /\ At(g, "checking")
  /\ IF Snapshot = game[g].expected THEN Goes(g, "starting") ELSE Goes(g, "exited")
  /\ UNCHANGED <<budget, strangers, faults>>

\* await_ready, twice: both services answer, or the launcher tears down.  run: the
\* harness reads the ledger and only then creates the pod.
Starts(g) ==
  /\ At(g, "starting")
  /\ \/ game' = [game EXCEPT ![g].services = TRUE, ![g].at = "polling",
                              ![g].base = Snapshot, ![g].native = "playing"]
     \/ game' = [game EXCEPT ![g].services = TRUE, ![g].at = "teardown"]
  /\ UNCHANGED <<budget, strangers, faults>>

-----------------------------------------------------------------------------
(* The game, as the services play it. *)

Playing(g) == game[g].services /\ game[g].native = "playing"

\* A seat asks the provider; at the limit the call fails and its update is dropped.
Asks(g) ==
  /\ Playing(g) /\ game[g].attempt = "none"
  /\ IF budget.requests < MaxRequests
     THEN /\ budget' = [budget EXCEPT !.requests = @ + 1, !.unsettled = @ + 1]
          /\ game' = [game EXCEPT ![g].attempt = "asked", ![g].made = @ + 1]
     ELSE /\ game' = [game EXCEPT ![g].native = "stuck"]
          /\ UNCHANGED budget
  /\ UNCHANGED <<strangers, faults>>

\* The answer is a choice; or it is lost, or no choice and asked for again.
Answers(g) ==
  /\ game[g].services /\ game[g].attempt = "asked"
  /\ \/ /\ budget' = [budget EXCEPT !.unsettled = @ - 1]
        /\ game' = [game EXCEPT ![g].attempt = "answered"]
        /\ UNCHANGED faults
     \/ /\ Fault
        /\ \E settled \in {0, 1} : budget' = [budget EXCEPT !.unsettled = @ - settled]
        /\ game' = [game EXCEPT ![g].attempt = "answered", ![g].clean = FALSE]
  /\ UNCHANGED strangers

\* The row is written; after a lost answer the callback may have failed for good.
Writes(g) ==
  /\ game[g].services /\ game[g].attempt = "answered"
  /\ \E end \in {game[g].native} \cup
               (IF Playing(g) /\ ~game[g].clean THEN {"stuck"} ELSE {}) :
       game' = [game EXCEPT ![g].attempt = "none", ![g].rows = @ + 1, ![g].native = end]
  /\ UNCHANGED <<budget, strangers, faults>>

\* The tournament completes, with a played game or without one; a request may be out.
\* (An end that nobody polls for any more is of no consequence, and is left out.)
Ends(g) ==
  /\ Playing(g) /\ At(g, "polling")
  /\ \E end \in {"over", "bare"} : game' = [game EXCEPT ![g].native = end]
  /\ UNCHANGED <<budget, strangers, faults>>

-----------------------------------------------------------------------------
(* The harness watches it and reports. *)

\* The loop of run: completion, a fatal line in the server's log, no progress for
\* stall_seconds, or the emergency ceiling.
Polls(g) ==
  /\ At(g, "polling")
  /\ game' = [game EXCEPT ![g].at = "finalizing",
                          ![g].result.completed = game[g].native = "over"]
  /\ UNCHANGED <<budget, strangers, faults>>

\* _avoidable_strategic_wakes, _skill_review_flags: a row may show that nobody need have
\* been asked, or a choice worth a look, however well the game went.
Flags(g) == IF game[g].rows > 0 THEN BOOLEAN ELSE {FALSE}

\* _summarize: what the rows and the server's log say of the game.
Summarized(g, flagged, finalized) ==
  [game EXCEPT ![g].at = "reporting", ![g].result.recorded = game[g].rows,
               ![g].result.clean = game[g].clean /\ ~flagged, ![g].result.finalized = finalized]

\* Variant: no deadline while attempts are missing from policy.jsonl.
FinalizesWhenComplete(g) ==
  /\ At(g, "finalizing")
  /\ game[g].rows >= budget.requests - game[g].base.requests
  /\ \E flagged \in Flags(g) : game' = Summarized(g, flagged, TRUE)
  /\ UNCHANGED <<budget, strangers, faults>>
\* _finalize_provenance: until every attempt reserved since the start has a row, or 15 s.
Finalizes(g) ==
  /\ At(g, "finalizing")
  /\ \E flagged \in Flags(g) :
       game' = Summarized(g, flagged, game[g].rows >= budget.requests - game[g].base.requests)
  /\ UNCHANGED <<budget, strangers, faults>>

\* The terminal replay is asked for only when the tournament is complete; it may
\* not come.  The ledger is read once more, and the result is printed.
Reports(g) ==
  /\ At(g, "reporting")
  /\ \E kept \in (IF game[g].result.completed THEN BOOLEAN ELSE {FALSE}) :
       game' = [game EXCEPT
         ![g].at = "teardown", ![g].printed = TRUE, ![g].result.terminal = kept,
         ![g].result.spent = budget.requests - game[g].base.requests,
         ![g].result.total = budget.requests, ![g].result.unsettled = budget.unsettled]
  /\ UNCHANGED <<budget, strangers, faults>>

\* The services are stopped; an answer still on its way is never settled.
TearsDown(g) ==
  /\ At(g, "teardown")
  /\ game' = [game EXCEPT ![g].at = "exited", ![g].services = FALSE]
  /\ UNCHANGED <<budget, strangers, faults>>

\* The server cannot be read, or shows another game than the one asked for.
Fails(g) ==
  /\ At(g, "polling") /\ Goes(g, "teardown")
  /\ UNCHANGED <<budget, strangers, faults>>

\* technicalQualified: the exit code of the harness and of its launcher.
Qualifies(g) ==
  LET r == game[g].result
  IN  game[g].printed /\ r.completed /\ r.finalized /\ r.terminal /\ r.clean
      /\ r.recorded > 0

LauncherDies(g) ==
  /\ game[g].at \notin {"none", "exited", "dead"} /\ Fault
  /\ Goes(g, "dead") /\ UNCHANGED <<budget, strangers>>

\* Another run spends from the same ledger; its answer may be lost.
Stranger ==
  /\ strangers < MaxStrangers /\ strangers' = strangers + 1
  /\ budget.requests < MaxRequests
  /\ \E lost \in {0, 1} :
       budget' = [budget EXCEPT !.requests = @ + 1, !.unsettled = @ + lost]
  /\ UNCHANGED <<game, faults>>

Launcher(g) ==
  \/ Checks(g) \/ Starts(g) \/ Polls(g) \/ Finalizes(g)
  \/ Reports(g) \/ Fails(g) \/ TearsDown(g)
Services(g) == Asks(g) \/ Answers(g) \/ Writes(g) \/ Ends(g)
=============================================================================
