# TLA+ models of commander-gym

commander-gym lets people play Commander games against model-driven seats on a private Argentum
server, records every game so that it can later serve as training evidence, pays model providers
under a hard budget, keeps catalogs of cards, bindings and evidence on disk, and replaces the
running release without hurting a game or a recording.  This directory models the parts of it
where order, failure and concurrency decide whether that is true, checks them with TLC on small
instances, and proves the central results with TLAPS for every value of the parameters.

Paths below are relative to `src/commander_gym/` unless they say otherwise.

- [1. The system](#1-the-system)
- [2. The modules](#2-the-modules)
- [3. How each module corresponds to the code](#3-how-each-module-corresponds-to-the-code)
- [4. The runs: bounds, fairness, results](#4-the-runs)
- [5. The proofs](#5-the-proofs)
- [6. Disagreements and limits found](#6-disagreements-and-limits-found)
- [7. What is not modelled, and why](#7-what-is-not-modelled-and-why)
- [8. Plan](#8-plan)

## 1. The system

```
            register, closed                   rows, receipts
 engine JVM ----------------> recorder process --------------> game journal (disk)
   |  ^  (Kotlin adapter)      ^   |  scanner, finalizer,              |
   |  | choice                 |   |  two bridge listeners             | sealed, published
   v  | HTTP     started,      |   |                                   v
 seat sidecar -----------------'   | drain metrics              canonical capture,
   |   |         finished          v                            evidence store
   |   |                       recording health --> lifecycle socket
   |   '--> live binding catalog <-- publisher                    ^
   v                                                              |
 delegated autopass, routes                       manual runtime rollout, QA transaction
   |                                              (root, lock, systemd)
   v
 provider pilot --> run budget (ledger on disk) --> model provider
                       ^          ^
 full game runner      |          |
 (gateway, engine)     |      paid batches: controllers --> launcher --> one game
                  cache probe session
```

### Components

| Component | State it keeps | Operations | What makes it hard | Correct when |
|---|---|---|---|---|
| **Game journal** (`game_journal.py`) | segments of hash-chained rows, raw evidence, terminal row and manifest on disk; counters, pending choices and the lock in each process | open/resume, append, raw evidence, finish, publish, close | a process dies or a write fails before, in the middle of or after the bytes become durable; two processes; the byte limit | what a writer believes is what a restart would read; one writer; history only grows; the terminal row always fits; "complete" is true |
| **Native game capture** (`native_game_capture.py`) | per game: journal, cursor, grace clock, finalizer; errors, verified games | scan, import, receipts, finalizer thread, stop, metrics | the engine writes while it is read; scanner, finalizers and listeners share two locks; crash in the middle of an import; restarts lose all memory | the journal has the engine's rows, each once, in order; sealed only when whole and over no choice in its grace; drained means published; every ended game is published in the end |
| **Recorder bridge** (`recorder_bridge.py`, `game_server_seat.py`, `game_server_sidecar.py`, Kotlin `RecorderCallbackClient`, `CommanderGymControllerProvider`) | receipts in the journal, listener backlogs, callbacks in flight at three processes | register, started, finished, closed; retries; expiry | lost, late and repeated messages; acknowledgments by another process than the one that wrote; death between row and answer; a seat's next callback overtaking its last | the engine acts only on recorded choices; the pilot sees one callback of a seat at a time; no receipt twice; a callback always ends |
| **Run budget** (`openai_run_budget.py`) | ledger: cap, limit, estimate, requests, unsettled | create (reserve, dispatch, settle), set limit, increase cap | several processes with their own idea of cap and limit; failure between replace and fsync; death between reserve and settle | the ledger covers what was charged, stays within cap and limit, counts exactly, is never begun anew |
| **Cache probe session** (`cache_probe_session.py`, `scripts/run_saved_cache_probe.py`) | manifest, intents, results, kept responses; the shared ledger | begin, attempt, retry, verify, resume | two journals and the ledger disagree after a death between any two writes; other runs spend from the same ledger | nothing is sent twice, doubt stops the session, what was paid for is kept |
| **Manual runtime rollout** (`manual_runtime_rollout.py`, `manual_runtime_host.py`, `runtime_release.py`, `runtime_install.py`) | selector, installed files, transaction, rollback banks, approvals; credential gate; systemd units; the server's lifecycle | update, rollback, timed admission, preflight | each step durable in another place and may fail or be the last one; lost resume reply; lingering processes; unit failures and reboots in between | only the selected, committed release admits games; nothing is replaced under a process, a game or a changing recording; attempts are not replayed; the table opens again |
| **QA transaction** (`manual_runtime_qa.py`) | selector, profile, transaction, used authority, bank, stop context | promote, roll back, hold, operator's recovery | files cut short, an expiring authority, a server that does not answer | games are admitted by the selected runtime only; files never change once a game can have been admitted |
| **Recording health and custody** (`recording_health.py`, `historical_recording.py`, `manual_runtime_quiescence.py`, `qa_callback_drain.py`) | heartbeat, stop proof, the locks of acknowledged captures, inventories, observations of a gate | tick, drain, acknowledge, inventory, observe | things read one after another without a lock; locks a process loses by closing another descriptor; boots in between | what is reported of a recording is so |
| **Live binding catalog** (`live_binding_catalog.py`, `binding_*.py`) **and seats** (`game_server_sidecar.py`) | `current.json`, snapshots, each service's cache and selection, adapters of seats | publish, refresh, list, resolve, make a seat | read outside, assign inside the lock; eviction; two request threads; a publisher that dies | what is selected loads; one adapter per game, player and profile, of the profile shown |
| **Delegated autopass** (`delegated_autopass.py`) | lease, continuation and pending cast of a seat | ask, delegate, pass, wake, put back | state taken out before a pilot call and put back after it; late calls | no pass over anything the pilot has not reviewed |
| **Provider pilots and routing** (`openai_responses_pilot.py`, `bounded_provider_process.py`, `lmstudio_pilot.py`, `pilot_routing.py`, `native_forced_pass.py`, `pilot_composition.py`) | the attempts of one callback | route, request, retry, correct, kill, report | a second attempt that fails after a first was paid for; deadlines that are shared; two descriptions of one format | what was paid for is reported; back in time; the format is fair; only forced windows skip the model |
| **Full game runner and sessions** (`full_game.py`, `orchestration.py`, `pilot_execution.py`, `argentum_client.py`, `argentum_gateway.py`, `binding_session.py`, `pilot_session.py`, `remote_proof.py`) | one game's loop, its records and failures | launch, observe, choose, submit, dispose, postflight, write | replies lost after they took effect; an engine that restarts | what is called completed was recorded whole; no move is made unseen |
| **Paid game batches** (`scripts/run_sequential_v7_batch.py`, `scripts/run_v7_batch_continuation.py`, `scripts/run_v7_final_attempt3.py`, `scripts/run_two_luna_binding_game.py`, `two_luna_debug.py`) | folders with manifest, cursor and receipts; claims; the runtime lock; the ledger | batch, continuation, final attempt; launcher, harness | a controller killed while its game plays on; accounting by a ledger others spend from | no game twice or beside another; a qualified receipt is exact |
| **Evidence store and candidate promotion** (`storage.py`, `evidence.py`, `annotations.py`, `dataset_manifest.py`, `model_lineage.py`, `candidate_promotion.py`, `manifest_export.py`) | content-addressed blobs, catalogs | put, bind, export, issue | death between blob, temporary file and rename; a rotten blob | a catalog names only what was stored whole; a component passed its gates |
| **Improvement ledger** (`improvement.py`) | sources, events, claims | ingest, review, advance, claim | findings that arrive late, leases that lapse | what is adopted was measured apart from its evidence |
| **Card library** (`catalog_loader.py`, `catalog_refresh.py`, `card_catalog.py`, `catalog_access.py`, `engine_coverage.py`) | snapshots, `current.json`, coverage files, pinned sessions | load, publish, search by pages, cover | power loss between two links and a pointer; a search read across publications | a selected or pinned snapshot stays whole; pages and coverage are unambiguous |
| **Canonical capture** (`canonical_capture.py`, `captured_choices.py`) | none: reads a finished recording | join, convert | crashes of the native side lose rows and state, each on its own | the envelope tells the game as played, or is not made |
| Benchmarks, decks, packaging, displays, scripts | files | batch work | mostly none | pure or sequential |

`PROJECT.json` lists every part with its files, and under `hazards` every place where this code is
hard to test, with the properties that look at it.

### Interactions

The recorder process joins journal, capture and bridge: its scanner and its bridge listeners
append to the same journals under the capture lock, its finalizer thread works under the journal's
own lock.  The engine and the sidecar talk to it over two Unix sockets with one serial listener
each; they also talk to each other over HTTP, and all three may be restarted alone.  Sidecar and
recorder resolve profiles from registries of their own over one snapshot store.  The recorder's
metrics decide whether the server may say that it is drained, and the rollout asks the server for
exactly that before it stops anything.  The budget is shared by whatever processes pay for
requests, through one locked file; batches and the cache probe account for themselves by what it
shows.

## 2. The modules

| Module | Kind | What it is |
|---|---|---|
| `JournalRows` | constants | rows of a journal and what they say: sources, pending choices, sealing, completeness |
| `SealedLog` | abstract | a log that grows, is sealed once and published once |
| `GameJournal` | component | the journal's processes and storage; implements `SealedLog` |
| `NativeCapture` | component | the recorder's scanner, finalizers, receipts; each journal implements `SealedLog` |
| `SeatTurns` | abstract | register, start, ask, finish, choose: one callback of a seat at a time |
| `RecorderBridge` | composition | native caller, sidecar and recorder with their channels; implements `SeatTurns` |
| `SpendingMeter` | abstract | charges within a cap and a limit that are authorized |
| `OpenAIRunBudget` | component | the shared ledger and its callers; implements `SpendingMeter` |
| `CacheProbe` | component | processes of one paid session over its journals and the ledger |
| `RuntimeSwitch` | abstract | a table that closes, changes hands and opens again |
| `ManualRollout` | composition | rollout transaction, admission, preflight, systemd, server; implements `RuntimeSwitch` |
| `QaTransaction` | component | the same transaction by the QA host, with its recovery |
| `RecordingHealth` | component | the recorder's heartbeat |
| `CaptureCustody` | component | acknowledged captures under two locks; the inventory of a tree |
| `CaptureEvidence`, `CallbackDrain` | components | recordings of a native game and their envelope; the observation of a game at rest |
| `LiveCatalog`, `SeatSidecar` | component, composition | publisher, registries and request threads; seats over them |
| `DelegatedAutopass` | component | the calls of one seat and its authorities |
| `NativeOffer`, `PilotRoute`, `PilotCall` | operators, operators, component | the format of an offer against the checks of its answer; the routes; the attempts of a callback |
| `ArgentumLink`, `FullGame` | operators, component | what can become of a request; one process that plays games |
| `PodGame`, `GameBatch` | component, composition | one paid game; the controllers of a batch |
| `EvidenceStore` | component | stores, catalogs, export and issue |
| `CardSnapshot`, `CardLibrary` | operators, component | the content of a snapshot; loaders and readers |
| `ImprovementLedger` | component | candidates, findings, claims |
| `*_proofs` | proofs | of the modules they are named for; `Games_proofs` is of `GameJournal`, `FullGame` and `DelegatedAutopass`, `Seat_proofs` of `SeatSidecar` and `PilotCall`, `Spending_proofs` of `OpenAIRunBudget` and `GameBatch`, `Records_proofs` of `CacheProbe`, `CaptureEvidence` and `CallbackDrain`, `Stores_proofs` of the six parts of `MCStores` (section 5) |
| `MC*` | model checking | values for constants, symmetry, and two compositions of modules that share nothing: `MCStores` (evidence store, card library, improvement ledger, custody, heartbeat, QA) and `MCPilotCall` (a pilot's call, recordings) |

The layers lean on each other.  `GameJournal` establishes that an append adds one row or none, that
a sole writer's memory is its durable prefix, or misses the last row of it and writes no more, and
that history only grows; `NativeCapture` and `RecorderBridge` therefore keep a journal as a
sequence of rows and a writer as a prefix length.  `RecorderBridge` keeps of the capture only what
`ingest` looks at (live, finalizing, sealed, unpublished, damaged).  `ManualRollout` keeps of the
recording only whether it is drained and whether it changed after the inventory.  `CacheProbe` and
`PodGame` keep of the budget what it shows: estimate, count and unsettled requests.

In `MCStores` and `MCPilotCall` each behaviour belongs to one of the parts and the others stand
still, so a behaviour of the composition is a behaviour of each part: the proofs speak of a
part's own specification, and `EachByItself` says that the composition implies all of them.

Some operators are preceded by a variant with a plausible bug (`AllDown` by `PlayIsDown`,
`Verified` by `VerifiedUnpaired`).  No definition uses the variants; `PROJECT.json` (`mutants`)
says which property TLC finds violated when a variant takes its operator's place, so that every
checked property is known to be able to fail.

## 3. How each module corresponds to the code

`PROJECT.json` maps every definition to its lines.  In short:

**GameJournal.**  `Open` is `__init__`: take the lock, read what is on disk, refuse a damaged or
torn journal, write the manifest or resume row.  `Record` is `append` of any row a caller may ask
for, `RawEvidence`, `Finish`, `PublishManifest` and `Close` the operations of those names.
`AppendRow` is an append under the journal's lock.  It first compares the files with what the
process remembers of them (`SealsHold`) and gives up when they differ.  The guarded write ends in
one of: row durable and acknowledged; row durable but the caller told it failed (fsync); torn
bytes; nothing; or death in each place; its failure latches `failed`.  A failure before it (a
cancellation, the file not opened) or after it (the descriptor not closed, the files not listed)
latches nothing (`FailsOutsideTheWrite`): the segment number may have moved, or the row may be
durable and unknown to its writer, which the seals find at its next append or lookup
(`BridgeReceipts`).  Killing the process is `Close` without the code's consent, since all that
either leaves is the disk.  Sizes are small numbers, so that segments
rotate and the limit is met.

**NativeCapture.**  One `Visit*` action is one game's turn in `scan`: refused, published already,
sealed by an earlier process, an empty first file, or an import of whatever the engine wrote beyond
the cursor, with its possible failure or crash after any number of rows, the start of the grace and
of a finalizer.  A failure may latch the journal, or leave it usable but without knowledge of its
last row ("missed"), as `GameJournal` says.  `FinalizeRaw`, `FinalizeSeal`, `FinalizePublish`,
`FinalizeCancel` and `FinalizeDone` are the steps of the background thread; `Receipt` is an append
by the bridge; `EngineWrites` may happen at any time.  `RequestStop`, `Shutdown`, `Crash` and
`Boot` are the process.

**RecorderBridge.**  `BeginTurn`, `Registered`, `HttpAnswers`, `HttpFails`, `Closed`,
`NativeGivesUp` are the steps of `post`; `Arrives`, `AsksPilot`, `PilotEnds`, `RequestFails`,
`Answers`, `SidecarGivesUp` the sidecar's request thread; `HandleKnown`, `HandleNew`,
`HandleFailing`, `HandleRefused` the four outcomes of `ingest` for the head of a listener's
backlog.  A client that gives up on a try sends the same message again while the first copy stays
in the backlog.

**OpenAIRunBudget.**  A ledger transaction is one step because the lock spans it from reading to
replacing; `Fruitless` is a transaction whose outcome is an error, with or without the file
replaced.  `Reserve`, `Dispatch`, `Answer`, `Settle` are the stages of `create`, each with its
failing counterpart, `SetRequestLimit` and `IncreaseCap` the authorizations, `Start` and `Dies`
the processes, which bring their own configuration.

**CacheProbe.**  A process takes `.session.lock`, verifies that manifest, journals and ledger
agree (`Verified`), and goes through its list: intent, reservation, dispatch, answer, settlement,
receipt, result.  `ReserveFails` and `SettleFails` are the budget's refusals and half-failed
writes, `Dies` leaves a torn last row or none, `Foreign` is another run on the same ledger.
Amounts are in units of a half reservation, so that a full, a bare, an excessive and a missing
usage report charge differently.

**ManualRollout.**  `ChangeStarts` to `Held` are the steps of `_promote` on
`ProtectedRuntimeHost`, for an update and for an explicit rollback alike.  Every step may fail
without effect (`FailsUnless`) or after it (`Proceeds`); `Fails` says where an exception leads:
out, into the rollback, or to a hold.  `DispatcherDies` kills the process between two steps.
`AdmitStarts` is `admit_current`, run by a timer, and shares `Resume`.  `RestartUnit` is systemd
with `ensure_preflight` and the service's own look at the gate; `UnitFails`, `Reboot`,
`HealthLost` and `LateWrite` are what goes wrong outside.  The server's side of the lifecycle
socket is not in this repository: it is modelled from how the host uses it (`Obeys`,
`DrainCompletes`, ...), and marked external.

**QaTransaction.**  The same transaction on the QA host, where every file is written as `.next`
and moved: a cut write leaves the copy (`qaTorn`), which refuses every later write of that file.
The authority is used up by opening (`qaUsed`) and may expire.  A rollback stops only a server
that answers; the operator's recovery applies while no game can have been admitted.

**RecordingHealth, CaptureCustody, CallbackDrain.**  A `tick` is split where it reads: status,
then proof and counters, then the exchange.  The native runtime drains, acknowledges, is resumed
on the same boot and drains again, each drain under a name of its own; a report carries the name.
A registry tries the Gym's lock and then the native one (`Locks`), and closes them one after the
other in the same order, whether it is closed or its attempt failed (`BeginsClose`,
`ClosesLock`); any descriptor the process closes frees the native lock for everybody.  An
inventory walks a tree directory by directory and entry by entry (`LooksAtFile`, `ReadsFile`),
twice.  The observer of a gate reads status, recording and
status again; after a restart of the recorder it must find the same.

**LiveCatalog, SeatSidecar.**  The publisher goes from idle over staging and staged to installed
and selects last.  A listing reads the pointer, loads what it names without the lock, selects it
under the lock and lists (`LookReads`, `LookLoads`, `LookSelects`, `LookLists`); `Load` is the
cache with its eviction.  Request threads then find or make an adapter (`Finds`, `Makes`); the
recorder resolves the same profile with a registry of its own (`Expects`).  A profile is a
position in a snapshot's listing, as in the code.

**DelegatedAutopass.**  `Ask` takes the authorities out of the store and shows the window to
`choose`; `Delegate`, `Wakes`, `PilotAnswers`, `PilotRaises` are its outcomes.  An authority is
one record whose kind says which of the three it is.  `Others` changes the game from outside,
`GiveUp` is the engine's timeout, after which a late call answers nobody.

**NativeOffer, PilotRoute, PilotCall.**  `NativeOffer` has both descriptions of an offer: the
schema put to the model (`Fits`) and the checks of its answer (`Verdict`); `FormatIsFair` compares
them.  Its ids are any finite set, and an offer's numbers and lists are bounded by it only as
`records.py` bounds them.  `PilotRoute` is the handlers that need no model, the order components
try them in, and what each demands of an offer: the standing handlers check its player (`own`), a
sole declaration with nobody to declare is answered by its types alone (`typed`).  `PilotCall` is
one callback: reservation, request, answer, child killed at its deadline, retry or correction,
receipt; the clock counts five seconds.  The local pilot keeps an attempt before it looks at its
time again, so an attempt may be kept that never left (`LocalUnsent`).

**CaptureEvidence.**  The native game keeps its state in a database and its rows in a queue it
writes behind; a crash loses the queue and what the database had not got, each on its own.
`Attaches` is `canonical_capture`, `ReadsChoices` is `captured_choices`: one step each, since the
recording is finished.

**ArgentumLink, FullGame.**  `Outcomes` says what a request can come back with: done, refused
before it was applied, applied but answered with an error, cut off or not answered at all; the
gateway in between turns silence into 502 and breaks off over an answer that was cut.  `FullGame`
is the runner, stage by stage, in five modes: the full runner, a launch planned from bindings, the
bounded session, that session without the demand that every seat acts, the direct proof.  The
runner itself may reject what was created (`Rejected`).  `Restart` is a new engine,
without the old environments.

**PodGame, GameBatch.**  `Checks`, `Starts`, `Polls`, `Finalizes`, `Reports`, `TearsDown`,
`Qualifies` are the launcher and its harness, `Asks`, `Answers`, `Writes` the game's requests,
`Stranger` another run's.  `GameBatch` adds the controllers: one lock, folders with manifest,
cursor and receipts, the claims of continuation and final attempt; a controller that is killed
leaves its game running in a session of its own, and one whose look at a finished game raises ends
without a receipt (`Unverified`).

**EvidenceStore.**  A record is its own content, so a name stands for its digest.  `Begin`
validates a record against what it rests on; `PutChecks`, `PutOpens`, `PutMoves` store its blob by
a temporary file; `BindChecks`, `BindOpens`, `BindMoves` do the same for the catalog entry.
`Crash` may come between any two, and the process may come back under the same pid.  `Export` and
`Issue` read what is there and keep histories; the qualification `Issue` is handed is a record in
memory, which need not have been stored.

**CardSnapshot, CardLibrary.**  `CardSnapshot` is the load of a feed's rows into cards, the order
and the pages of a search, and the join with an engine's registry.  A loader locks, fetches,
stages, links database and metadata, synchronizes and selects; a disk entry is known to be there
after a power loss only once its directory was synchronized.  Readers pin a snapshot and carry
cursors.

**ImprovementLedger.**  Every operation is one SQLite transaction and one action.  Sources may be
ingested at any time; a worker acts with the token and revision it last saw, which others may have
overtaken.

## 4. The runs

Each run asks one question of one part of the system; the named properties are conjunctions of
named parts, each with its comment in the module.

| Run | Instance | States | Shows |
|---|---|---|---|
| `game_journal` | 2 processes, 1 callback, row sizes 1 and 2, limit 8, reserve 2, segments of 3 | 1,644,329 | `ViewIsSound` (memory is what the disk says or misses its own last row and is stopped by it, one writer, room for the seal), `CompleteMeansComplete`, `HistoryIsKept` |
| `native_capture` | 1 game with a choice, 2 faults and 1 restart, or 2 games with 1 failed write | 349,172 | `JournalsAreFaithful` (imports are exact, seals whole, drained means published), `SealsInTime` (each journal is a sealed log, no choice is cut off in its grace), `EventuallyPublished` |
| `recorder_bridge` | 1 seat; 2 turns with a failed write or a death, or 1 turn with 3 faults of any kind; backlog 2, 2 tries | 317,873 | `ReceiptsAreSound`, `ImplementsSeatTurns`, `EveryTurnEnds` |
| `openai_run_budget` | 2 processes, 3 calls, cost 2, caps 2 and 3, limits 1 and 2, 2 starts; symmetry | 368,000 | `LedgerIsSound` (covered, within cap and limit, counted), `LedgerRemembers`, `ImplementsMeter` |
| `manual_rollout` | 3 releases, 2 changes, 3 faults | 267,234 | `OneReleaseServes`, `NothingIsDisturbed`, `ImplementsSwitch`, `EventuallyOpen` |
| `cache_probe` | 2 processes, 3 requests, 2 retries, 2 deaths or half-failed writes, 1 foreign request | 522,073 | `NothingIsLostOrRepeated`, `EventuallyComplete`, no deadlock |
| `delegated_autopass` | 2 overlapping calls, 4 settings, up to 2 passes, 1 change by others, 2 turns | 384,654 | `DelegationIsSound`, `PilotIsAskedAgain` |
| `pilot_call` | 3 pilots, up to 3 attempts, 13 kinds of offer, 2,885 windows; recordings of 2 calls with a crash and a human move, 2 pauses | 434,372 | `PaidIsReported`, `BackInTime`, `FormatsAreFair`, `RoutesAreForced`, `EveryCallEnds`; `EvidenceIsTrue`, `DrainedMeansAtRest` |
| `full_game` | 2 seats, 2 games, 3 choices, loop limit 2, 2 faults, 7 setups | 1,757,406 | `VerdictIsTrue`, `EveryGameEnds` |
| `seat_sidecar` | 3 commits, sidecar with 2 threads and recorder, cache of 1, 2 pulls, 1 fault | 281,555 | `PriorSurvives`, `SeatsAreStable`, `EventuallyServed` |
| `game_batch` | 3 games, 2 operators, 2 folders, 2 requests, 1 stranger, 1 fault | 416,016 | `GamesFollow` (each game once, lineage whole, receipts exact), `RuntimeIsFreed` |
| `stores` | evidence: 5 plans, 1 crash, 1 rotten blob; cards: 3 feeds, 2 loaders, 1 reader, 1 stop, 1 refusal; improvements: 2 workers, 3 cases, 2 claims; custody: 2 registries, 3 places, 2 changes; heartbeat: 2 beats, 2 boots, 2 drains; QA: 3 controllers, 3 faults, 2 writes | 1,047,159 | `RecordsStand`, `EventuallyWritten`; `SelectedIsKept`, `ReadersAreServed`; `ImprovementsAreEarned`; `CustodyHolds` |

### Why the bounds are enough

- *Journal.*  Eight bytes hold a manifest row, a resume, a start, a completion, an engine row, raw
  evidence and the terminal, or any of these in other mixtures until the reserve is reached, over
  several segments; a second process is what takes over after a kill, and the lock makes more than
  two indistinguishable.
- *Capture.*  Three native rows are a beginning, a transition and an end, so a cut between any
  two, two faults let an import fail and the process crash in its repair, and a restart lets a
  journal be resumed.  Two games are enough for one to hold the finalizer while the other waits; a
  third waits like the second.
- *Bridge.*  A message has two tries because the code has two; a backlog of two holds the copy
  given up on and its repetition.  Two turns of one seat are what may overlap; seats do not share
  anything but the listener and the journal.
- *Budget.*  Three calls of two processes let one settle, one be kept and one be refused; caps 2
  and 3 around the default 2 let a cap be elevated and a request just fit or just not; limits 1
  and 2 likewise.
- *Rollout.*  Two changes among three releases include an update and its explicit rollback, an
  update after a rolled-back one and two updates; three faults reach a failing rollback after a
  failing activation, or a reboot in the middle of it.
- *Probe.*  Three requests are a first, one after it and one behind doubt; two retries let their
  limit be reached; two deaths leave the journals apart and then kill the process that repairs
  them.
- *Autopass.*  A call that is late and the one after it are all that may overlap for a seat; the
  settings are chosen so that each boundary, each kind of plan and both modes of recording occur.
- *Pilot call.*  A first attempt, one that fails after it and one that is refused; the units of
  time are those the code's limits differ in.  The recordings have one or two callbacks of every
  kind the converters tell apart, a crash, and a move by a human between them.
- *Full game.*  Two faults lose a reply and then the disposal or the postflight; a loop limit of
  two is the least that tells a repetition from a loop.
- *Seats.*  Three commits give the selected, the published and one that must be refused; a cache
  of one evicts at once; one crash, restart or spoiled file at any step.
- *Batch.*  The code has three games; two operators are one that was killed and one that goes on;
  one request of a stranger, and one of: lost answer, second try, death.
- *Stores.*  A crash between any two steps and the same writer again; feeds with a repeated, a
  renamed and a re-ranked card; findings before and after the review; two registries of one
  process, since the lock belongs to the process; two boots, so that a proof may be of the one
  before, and two drains, so that a report may be of one that was resumed since.

Counters that the code leaves unbounded are bounded in the guards by the constants commented
"bound", except the server's boot number, which follows from faults and commands.  For the eight
modules with proofs the bounds and sizes are parameters of the theorems.

### Deadlock

`cache_probe` checks deadlock: a session that is complete or stopped may always be started and
verified once more.  The other configurations say `CHECK_DEADLOCK FALSE`, because those systems
may really come to rest: a sealed and published journal accepts nothing more, a turn, a call or a
game ends, a held rollout waits for an operator, a plan of writes is done.

### Fairness

- `NativeCapture`: the scanner keeps scanning and visits games (`WF`), the finalizer thread runs
  (`WF`) and gets the capture lock, which the scanner leaves free for a second between two scans
  (`SF` of `FinalizeDone`), time passes for a grace, a process that was told to stop exits and is
  started again by systemd.  Nothing is assumed of engine, bridge, failures or crashes.
  `EventuallyPublished` excuses a game that is blocked for good (damaged journal, storage limit, a
  latched failure, no recorder) or stands behind an earlier one that cannot be sealed; both are in
  section 6.
- `RecorderBridge`: only the native thread's own steps (`WF`), because each of its waits has a
  deadline.  `EveryTurnEnds` holds although neither recorder nor sidecar need ever take a step.
- `ManualRollout`: the transaction goes on unless it is killed, the admission timer fires, the
  server recovers, finishes a drain that can be finished, and games end.  Nothing is assumed of
  operators and systemd: `EventuallyOpen` is conditional on the units staying up and on no change
  being left unfinished.
- `CacheProbe`: somebody starts the session again as long as it is not complete, and a process
  that runs goes on.  Completion excuses other runs on the ledger, refused or lost requests, a
  torn row and an attempt that was cut in half: each stops the session by design.
- `DelegatedAutopass`: a call that has begun ends, and the engine asks again.
- `PilotCall`: the pilot's own steps, and time.  Providers and engine need do nothing.  A pilot
  without a deadline of its own ("plain") is excused, since nothing in the code ends its wait.
- `FullGame`: the runner goes on; a request always ends because the client has a timeout.
- `SeatSidecar`: the publisher is run by its timer, services by their supervisor, a request thread
  goes on, and someone keeps looking at the lobby (`SF`, since looking is only possible while the
  service is up and a thread is free).
- `GameBatch`: a controller and the launcher it waits for go on; the harness's waits have
  deadlines.
- `EvidenceStore`: a caller goes on with what it has to write.  The other stores assume nothing;
  only safety is claimed of them.

## 5. The proofs

TLAPS checks 23,838 obligations in eight modules; every leaf is proved by Z3, Zenon or, for the
temporal steps, LS4.  No fact is assumed but the ASSUMEs on the constants, which TLC evaluates in
the runs, and the library's theorems on finite sets, sequences and well-founded orders.  Every
inductive invariant below was checked with TLC on the run's instance before it was proved.

**Games_proofs** is of the journal of a game, of the runner that plays games, and of what a seat
answers in them by itself.

*GameJournal* (any processes and callbacks, any sizes with `TerminalBytes <= Reserve <
MaxBytes`): `TypeCorrect`, `ViewsAreRecoverable` (`ViewMatchesDisk`), `OneWriter`,
`TerminalAlwaysFits` (`SealRoom`), and all four together, `ViewsAreSound` (`ViewIsSound`);
`CompleteIsTrue` (`CompleteMeansComplete`); `JournalIsSealedLog` (the refinement of `SealedLog`);
`HistoryStays` (`HistoryIsKept`).

`ViewMatchesDisk` is not inductive by itself: another process could write, and a torn or sealed
journal could be resumed.  The invariant is

    IInv == TypeOK /\ SoleWriter /\ ViewMatchesDisk /\ DiskInv

where `DiskInv` says how bytes, segments and the terminal row of the disk fit together.
`ViewMatchesDisk` has two cases.  A writer agrees with the disk in every counter, or it misses one
row, its own last one, which became durable in an append that reported a failure; then it remembers
fewer bytes than there are, so that its seals do not hold and it stores nothing more.  Only a
writer that agrees stores a row, which is why the second case never misses two.  The lemmas
`AppendedCount`, `AppendedPending` and `AppendedSeal` say what one more row does to the counts, to
the pending choices and to sealing: each is the equation between the code's incremental
bookkeeping in `append` and the scan of all rows in `__init__`.  Every action is `StoreRow`,
`SpoilRow` or neither, so the step lemmas follow these.  `CompleteIsTrue` adds that pending choices
are empty when the terminal row is written as complete and that nothing follows it; the refinement
adds that a step extends the rows, seals them or publishes.  `HistoryStays` joins the refinement
with the fact that a torn journal takes no row.

*FullGame* (any seats, bindings, setups, number of games, loop limit and faults):
`VerdictsAreTrue` (`VerdictIsTrue`).

    RunnerInv == RunnerTypes /\ PlaceOK /\ MovesOK /\ EndOK

`PlaceOK` says what the runner holds at each of its stages and that before the game is over nothing
has failed; `MovesOK` that, while nothing has failed, its records are the moves but for the one on
its way into them, and that what it saw is what the engine holds; `EndOK` what is known once a game
is over and nothing has failed.  Whatever fails, at whatever stage, only the way out is left
(`FailStep`, `CleanupStep`).  One lemma per stage shows the invariant kept; `ArtifactFollows` and
`MovesFollow` read the property from it.

*DelegatedAutopass* (any calls, settings, number of changes, turns and passes): `DelegationSound`
(`DelegationIsSound`).

    AutopassInv == AutopassTypes /\ StoreOK /\ HeldOK /\ AloneOK

`StoreOK` and `HeldOK` say of every authority, in the store or in the hands of a call, that it is
`Sound`: it is at a stage its kind has (a lease, a cast, or before the land, after the land, after
the spell of a plan), it has passed as often as that stage allows, and what lies between the window
in which the pilot gave it and the last one it answered is its own cards and what is routine
(`FollowsFrom`).  The code compares a window only with the one before it; that this adds up to a
comparison with the first one is `ExtendsChain`.  One thing does not add up by itself: the wait
after a spell asks for an empty mana pool without looking at the pool before, and only the clock of
the game (`Earlier`: within a step mana is only added to) makes that the pool the pilot saw.
`AnswersAreRight` then says that every answer is reviewed, within what the authority may, and puts
back a sound authority, for each of the six arms of `AnswerOf`.  `AloneOK` is the recorder's one
open decision: the seat's authority is with the open call or in the store, there is one, and it is
not older than the last time the pilot was asked.

**Spending_proofs** is of what is paid for: the run budget, and the batch of paid games.

*OpenAIRunBudget* (any processes and finitely many calls, any positive costs and caps, any
limits): `TypeCorrect`, `ChargesAreCovered` (`SpendingIsCovered`), `AmountsAreWithin`,
`RequestsAreCounted`, `ElevationIsLimited`, the four together as `LedgerStaysSound`
(`LedgerIsSound`), `NothingIsForgotten` (`LedgerRemembers`) and `BudgetIsMeter`
(`ImplementsMeter`).

That the ledger covers the charges is a statement about a sum over calls.  The invariant

    IInv == TypeOK /\ CallsAreSound /\ NotBegun /\ Covered /\ LedgerIsWithin
              /\ CountsAreExact /\ ElevatedIsLimited
    Covered == \E G : IsSum(G, Slack) /\ ledger.estimated = spent + G[Calls]

says that the estimate exceeds what was charged by exactly what the calls hold beyond their charge
(`Slack`), with the sum as a witness function `G` over the subsets of `Calls`; the lemma
`SumChanges` gives the witness for the next state when one call's slack changes.  No recursion is
needed, so the argument stays first-order.  `CallsAreSound` says which amounts a call may have at
each place, `NotBegun` that there is nothing in a ledger that does not exist.  A death changes
many calls at once but none of their slack, which is what `StandingKept` is for.

*GameBatch* (the three games of the code; any operators, any number of folders a continuation may
be started in, any request limit, requests of other runs, lost answers, signals and deaths):
`GamesAreOneSequence` (`GamesFollow`).

    BatchInv == BatchTypes /\ BudgetOK /\ LockOK /\ LineOK /\ GamesOK /\ QualifiedIsExact
                  /\ \A f : FolderOK(f) /\ \A p : PlaceOK(p)

What the property says of receipts is decided long before a receipt is written.  `LineOK` says
which folders can have been begun: a continuation only by the claim, after the batch stopped at its
first game, and the last attempt only after the continuation stopped at the second.  `FolderOK`
ties a folder's cursor to its artifacts and receipts; from the two follow `Apart` (no game has
artifacts in two folders), `OneAlive` (no two games are alive) and `NowhereElse` (the game a
controller dispatches was never dispatched from another folder).  `PlaceOK` is what a controller
holds in memory at each place of its program, above all that the ledger it compares with is the one
the last receipt was closed with, although the controller that wrote that receipt may be another one
that was killed since.  `WriterIsAlone` and `WriteKeeps` say once for all that writing to the folder
one is in disturbs no other.  That a receipt is exact comes from two bounds that meet: the ledger
moved by at least what this game asked (`PlaceOK`) and the game has no more rows than it made
attempts (`PlayOK`); a receipt qualifies only when the rows are all that the ledger moved by.

**Records_proofs** is of the journals of a paid session and of the recordings of games.

*CacheProbe* (any list of requests, limits, caps, processes, deaths and foreign requests):
`SendsOnce` (`SentOnce`), `KeepsWhatIsPaid` (`PaidIsKept`), `DoubtStops`
(`StopsAtDoubt`), together `NothingLostOrRepeated` (`NothingIsLostOrRepeated`).

    IInv == TypeOK /\ LockOK /\ PairsOK /\ OrderOK /\ SentOK /\ CleanOK /\ BilledOK /\ ReceiptsOK

Nothing is sent twice because the lock admits one process (`LockOK`), the journals pair up but for
the attempt under way (`PairsOK`), intents follow the list (`OrderOK`) and what is sent is the
last intent, which was not sent before (`SentOK`).  `CleanOK` is what verification establishes at
each start and every step keeps: no attempt follows one in doubt.  `BilledOK` bounds the bill by
what the intents reserve, with one unit above it only when the last answer was above its estimate.
The lemmas `RetriesType` and `RetriesAppend` do the counting.

*CaptureEvidence, CallbackDrain* (any seats, callbacks, choices, moves of humans, crashes, missed
rows, pauses and restarts of the recorder): `EvidenceHolds` (`EvidenceIsTrue`), `DrainsAreRests`
(`DrainedMeansAtRest`), from `RecordingsAreKept`.

    DrainInv   == CaptureInv /\ DrainTypeOK /\ GateOK /\ ObserverOK
    CaptureInv == CaptureTypeOK /\ PlayedOK /\ WrittenOK /\ EvidenceOK
    WrittenOK  == native.gaps = 0 => RowsOK /\ LineOK /\ ShownOK

An envelope is made of rows on disk, and what they say has to be traced back to a game whose
crashes forget moves and rows each on their own.  `PlayedOK` ties the game and the Gym's rows to
the history of the calls.  `RowsOK` says of each row, on disk or queued, what may stand before it;
`LineOK` that every move starts where the rows before it lead and the game that plays is where all
of them lead, *or* that some `callback_resume_state` row says otherwise (`Bad`): the invariant
cannot say more, since a crash may lose the rows of moves the database kept, and it need not, since
such a row is what the reader looks for (`RestoredIsTrue`).  Without a bad row the states form a
chain in which each move adds one entry, so the length of a state tells its move
(`OneOfALength`), every move that is told is held by the game (`MovesAreHeld`) and every call whose
result is told and held is held where the result says (`TakenAreHeld`); that the last move leads to
the present state rules out that one was told and undone.  `ShownOK` is for the other direction:
without a crash all that happened is among the rows (`CleanHolds`, `TakenIsTold`), and a crash
leaves a `resume` row, which is what makes the older reader refuse (`NoRestart`).  `StatesGrow` is
an induction over places, by the least counterexample (`Least`).  For the observer, `GateOK` says
that a closed gate belongs to a game that is up and whose restored state is written, and
`ObserverOK` that nothing can be asked while the boot and the gate's generation it read first still
stand; the second look compares just these, so what it read in between was of a game at rest.

**ManualRollout_proofs** (any releases, commands and faults): `OneRelease` (`OneReleaseServes`),
`ReplacesAtRest`, `StopsNoGame`, together `DisturbsNobody` (`NothingIsDisturbed`), and
`RolloutIsSwitch` (`ImplementsSwitch`).

    IInv == TypeOK /\ RunsSelected /\ ClosedMeanwhile /\ PhaseOfStep /\ AtRest /\ Numbered
              /\ GateIsSelected /\ AttemptsAreConsumed

ties the step of the job to phase, gate, units and numbers: what runs is the selected release on
its own files; from the second look at the drained server on the table is closed and empty;
between the first unit stopped and the start of the selected release the gate is down and nothing
restarts; a transaction's number is the next one until it selects, and no game was admitted under
it.

**RecorderBridge_proofs** (any seats, turns, backlogs, tries, kinds and number of faults):
`ReceiptsSound` (`ReceiptsAreSound`) and `BridgeIsSeatTurns` (`ImplementsSeatTurns`).

    IInv == TypeOK /\ BoundsOK /\ ReceiptsInOrder /\ OnePending /\ AcknowledgedIsDurable
              /\ EndsAfterChoice /\ ThreadsInOrder /\ ControllersInOrder /\ ActedIsRecorded

Messages may wait in a backlog long after their senders went on.  `EndsAfterChoice` therefore
speaks of the backlogs too: an end that is recorded, or waits to be, is of a callback whose choice
was made; `ThreadsInOrder` and `ControllersInOrder` say what the two sides know at each place.
`OneRow` reduces every step to at most one row by one listener; `WrittenIsOn` says what it adds.

**Seat_proofs** is of the catalog and the seats over it, and of one callback that a seat puts to a
model.

*SeatSidecar* (any commits, services, threads and cache size): `PriorCatalogSurvives`
(`PriorSurvives`) and `SeatsAreTheSame` (`SeatsAreStable`), from `CatalogOK` (what a registry has
loaded was whole when it was read), `RequestsOK` (what a thread holds at each step), `PublishedOK`
(only what is in place is selected) and `SeatsOK` (a key has one adapter, of its profile).

*PilotCall* (any pilots, offers, windows, attempts, budgets and limits of time with `LocalLimit +
Margin <= CallbackLimit <= EngineLimit`, and finitely many ids): `CallIsSound`, `PaidReported`
(`PaidIsReported`), `BackSoon` (`BackInTime`), `FormatsFair` (`FormatsAreFair`), `RoutesForced`
(`RoutesAreForced`).

    CallInv == CallTypes /\ TraceOK /\ CountOK /\ ReceiptOK /\ TimeOK /\ RouteOK

`TraceOK` says that the attempts kept are those sent, but for the one that is open or whose answer
broke the code's types; `CountOK` bounds them by the number of attempts and takes each from the
funds; `ReceiptOK` says what is reported at each end.  `TimeOK` keeps the deadline of a child below
what is left of the callback, so that the margin is still there when it is killed; `RouteOK` that
only a component that takes the window answers without a model.
The format of an offer is compared with the checks of its answer for every offer of the shape
`records.py` validates (`WellFormed`), without enumerating offers: an answer that fits names some
action and its parameters are taken (`TakenFits`, `SomeAction`, `SomeResponse`).  A route answers
without the model only when there is nothing but a pass (`OnePass`) or the sole action
(`TakesTheSole`), and passes over nothing else (`PassOverNothing`).

**NativeCapture_proofs** (any games, callbacks, storage limit, faults and restarts):
`JournalsFaithful` (`JournalsAreFaithful`) and `SealedInTime` (`SealsInTime`: each journal is a
`SealedLog`, and no choice is cut off in its grace).

    CaptureInv == TypeOK /\ (proc.at > 0 => proc.scanner) /\ (a process that is down has no memory)
                    /\ \A g : DiskOK, CursorOK, MemOK, VerifiedOK of g

`DiskOK` ties a journal to the engine's file: it holds each engine row at its ordinal, no row
twice, and is sealed and published in that order.  The cursor of a living scanner is the number of
imported rows (`CursorOK`); a journal that did not fail knows all its rows, and a finalizer works
on a whole one whose choices had their grace (`MemOK`).  An import may stop after any row, so the
lemmas are about one more row (`CountAbove`, `AppendedNatives`, `ImportedGrows`) and about any
number of them (`ImportRows`); every action touches one game, so that `Change` and `ChangeStep`
reduce a step to what it does to that game, and `ChangeIsLogStep` to the abstract log.

**Stores_proofs** is of the six parts of `MCStores`, each by itself.

- *Card library* (any feed, loaders, readers, deaths, refusals and losses of power):
  `SnapshotsStay` (`SelectedIsKept`).  `KeptOK` says more than the property: the files of what is
  selected, of what is selected on disk (`currentSynced`), and of what is pinned are not only
  there but synchronized; `ApartOK` says that what a loader may still take back is nothing anybody
  relies on.  `CoverageHolds` (`CoverageIsUnambiguous`, half of `ReadersAreServed`) is a fact about
  the operators of the join, for every snapshot and every registry.
- *Improvement ledger* (any workers, findings, submissions and leases): `ImprovementsEarned`
  (`ImprovementsAreEarned`).  A candidate reaches each state once (`Ascending`), so that "the" gate
  of a state is one event's details; no gate is skipped (`NoneSkipped`); what stood behind a gate
  still stands (`GatesHold`); under a claim, lapsed or not, nobody but its holder moved the
  candidate (`ClaimsHold`), which is stronger than the property and inductive.
- *Evidence store* (any records, plans of writers, crashes and rotten blobs): `RecordsAreKept`
  (`RecordsStand`).  `WritersOK` is what a writer has established at each of its steps: that what
  its record rests on was held before it writes, that its own blob is held before it binds, and,
  for a writer that is alone, that the identity is still free.  `ExportsOK` and `IssuedOK` keep of
  the histories what the validations of `Begin`, `Export` and `Issue` saw.  Of held-out data the
  theorem says what the code looks at: that it was not exported from the manifest of the last
  test; it says nothing of an export from another one.  `GivenAssumption` says
  of the instance that what a plan finds in place was written by the same code: it is closed under
  what it rests on.
- *Custody* (any registries, trees and changes): `CustodyIsSound`.  A registry opens the native
  file only under the Gym's lock, but one that closes still has it open when the Gym's lock is free
  again (`RegistryOK`); so another that has both locks while such a one exists took them between
  its two closes (`TakenEarly`), and that is the one case `AcknowledgedIsHeld` excuses (`early`,
  section 6).  A stamp that a changed file has lost never comes back, so that a file that is seen
  unchanged at the second look was so all the time (`SecondLook`).
- *Heartbeat* (any beats, boots and drains): `HeartbeatsSound`.  What was said of a drain stays so
  while the drain of that name lasts (`Said`): no game starts under an acknowledged drain, and a
  name is given to one drain only.  Once the same boot is resumed, a heartbeat on show says nothing
  of what it plays.  A reporter that has seen the stop exchanges nothing more (`LateOK`).
- *Qualification* (any number of attempts, errors, crashes and late writes): `QaIsSound`.  The
  invariant `QaInv` ties the step of the job to phase, files, units and gate, and says of a game
  that may have been admitted that nobody touches the runtime any more (`Admitted`).
- `CustodyIsKept` (`CustodyHolds`) is the last three of the composition, by `EachByItself`.

**Only model-checked**, and why:

- *Liveness* (`EventuallyPublished`, `EveryTurnEnds`, `EventuallyOpen`, `EventuallyComplete`,
  `PilotIsAskedAgain`, `EveryCallEnds`, `EveryGameEnds`, `EventuallyServed`, `EventuallyWritten`,
  `RuntimeIsFreed`): out of the prover's reach.
- *Functions of one input*: of `ReadersAreServed` the half `PagesAreWhole`, since the order and the
  pages of a search are recursive functions of the feed.

## 6. Disagreements and limits found

None of these is a run of its own: the models contain the behaviour and the properties excuse it
by name.

*The code against its own words.*

- A game whose sealing or publication failed once is tried again first at every scan and takes the
  only finalizer's slot, so no game of a later name is finalized until the recorder is restarted
  (`native_game_capture.py:315`), although `scan` promises to "finalize every native terminal"
  (`:227`).  `Unfinishable` in `EventuallyPublished`.
- A crash between the creation of a journal's first file and its first complete row makes the next
  process index an empty sequence (`native_game_capture.py:192`); the `IndexError` ends the
  scanner thread with no error recorded.
- An append that fails outside its guarded write (a cancellation or `os.open` after the segment
  number moved, `game_journal.py:402-407`, or closing and listing the files after it) does not
  latch `failed`, although every failure inside does.  The journal stays usable; when the row was
  durable its writer does not know it, and only the seals stop the next append.
- `HistoricalIncompleteRegistry` closes the Gym's lock before the native one
  (`historical_recording.py:231-235`, and `:197-199` when an attempt fails).  Another registry of
  the process may take both in between and loses the native lock to the second close, while it goes
  on vouching for the capture; the comment at `:184-187` and its test take the order of acquisition
  to be enough.  `early` in `AcknowledgedIsHeld`.
- A write that failed after its row was durable clears its error at the next scan
  (`native_game_capture.py:318`) while the journal object takes no row any more.
- At the storage limit the engine's closing row cannot be imported, and nothing else starts the
  sealing that the terminal reserve is kept for (`native_game_capture.py:306`).
- A candidate that fails before it has a healthy closed lifecycle is stopped and replaced
  (`manual_runtime_host.py:305`), where `docs/manual-luna-runtime-profile.md:85-86` says that it
  is held.
- The submission of a move is part of the pilot's stage, so that a refusal or a lost reply of the
  engine is reported as `pilot_failure` (`full_game.py:232-234`), which
  `docs/full-game-runner.md:111-112` keeps for failures of the model and malformed answers.
- The gateway answers 502 when the engine is silent after a mutation it may have applied
  (`argentum_gateway.py:193-200`); the client takes that for an explicit refusal and not for the
  unknown delivery its `ArgentumDeliveryUnknownError` is documented for.
- The gate on held-out data reads the manifest it is given, cataloged or not
  (`candidate_promotion.py`, `_validate_dataset_gate`): what was held out in one manifest may have
  been exported from another.

*Limits worth knowing.*

- Capture: the grace begins anew with every restart (`native_game_capture.py:309`).
- Rollout: an activation that stops between creating its rollback bank and writing its transaction
  can never be tried again with the same candidate and sequence (`manual_runtime_host.py:263`).
- QA: a `.next` left by a cut write blocks recovery or opening for good; a crash in the middle of
  stopping units leaves neither branch of the recovery applicable; an error after the durable
  "completed" is answered by a rollback.
- Heartbeat: `drainComplete` may combine a producer's proof up to five seconds old with a newer
  status.  An inventory is of its own files: another may come and go between the two looks.
- Evidence of recordings: a crash between resume and the callback's resumed state leaves a capture
  that can never be converted; a call lost without any row is absent without a trace.
- Catalog: a spoiled snapshot of the head makes its publication refuse for good; a service that
  read the pointer before a publication may put its registry back until the next refresh;
  `.candidate-` directories left by a crash stay; the first catalog must match the release's
  bindings.
- Card library: the same bytes under a new address, or an orphan, make a publication refuse for
  good.
- Evidence store: `_write_catalog_entry` looks and then replaces, so two writing processes may
  bind one identity to two contents in turn (`BoundOnce` speaks of one); evidence is published
  without synchronizing its directory.
- Improvements: a candidate that was adopted under a claim can be rolled back only while that
  lease lives, since a transition needs it and nobody can claim an adopted candidate any more
  (`improvement.py:263-266`, `341`).
- Autopass: only with a recorder does asking the pilot discard what was delegated before.
- Pilots: when an answer breaks the code's types, or one that fits is refused by the contract or by
  the seat, the exception carries no attempts, so that what was paid for is not reported;
  `PaidIsReported` is of the other endings.
- Heartbeat: a complete heartbeat stays on show until the next tick, also when the same boot was
  resumed and plays again.
- Batches: the ledger is read again between the check and the raise
  (`scripts/run_sequential_v7_batch.py:505`, `515`); two batch folders and a killed controller
  could play the first game twice: `GamesFollow` is of the folders the scripts use, the batch's
  one and the continuation's two.

## 7. What is not modelled, and why

- *Contents.*  Hash chains, segment digests, message schemas, peer identities, seals,
  qualifications, approvals' fields: they are checks of bytes that the models keep as "holds" or
  "was changed".  Prices and floating point in the budget: costs are natural numbers, and that the
  provider charges no more than was reserved is taken from the reservation rule, except in
  `CacheProbe`, where an answer may be above it.  A ledger that is deleted by hand: the model's
  ledger file is never lost.
- *Wording.*  Prompts, the rendering of observations, the JSON of requests.
- *Derived files.*  Projections of a published manifest and the attestation of historical
  recordings keep no state that other parts read back.
- *The keyless profile* of the rollout delegates to programs outside this repository; the QA
  guest's checks of mounts, its probes and its seals are assumed to pass or to count as an expired
  authority.
- *The native server* behind the lifecycle socket is modelled from how the host uses it; its
  validation and its storage reserve are assumed to answer.
- *File systems.*  A directory that was created is taken to be durable; one schema version of the
  card library; coverage is published for the current snapshot only.
- *Pure and sequential parts.*  Benchmarks, experiments, teacher data, decks and their sources,
  local models, packaging, preflight, displays, command lines: functions of files or programs
  without a second actor, where a model would repeat the code.

## 8. Plan

All parts of the plan are modelled, and every safety property a run checks is proved but for
`PagesAreWhole`, for the reason given in section 5.
