------------------------------ MODULE SeatSidecar ------------------------------
(***************************************************************************)
(* The seats of the sidecar over its live catalog: request threads of the  *)
(* threading HTTP server find or make the adapter of a game, player and    *)
(* profile (game_server_sidecar.py resolve_seat, live_binding_catalog.py   *)
(* create_seat), and the recorder resolves the same profile from a         *)
(* registry of its own (recorder_bridge.py _expected_event).               *)
(***************************************************************************)
EXTENDS LiveCatalog

CONSTANTS
  Games,        \* a game and player
  Indexes       \* positions in a listing that a client may name

VARIABLES
  seats,        \* [game, snap, index] -> the adapters made for it since the service started
  served        \* history: <<key, adapter>> a callback was answered by, since then

vars == <<checkout, pub, disk, pointer, reg, request, advertised, faults,
          seats, served>>

Keys == [game : Games, snap : Commits, index : Indexes]
Recorder == "recorder"
ASSUME SeatSidecarAssumption == Recorder \in Readers

\* An adapter is told apart by the order it was made in; it keeps the lineage of
\* the files it was made from, which is the profile's when they are whole.
Adapter(k, n, from) ==
  [n |-> n, lineage |-> IF from = "whole" THEN <<Lineage(k.snap, k.index)>> ELSE << >>]

Init ==
  /\ CatalogInit
  /\ seats = [k \in Keys |-> << >>]
  /\ served = {}

-----------------------------------------------------------------------------
\* selection: the snapshot can be loaded and has that many profiles.
Selects(r, k) == MayLoad(r, k.snap) /\ k.index \in DOMAIN Tree[k.snap].active

LoadedFrom(r, c) ==
  LET held == reg[r].loaded IN
  IF Held(r, c) THEN held[Place(held, c)].from ELSE disk[c]

\* resolve_seat asks the live registry first, on every callback (404 when the
\* profile is unknown); the adapter that is there already is used as it is.
Finds(t) ==
  /\ request[t].at = "idle" /\ reg[Sidecar].up
  /\ \E k \in Keys :
       /\ k.snap \in advertised /\ Selects(Sidecar, k)
       /\ reg' = [reg EXCEPT ![Sidecar].loaded = Load(@, k.snap)]
       /\ IF seats[k] # << >>
            THEN served' = served \union {<<k, Last(seats[k])>>} /\ UNCHANGED request
            ELSE request' = [request EXCEPT ![t] = [at |-> "absent", arg |-> k]] /\ UNCHANGED served
  /\ UNCHANGED <<checkout, pub, disk, pointer, advertised, faults, seats>>

\* Variant: it does not look again under the lock.
MakesUnseen(t) ==
  LET k == request[t].arg IN
  /\ request[t].at = "absent"
  /\ request' = [request EXCEPT ![t] = NoRequest]
  /\ IF Selects(Sidecar, k)
       THEN LET a == Adapter(k, Len(seats[k]) + 1, LoadedFrom(Sidecar, k.snap)) IN
            /\ reg' = [reg EXCEPT ![Sidecar].loaded = Load(@, k.snap)]
            /\ seats' = [seats EXCEPT ![k] = Append(@, a)]
            /\ served' = served \union {<<k, a>>}
       ELSE UNCHANGED <<reg, seats, served>>
  /\ UNCHANGED <<checkout, pub, disk, pointer, advertised, faults>>

\* Under the seat lock it looks again, and makes the adapter if it is still absent;
\* the profile may no longer load (422).
Makes(t) ==
  LET k == request[t].arg IN
  /\ request[t].at = "absent"
  /\ request' = [request EXCEPT ![t] = NoRequest]
  /\ IF seats[k] # << >>
       THEN served' = served \union {<<k, Last(seats[k])>>} /\ UNCHANGED <<reg, seats>>
       ELSE IF Selects(Sidecar, k)
         THEN LET a == Adapter(k, Len(seats[k]) + 1, LoadedFrom(Sidecar, k.snap)) IN
              /\ reg' = [reg EXCEPT ![Sidecar].loaded = Load(@, k.snap)]
              /\ seats' = [seats EXCEPT ![k] = Append(@, a)]
              /\ served' = served \union {<<k, a>>}
         ELSE UNCHANGED <<reg, seats, served>>
  /\ UNCHANGED <<checkout, pub, disk, pointer, advertised, faults>>

\* The recorder builds what it expects of a callback from its own registry, a
\* seat of its own each time.
Expected(k) == Adapter(k, 0, LoadedFrom(Recorder, k.snap)).lineage

Expects ==
  /\ reg[Recorder].up
  /\ \E k \in {s[1] : s \in served} :
       /\ Selects(Recorder, k)
       /\ reg' = [reg EXCEPT ![Recorder].loaded = Load(@, k.snap)]
  /\ UNCHANGED <<checkout, pub, disk, pointer, request, advertised, faults, seats, served>>

-----------------------------------------------------------------------------
\* A service dies: its registry, its seats and its request threads with it.
Dies(r) ==
  /\ reg[r].up /\ faults < MaxFaults /\ faults' = faults + 1
  /\ reg' = [reg EXCEPT ![r] = Down]
  /\ IF r = Sidecar
       THEN /\ request' = [t \in Threads |-> NoRequest]
            /\ seats' = [k \in Keys |-> << >>] /\ served' = {}
       ELSE UNCHANGED <<request, seats, served>>
  /\ UNCHANGED <<checkout, pub, disk, pointer, advertised>>

Next ==
  \/ CatalogNext /\ UNCHANGED <<seats, served>>
  \/ \E t \in Threads : Finds(t) \/ Makes(t)
  \/ Expects
  \/ \E r \in Readers : Dies(r)

Spec ==
  /\ Init /\ [][Next]_vars
  /\ CatalogFairness
  /\ \A t \in Threads : WF_vars(Makes(t))

-----------------------------------------------------------------------------
(* Properties.                                                             *)

\* "A rejected pull must not prevent restart with a valid prior catalog"
\* (publish_binding_catalog.py): whatever the publisher was doing when it died or
\* refused, what current.json selects is there, whole and loads, unless somebody
\* changed its files.
PriorSurvives ==
  pointer \in Commits /\ disk[pointer] # "spoiled" =>
    Verified(pointer) /\ pointer \in Loadable

\* Between two starts of the sidecar, one game, player and profile have one
\* adapter, whichever threads asked for it first: the pilot's memory, its leases
\* and its turn order live in it (resolve_seat).
OneSeatPerKey ==
  \A s, u \in served : s[1] = u[1] => s[2] = u[2]

\* The sidecar and the recorder, each with a cache of its own and restarted at
\* other times, take a profile id for the same binding, deck and pilot, through
\* later publications, evictions and files changed on disk: the recorder refuses
\* a callback whose lineage is not the one it resolved itself.
SameSelection ==
  reg[Recorder].up =>
    \A s \in served : Selects(Recorder, s[1]) => Expected(s[1]) = s[2].lineage

\* What a player was shown is what plays, for the whole game, and what is recorded.
SeatsAreStable == OneSeatPerKey /\ SameSelection

\* When the checkout rests at a commit that is accepted and nobody spoils the
\* store, the sidecar ends up listing that commit and no other: a thread that read
\* the pointer before the last publication may put the registry back to the older
\* catalog, for a while only (refresh).
EventuallyServed ==
  \A c \in Commits :
    <>[](/\ checkout.head = c /\ checkout.clean /\ Accepted(c)
         /\ disk[c] # "spoiled" /\ pointer # "broken")
    => <>[](reg[Sidecar].current = c)

=============================================================================
