------------------------------ MODULE GameBatch ------------------------------
(***************************************************************************)
(* Three paid games, played once each, by three controllers that take over *)
(* from one another: the batch (scripts/run_sequential_v7_batch.py), the   *)
(* continuation of a batch that stopped at its first game                  *)
(* (run_v7_batch_continuation.py), and the last attempt at the third game  *)
(* (run_v7_final_attempt3.py).  Each keeps a folder: a manifest with the   *)
(* ledger as it found it, a cursor, and a receipt per game.  The cursor    *)
(* says "inflight" before a game is dispatched and never goes back from    *)
(* there unless the controller that dispatched it has written the receipt. *)
(*                                                                         *)
(* Operators may start any number of controllers, in any order; the        *)
(* runtime lock admits one.  A controller that is killed drops its lock    *)
(* while the game it started plays on: the game has a session of its own.  *)
(***************************************************************************)
EXTENDS PodGame

CONSTANTS
  Controllers,   \* operators' processes
  Dirs           \* folders a continuation may be started in

\* The batch has three games; a continuation is in a folder of its own.
ASSUME BatchAssumption == Games = 1..3 /\ Dirs \cap {"batch", "final"} = {}

VARIABLES
  lock,      \* the runtime lock: {} or {controller}
  ctl,       \* per controller: where it is, its folder and what it holds in memory
  disk,      \* per folder: manifest, cursor, receipts, artifacts
  claim,     \* the continuation's claim on games 2 and 3: {} or {folder}
  last,      \* the claim of the final attempt exists
  launched   \* history: how often each game was dispatched

batchVars == <<lock, ctl, disk, claim, last, launched>>
allVars == <<podVars, batchVars>>
files == <<disk, claim, last>>

Folders == {"batch", "final"} \cup Dirs
First(f) == CASE f = "batch" -> 1 [] f = "final" -> 3 [] OTHER -> 2
Last == 3

NoReceipt == [qualified |-> FALSE, before |-> None, after |-> None]
NoCursor == [status |-> "none", next |-> 0]
NoFolder == [manifest |-> None, cursor |-> NoCursor,
             receipts |-> [g \in Games |-> NoReceipt], artifacts |-> {}]
NoController == [at |-> "idle", in |-> "batch", next |-> 0, start |-> None,
                 current |-> None, before |-> None]

BatchInit ==
  /\ PodInit
  /\ lock = {} /\ ctl = [p \in Controllers |-> NoController]
  /\ disk = [f \in Folders |-> NoFolder] /\ claim = {} /\ last = FALSE
  /\ launched = [g \in Games |-> 0]

In(p) == ctl[p].in
Turn(p) == ctl[p].next
Is(p, place) == ctl[p].at = place
MovesTo(p, place) == ctl' = [ctl EXCEPT ![p].at = place]
\* run_batch and its likes return or raise: the lock is released.
Leaves(p) == ctl' = [ctl EXCEPT ![p] = NoController] /\ lock' = lock \ {p}

Received(f, g) == disk[f].receipts[g] # NoReceipt
Exhausted == budget.requests >= MaxRequests

-----------------------------------------------------------------------------
(* Opening a folder under the lock. *)

\* The folder stopped at game g, with a receipt that does not qualify it, and
\* nothing of a later game was begun there.
StoppedAt(f, g) ==
  /\ disk[f].cursor = [status |-> "stopped", next |-> g]
  /\ Received(f, g) /\ ~disk[f].receipts[g].qualified
  /\ \A h \in Games : h > g => ~Received(f, h) /\ h \notin disk[f].artifacts

\* The ledger a new folder must start from: the authorized one, or the one the
\* preceding folder's last receipt was closed with.
StartsFrom(f) ==
  CASE f = "batch" -> [requests |-> 0, unsettled |-> 0]
    [] f = "final" -> IF claim = {} THEN None
                      ELSE disk[CHOOSE d \in claim : TRUE].receipts[2].after
    [] OTHER       -> disk["batch"].receipts[1].after

\* _read_original and _prior_lineage.
Entitled(f) ==
  /\ f # "batch" => StoppedAt("batch", 1)
  /\ f = "final" => \E d \in claim : StoppedAt(d, 2)

Claimed(f) ==
  CASE f = "batch" -> FALSE [] f = "final" -> last [] OTHER -> claim # {}

MayResume(f) ==
  /\ f # "final" /\ Entitled(f)
  /\ disk[f].manifest # None /\ disk[f].cursor # NoCursor
  /\ f \in Dirs => claim = {f}

MayFreeze(f) ==
  /\ Entitled(f) /\ disk[f] = NoFolder /\ ~Claimed(f)
  /\ Snapshot = StartsFrom(f)
  /\ f = "batch" => budget.limit = "old" /\ budget.cap = "old"
  /\ f = "final" => ~Exhausted

\* flock without waiting, then the folder and the ledger: a controller that finds the
\* lock taken, or that may neither resume the folder nor begin it, is refused.
Opens(p, f) ==
  /\ Is(p, "idle") /\ lock = {} /\ lock' = {p}
  /\ \/ /\ MayResume(f)
        /\ ctl' = [ctl EXCEPT ![p].at = "resuming", ![p].in = f]
     \/ /\ ~MayResume(f) /\ MayFreeze(f)
        /\ ctl' = [ctl EXCEPT ![p].at = IF f = "batch" THEN "freezing" ELSE "claiming",
                              ![p].in = f, ![p].start = Snapshot]
  /\ UNCHANGED <<podVars, files, launched>>

\* _private_json creates the claim and refuses to replace one.
Claims(p) ==
  /\ Is(p, "claiming") /\ MovesTo(p, "freezing")
  /\ IF In(p) = "final" THEN last' = TRUE /\ UNCHANGED claim
     ELSE claim' = {In(p)} /\ UNCHANGED last
  /\ UNCHANGED <<podVars, lock, disk, launched>>

Freezes(p) ==
  /\ Is(p, "freezing") /\ MovesTo(p, "pointing")
  /\ disk' = [disk EXCEPT ![In(p)].manifest = ctl[p].start]
  /\ UNCHANGED <<podVars, lock, claim, last, launched>>

Ready(g) == [status |-> "ready", next |-> g]

\* The first cursor.  The last attempt goes straight on, with the ledger it froze.
Points(p) ==
  /\ Is(p, "pointing")
  /\ disk' = [disk EXCEPT ![In(p)].cursor = Ready(First(In(p)))]
  /\ ctl' = IF In(p) = "final"
            THEN [ctl EXCEPT ![p].at = "looping", ![p].next = Last, ![p].current = ctl[p].start]
            ELSE [ctl EXCEPT ![p].at = "resuming"]
  /\ UNCHANGED <<podVars, lock, claim, last, launched>>

\* What the ledger must be when game g of a folder is next.
LedgerBefore(f, g) ==
  IF g = First(f) THEN disk[f].manifest ELSE disk[f].receipts[g - 1].after

\* Variant: a resumed folder takes the ledger as it finds it.
ResumesAnywhere(p) ==
  /\ Is(p, "resuming")
  /\ LET g == disk[In(p)].cursor.next
     IN  IF disk[In(p)].cursor.status = "ready"
         THEN /\ ctl' = [ctl EXCEPT ![p].at = IF In(p) = "batch" THEN "limiting" ELSE "looping",
                                    ![p].next = g, ![p].current = Snapshot]
              /\ UNCHANGED lock
         ELSE Leaves(p)
  /\ UNCHANGED <<podVars, files, launched>>
\* Resuming: the cursor is ready, the earlier receipts qualify and follow from one
\* another, and nobody has spent since the last of them.
Resumes(p) ==
  /\ Is(p, "resuming")
  /\ LET f == In(p) g == disk[In(p)].cursor.next
     IN  IF /\ disk[f].cursor.status = "ready"
            /\ \A h \in First(f)..(g - 1) :
                 disk[f].receipts[h].qualified
                 /\ (f \in Dirs => disk[f].receipts[h].before = LedgerBefore(f, h))
            /\ Snapshot = LedgerBefore(f, g)
         THEN /\ ctl' = [ctl EXCEPT ![p].at = IF f = "batch" THEN "limiting" ELSE "looping",
                                    ![p].next = g, ![p].current = LedgerBefore(f, g)]
              /\ UNCHANGED lock
         ELSE Leaves(p)
  /\ UNCHANGED <<podVars, files, launched>>

\* set_request_limit, then increase_cap, each once and only before the first game;
\* the ledger each of them returns is what the batch compares with from then on.
Raises(p, at, what, then) ==
  /\ Is(p, at)
  /\ IF budget[what] = "new"
     THEN MovesTo(p, then) /\ UNCHANGED <<budget, lock>>
     ELSE IF Turn(p) # 1 THEN Leaves(p) /\ UNCHANGED budget
     ELSE /\ budget' = [budget EXCEPT ![what] = "new"]
          /\ ctl' = [ctl EXCEPT ![p].at = then, ![p].current = Snapshot]
          /\ UNCHANGED lock
  /\ UNCHANGED <<game, strangers, faults, files, launched>>
RaisesLimit(p) == Raises(p, "limiting", "limit", "capping")
RaisesCap(p)   == Raises(p, "capping", "cap", "looping")

-----------------------------------------------------------------------------
(* One game. *)

\* The ledger is compared once more; a spent budget stops the folder; a game that
\* has artifacts is not played.  The cursor says inflight before anything is sent.
Loops(p) ==
  /\ Is(p, "looping")
  /\ LET f == In(p) g == Turn(p)
     IN  IF g > Last \/ Snapshot # ctl[p].current
         THEN Leaves(p) /\ UNCHANGED disk
         ELSE IF Exhausted
         THEN /\ Leaves(p)
              /\ disk' = [disk EXCEPT ![f].cursor = [status |-> "stopped", next |-> g]]
         ELSE IF g \in disk[f].artifacts
         THEN Leaves(p) /\ UNCHANGED disk
         ELSE /\ ctl' = [ctl EXCEPT ![p].at = "launching", ![p].before = Snapshot]
              /\ disk' = [disk EXCEPT ![f].cursor = [status |-> "inflight", next |-> g]]
              /\ UNCHANGED lock
  /\ UNCHANGED <<podVars, claim, last, launched>>

\* launch_one_game: the log is created, and the launcher starts in its own session.
Launches(p) ==
  /\ Is(p, "launching") /\ MovesTo(p, "waiting")
  /\ LET g == Turn(p)
     IN  /\ game' = [game EXCEPT ![g] =
                       [NoGame EXCEPT !.at = "checking", !.expected = ctl[p].before]]
         /\ disk' = [disk EXCEPT ![In(p)].artifacts = @ \cup {g}]
         /\ launched' = [launched EXCEPT ![g] = @ + 1]
  /\ UNCHANGED <<budget, strangers, faults, lock, claim, last>>

\* The launcher ends, or a signal asks the controller to stop: _stop_and_verify_group
\* returns when nothing of the game is left.  After a signal nothing is verified.
StopsGroup(p) ==
  /\ Is(p, "waiting")
  /\ LET g == Turn(p)
     IN  /\ \/ game[g].at \in {"exited", "dead"} /\ MovesTo(p, "verifying") /\ UNCHANGED <<lock, faults>>
            \/ Fault /\ Leaves(p)
         /\ game' = [game EXCEPT ![g].services = FALSE,
                                 ![g].at = IF @ = "exited" THEN "exited" ELSE "dead"]
  /\ UNCHANGED <<budget, strangers, files, launched>>

\* _verify_game: the ledger moved by what the game says and by what its rows show,
\* everything is settled, and the game ended by itself at the first try.
Verifies(g, before, start) ==
  LET r == game[g].result
      delta == budget.requests - before.requests
  IN  /\ game[g].printed /\ r.completed /\ r.terminal /\ r.finalized /\ r.clean
      /\ r.recorded = delta /\ r.spent = delta /\ game[g].rows = delta
      /\ r.total = budget.requests /\ r.unsettled = budget.unsettled
      /\ budget.unsettled = before.unsettled /\ budget.unsettled = start.unsettled
      /\ budget.requests <= MaxRequests
      /\ game[g].at = "exited" /\ Qualifies(g)

\* What cannot be read, or what changed during the game, ends the controller: no receipt.
Unverified(p) ==
  /\ Is(p, "verifying") /\ Fault /\ Leaves(p)
  /\ UNCHANGED <<budget, game, strangers, files, launched>>

Receives(p) ==
  /\ Is(p, "verifying") /\ MovesTo(p, "closing")
  /\ LET f == In(p) g == Turn(p)
     IN  disk' = [disk EXCEPT ![f].receipts[g] =
           [qualified |-> Verifies(g, ctl[p].before, disk[f].manifest),
            before |-> ctl[p].before, after |-> Snapshot]]
  /\ UNCHANGED <<podVars, lock, claim, last, launched>>

\* Nobody reads the artifacts of a game that has its receipt; what is kept of it here
\* is what the properties say of a qualified one.
Closed(c, qualified) ==
  IF qualified
  THEN [NoGame EXCEPT !.at = "exited", !.services = c.services, !.native = c.native,
                      !.rows = c.rows, !.made = c.made]
  ELSE [NoGame EXCEPT !.at = "exited", !.services = c.services]

\* The cursor moves on, or stops for good; the final attempt ends either way.
Closes(p) ==
  /\ Is(p, "closing")
  /\ LET f == In(p) g == Turn(p) r == disk[f].receipts[g]
     IN  IF r.qualified /\ f # "final"
         THEN /\ disk' = [disk EXCEPT ![f].cursor = Ready(g + 1)]
              /\ ctl' = [ctl EXCEPT ![p].at = "looping", ![p].next = g + 1, ![p].current = r.after]
              /\ UNCHANGED lock
         ELSE /\ disk' = [disk EXCEPT ![f].cursor =
                            [status |-> IF r.qualified THEN "completed" ELSE "stopped", next |-> g]]
              /\ Leaves(p)
  /\ game' = [game EXCEPT ![Turn(p)] = Closed(@, disk[In(p)].receipts[Turn(p)].qualified)]
  /\ UNCHANGED <<budget, strangers, faults, claim, last, launched>>

\* kill -9: the lock is gone, the game is not.
Killed(p) ==
  /\ ~Is(p, "idle") /\ Fault /\ Leaves(p)
  /\ UNCHANGED <<budget, game, strangers, files, launched>>

Step(p) ==
  \/ Claims(p) \/ Freezes(p) \/ Points(p) \/ Resumes(p)
  \/ RaisesLimit(p) \/ RaisesCap(p) \/ Loops(p) \/ Launches(p)
  \/ StopsGroup(p) \/ Unverified(p) \/ Receives(p) \/ Closes(p)

BatchNext ==
  \/ \E p \in Controllers : Step(p) \/ Killed(p) \/ \E f \in Folders : Opens(p, f)
  \/ (\E g \in Games : Launcher(g) \/ Services(g) \/ LauncherDies(g))
       /\ UNCHANGED batchVars
  \/ Stranger /\ UNCHANGED batchVars

\* A controller and the launcher it waits for go on; the harness has its deadlines.
Fairness ==
  /\ \A p \in Controllers : WF_allVars(Step(p))
  /\ \A g \in Games : WF_allVars(Launcher(g) /\ UNCHANGED batchVars)

BatchSpec == BatchInit /\ [][BatchNext]_allVars /\ Fairness

-----------------------------------------------------------------------------
(* What the three controllers promise together. *)

BatchTypeOK ==
  /\ budget \in [requests : 0..MaxRequests, unsettled : 0..MaxRequests,
                 limit : {"old", "new"}, cap : {"old", "new"}]
  /\ lock \subseteq Controllers /\ Cardinality(lock) <= 1
  /\ \A p \in Controllers : ctl[p].in \in Folders /\ (~Is(p, "idle") <=> p \in lock)
  /\ claim \subseteq Dirs /\ last \in BOOLEAN
  /\ \A g \in Games : launched[g] \in Nat /\ game[g].rows <= game[g].made

\* A qualified receipt accounts for its game exactly: the ledger moved by what this
\* game asked, every attempt of it is in its rows and settled, and nobody else's
\* request is among them.
QualifiedIsExact ==
  \A f \in Folders, g \in Games :
    disk[f].receipts[g].qualified =>
      LET r == disk[f].receipts[g]
      IN  /\ r.after.requests - r.before.requests = game[g].made
          /\ r.after.unsettled = r.before.unsettled
          /\ game[g].rows = game[g].made /\ game[g].native = "over" /\ ~Alive(g)

ReceiptsOf(g) == {disk[f].receipts[g] : f \in {f \in Folders : Received(f, g)}}

\* Across folders, a later game was begun only where the one before it has one
\* receipt, and its own receipt starts from the ledger that one was closed with.
\* (The first game's may start later than its manifest: see RaisesLimit.)
LineageIsWhole ==
  \A g \in Games \ {1} :
    /\ launched[g] > 0 => Cardinality(ReceiptsOf(g - 1)) = 1
    /\ \A r \in ReceiptsOf(g), s \in ReceiptsOf(g - 1) : r.before = s.after

\* No game is dispatched twice, whatever controllers are started or killed, and no
\* game plays beside another on the shared runtime.
PlayedOnce ==
  /\ \A g \in Games : launched[g] <= 1
  /\ Cardinality({g \in Games : Alive(g)}) <= 1

\* The three games are one sequence, each played at most once and accounted exactly, by
\* controllers that hold the runtime one at a time.
GamesFollow == BatchTypeOK /\ PlayedOnce /\ LineageIsWhole /\ QualifiedIsExact

\* A controller that holds the runtime gives it back, whatever its game does: the
\* harness, the launcher and the controller each end the wait for the next.
RuntimeIsFreed == \A p \in Controllers : p \in lock ~> p \notin lock
=============================================================================
