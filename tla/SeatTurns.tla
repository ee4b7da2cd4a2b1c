----------------------------- MODULE SeatTurns -----------------------------
(***************************************************************************)
(* What the recorder bridge promises about the callbacks of a game's       *)
(* seats, whatever is retried, lost, answered late or restarted: the pilot *)
(* is asked about a callback only once the callback and the start of its   *)
(* decision are on record, about one callback of a seat at a time, and the *)
(* engine gets its choice only once that choice is on record.              *)
(***************************************************************************)
CONSTANTS
  Callbacks,   (* callbacks of the game's seats                            *)
  SeatOf(_)    (* the seat a callback belongs to                           *)

VARIABLES
  phase,       (* how far the record of each callback has come             *)
  asked,       (* callbacks some pilot has been asked about                *)
  chosen       (* callbacks whose choice the engine has received           *)

vars == <<phase, asked, chosen>>

Init ==
  /\ phase = [c \in Callbacks |-> "none"]
  /\ asked = {} /\ chosen = {}

Advance(c, from, to) ==
  /\ phase[c] = from
  /\ phase' = [phase EXCEPT ![c] = to]
  /\ UNCHANGED <<asked, chosen>>

Start(c) ==
  /\ \A d \in Callbacks : SeatOf(d) = SeatOf(c) => phase[d] # "started"
  /\ Advance(c, "registered", "started")

(* A pilot may be asked after the engine gave up on the callback, but      *)
(* never about a callback that is already recorded as finished.            *)
Ask(c) ==
  /\ phase[c] = "started" /\ c \notin asked
  /\ asked' = asked \cup {c} /\ UNCHANGED <<phase, chosen>>

Finish(c) == c \in asked /\ Advance(c, "started", "finished")

Choose(c) ==
  /\ phase[c] = "finished" /\ c \notin chosen
  /\ chosen' = chosen \cup {c} /\ UNCHANGED <<phase, asked>>

Next ==
  \E c \in Callbacks :
    Advance(c, "none", "registered") \/ Start(c) \/ Ask(c) \/ Finish(c) \/ Choose(c)

Spec == Init /\ [][Next]_vars
=============================================================================
