--------------------------- MODULE RuntimeSwitch ---------------------------
(***************************************************************************)
(* What the manual runtime rollout promises to the people who play: games  *)
(* are admitted only while the table is open, the runtime that serves them *)
(* changes only while it is closed and no game is left, every change takes *)
(* a later sequence number, and a change is taken back only if it never    *)
(* admitted anybody.                                                       *)
(***************************************************************************)
EXTENDS Naturals

CONSTANT
  Runtimes     (* approved runtimes                                        *)

VARIABLES
  runtime,       (* the selected runtime                                   *)
  before,        (* the runtime it took over from                          *)
  sequence,      (* the number of the change                               *)
  used,          (* whether games have been admitted since the change      *)
  open, games    (* whether games are admitted now; games in progress      *)

vars == <<runtime, before, sequence, used, open, games>>

selection == <<runtime, before, sequence>>

Init ==
  /\ runtime \in Runtimes /\ before = runtime /\ sequence = 1
  /\ ~used /\ ~open /\ games = 0

Admit == open' = TRUE /\ used' = TRUE /\ UNCHANGED <<selection, games>>

Close == open' = FALSE /\ UNCHANGED <<selection, used, games>>

GameStarts == open /\ games' = games + 1 /\ UNCHANGED <<selection, used, open>>

GameEnds == games > 0 /\ games' = games - 1 /\ UNCHANGED <<selection, used, open>>

(* The server dies, and its games with it.                                 *)
Dies == open' = FALSE /\ games' = 0 /\ UNCHANGED <<selection, used>>

Switch ==
  /\ ~open /\ games = 0
  /\ runtime' \in Runtimes /\ before' = runtime /\ sequence' = sequence + 1
  /\ used' = FALSE /\ UNCHANGED <<open, games>>

TakeBack ==
  /\ ~open /\ games = 0 /\ ~used
  /\ runtime' = before /\ UNCHANGED <<before, sequence, used, open, games>>

(* The change fails before it takes effect: its number is used up.         *)
Skip ==
  /\ ~open /\ games = 0
  /\ before' = runtime /\ sequence' = sequence + 1
  /\ used' = FALSE /\ UNCHANGED <<runtime, open, games>>

Next == Admit \/ Close \/ GameStarts \/ GameEnds \/ Dies \/ Switch \/ TakeBack \/ Skip

Spec == Init /\ [][Next]_vars
=============================================================================
