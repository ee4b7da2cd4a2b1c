-------------------------- MODULE MCNativeCapture --------------------------
(* A recorder that fails, dies or is stopped and starts again: one game    *)
(* with a choice and all of that twice, or two games without choices.      *)
EXTENDS NativeCapture

CONSTANT c1

OneGame ==
  [games |-> 1, callbacks |-> {c1}, recorded |-> Recorded, source |-> 3, rows |-> 9,
   kinds |-> {"failed", "crashed"}, faults |-> 2, boots |-> 1]

TwoGames ==
  [games |-> 2, callbacks |-> {}, recorded |-> {"initialization", "terminal"}, source |-> 2,
   rows |-> 6, kinds |-> {"failed"}, faults |-> 1, boots |-> 0]

MCBounds == {OneGame, TwoGames}
=============================================================================
