-------------------------- MODULE MCRecorderBridge -------------------------
(* Model checking of RecorderBridge.  One seat, so no symmetry to use: two *)
(* turns with one failed write or death, or one turn with any three faults.*)
EXTENDS RecorderBridge

MCBounds ==
  {[turns |-> 2, kinds |-> {"write", "death"}, faults |-> 1],
   [turns |-> 1, kinds |-> AllKinds, faults |-> 3]}
=============================================================================
