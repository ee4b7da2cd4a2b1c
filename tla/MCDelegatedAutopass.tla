------------------------- MODULE MCDelegatedAutopass -------------------------
(* Two calls of the seat, with a recorder and without; both boundaries; one or *)
(* two passes for a wait; none or one change made by others.                   *)
EXTENDS DelegatedAutopass

C(named, declarative, recorded, until, max, n, t) ==
  [named |-> named, declarative |-> declarative, recorded |-> recorded,
   until |-> until, max |-> max, changes |-> n, turns |-> t]
MCConfs ==
  {C(TRUE, TRUE, TRUE, "phase_end", 1, 1, 1), C(FALSE, FALSE, TRUE, "next_own_main", 2, 1, 1),
   C(TRUE, TRUE, TRUE, "next_own_main", 2, 0, 2), C(FALSE, FALSE, FALSE, "phase_end", 1, 0, 0)}
=============================================================================
