--------------------------- MODULE SpendingMeter ---------------------------
(***************************************************************************)
(* What the run budget promises whoever pays: however many processes ask,  *)
(* fail and restart, what the provider has charged stays within the cap    *)
(* and the number of requests it was sent within the limit, both of which  *)
(* only an explicit authorization raises.                                  *)
(***************************************************************************)
EXTENDS Integers

CONSTANT
  NoLimit      (* the limit while requests are not limited                 *)

VARIABLES
  spent, sent,     (* what was charged; requests that were dispatched      *)
  cap, limit       (* the authorized amounts                               *)

vars == <<spent, sent, cap, limit>>

Init == spent = 0 /\ sent = 0 /\ cap = 0 /\ limit = NoLimit

Charge ==
  /\ \E cost \in 0..(cap - spent) : spent' = spent + cost
  /\ limit # NoLimit => sent < limit
  /\ sent' = sent + 1 /\ UNCHANGED <<cap, limit>>

Authorize ==
  /\ cap' \in Nat /\ cap' >= cap
  /\ \/ limit' = limit
     \/ limit' \in Nat /\ limit' >= sent /\ (limit # NoLimit => limit' > limit)
  /\ UNCHANGED <<spent, sent>>

Next == Charge \/ Authorize

Spec == Init /\ [][Next]_vars
=============================================================================
