----------------------------- MODULE MCSeatSidecar -----------------------------
EXTENDS SeatSidecar

\* c0 is the release's catalog; c1 offers a second binding and a new revision of
\* the first; c2 pins a deck whose fingerprint is not in its tree and a pilot that
\* is not installed.
Ref(id, rev, fp) == [id |-> id, rev |-> rev, fp |-> fp]
Binding(id, rev, deck, pilot) ==
  [ref |-> Ref(id, rev, <<id, rev>>), deck |-> deck, pilot |-> pilot, knowledge |-> None]

D1 == Ref("deck", "r1", "fd1")
D2 == Ref("deck", "r1", "fd2")
P1 == Ref("pilot", "r1", "fp1")
P2 == Ref("pilot", "r2", "fp2")

TreeOf(active, bindings, pilots) ==
  [schema |-> TRUE, plain |-> TRUE, active |-> active, bindings |-> bindings,
   decks |-> {[ref |-> D1, payload |-> TRUE, legal |-> TRUE]},
   pilots |-> {[ref |-> p] : p \in pilots}, knowledge |-> {}]

MCTree ==
  [c \in {"c0", "c1", "c2"} |->
    CASE c = "c0" -> TreeOf(<<"a">>, {Binding("a", "r1", D1, P1)}, {P1})
      [] c = "c1" -> TreeOf(<<"b", "a">>,
                            {Binding("a", "r2", D1, P1), Binding("b", "r1", D1, P1)}, {P1})
      [] c = "c2" -> TreeOf(<<"a">>, {Binding("a", "r3", D2, P2)}, {P1, P2})]

=============================================================================
