-------------------------------- MODULE MCStores --------------------------------
(* What is kept on disk and shares nothing: a behaviour gives work to one of *)
(* three stores, the custody of recordings, the recorder's heartbeat, or the *)
(* qualification of a runtime in a guest.                                    *)
EXTENDS EvidenceStore, CardLibrary, ImprovementLedger, CaptureCustody, RecordingHealth,
        QaTransaction

\* The evidence store.
\* Records by name: sound ones, ones that share an identity with another, and ones
\* whose parts do not join.  X marks a record no store may accept.
MCLib ==
  [ e1 |-> Run("r1", "completed", <<"d1", "d2", "d3">>),
    e1b |-> Run("r1", "failed", <<"d1">>),
    e2 |-> Run("r2", "failed", <<"d4">>),
    eX |-> [Run("r3", "completed", <<"d5", "d6">>) EXCEPT !.ids = <<"d6", "d5">>],
    n1 |-> Note(1, "d1", {}),
    n2 |-> Note(2, "d1", {"n1"}),
    nX |-> Note(3, "d9", {}),
    d |-> Dataset([train |-> Split("train", "e1", {"d1"}), val |-> Split("validation", "e1", {"d2"}),
                      test |-> Split("frozen_test", "e1", {"d3"})], {"n2"}),
    dswap |-> Dataset([train |-> Split("train", "e1", {"d3"}), val |-> Split("validation", "e1", {"d2"}),
            test |-> Split("frozen_test", "e1", {"d1"})], {}),
    dX |-> [Dataset([train |-> Split("train", "e2", {"d4"})], {}) EXCEPT !.id = "DX"],
    b1 |-> Bytes(1),
    b2 |-> Bytes(2),
    m |-> [kind |-> "model", id |-> "M", datasets |-> {"d"}, artifacts |-> {"b1"}],
    c1 |-> Candidate("b1"),
    c2 |-> Candidate("b2"),
    q |-> Qualification(1, "c1", "d", "test", TRUE),
    qfail |-> Qualification(2, "c1", "d", "test", FALSE),
    qtrain |-> Qualification(3, "c1", "d", "train", TRUE),
    qswap |-> Qualification(4, "c1", "dswap", "test", TRUE),
    q2 |-> Qualification(5, "c2", "d", "test", TRUE) ]

Plan(stored, writes, final) == [given |-> stored, todo |-> writes, wanted |-> final]
Alone(stored, writes, final) == Plan(stored, (1 :> writes), (1 :> final))

MCPlans ==
  { Alone({}, <<"n1", "eX", "e1b", "e2", "dX">>, <<"e2">>),
    Alone({}, <<"e1", "n2", "n1", "nX", "d", "dswap">>, <<"n2">>),
    Alone({"e1", "n1", "n2", "b1"}, <<"dswap", "d", "c1", "qfail", "q">>, <<"c1", "q">>),
    Alone({"e1", "n1", "n2", "d", "b1"}, <<"b2", "m", "qtrain", "c1", "c2", "q2">>, <<"b2", "m">>),
    Plan({"e1", "n1", "n2", "b1", "b2"}, (1 :> <<"d", "c1">>) @@ (2 :> <<"m", "c2", "q2">>),
         (1 :> <<>>) @@ (2 :> <<"m">>)) }

\* The card library.
Face(oid, name, edhrec) == [oid |-> oid, name |-> name, edhrec |-> edhrec]
Printing(id, day, layout, oid, name, edhrec, faces) ==
  [id |-> id, en |-> TRUE, digital |-> FALSE, day |-> day, layout |-> layout,
   oid |-> oid, name |-> name, edhrec |-> edhrec, faces |-> faces]
Ordinary(id, day, oid, name, edhrec) == Printing(id, day, "normal", oid, name, edhrec, << >>)

\* A card and a token of one name, a card of two faces, a card named like a face.
Old == Ordinary(1, 1, 1, <<2>>, 5)
New == Ordinary(2, 2, 1, <<2>>, None)
Abroad == [Ordinary(3, 3, 1, <<2>>, 1) EXCEPT !.en = FALSE]
Token == Ordinary(4, 1, 2, <<2>>, None)
Flip(id, oid, back) == Printing(id, 1, "transform", oid, <<1, back>>, 5,
                                <<Face(None, <<1>>, None), Face(None, <<back>>, None)>>)
Both == Printing(7, 4, "reversible", None, <<2, 4>>, None, <<Face(1, <<2>>, 3), Face(4, <<4>>, None)>>)
Same == Printing(8, 4, "reversible", None, <<4, 4>>, None, <<Face(4, <<4>>, 2), Face(4, <<4>>, None)>>)
Single == Ordinary(9, 1, 5, <<1>>, None)

Listing(bytes, rows, rulings) ==
  [bytes |-> bytes, rows |-> rows, rulings |-> rulings, tags |-> {[members |-> {1}]}]
MCFeed == <<Listing("a", <<New, Abroad, Token, Flip(5, 3, 3), Old>>, {1}),
            Listing("b", <<Old, Flip(5, 3, 3), Both, Flip(6, 6, 4), Same>>, {3}),
            Listing("c", <<Old, Single, Flip(5, 3, 3)>>, {2}),
            Listing("a", <<New, Abroad, Token, Flip(5, 3, 3), Old>>, {1}),
            Listing("d", <<Single, Flip(5, 3, 3), Both, New>>, {5})>>

Query(sort, minimum, name, covered) ==
  [sort |-> sort, minimum |-> minimum, name |-> name, covered |-> covered]
MCQueries == {Query("name", None, None, FALSE), Query("edhrec", None, None, FALSE),
              Query("edhrec", 5, None, FALSE), Query("name", None, <<2>>, TRUE)}
MCExports == {{<<1>>, <<2>>}}
Library(revisions, loaders, readers) ==
  [revisions |-> revisions, loaders |-> loaders, readers |-> readers]
MCLibraries == {Library(<<1, 3, 2, 4>>, {1, 2}, {}), Library(<<1, 2>>, {1}, {"r"}),
                Library(<<2, 5>>, {1}, {"r"})}

\* The improvement ledger.
Source(key, group, artifacts, complete, low) ==
  [key |-> key, group |-> group, artifacts |-> artifacts, complete |-> complete, low |-> low]
First == Source("k1", "g1", {"a1"}, TRUE, FALSE)
Second == Source("k2", "g2", {"a2"}, TRUE, FALSE)
HeldOut == Source("k3", "g3", {"h"}, TRUE, FALSE)
Weak == Source("k4", "g2", {"a3"}, TRUE, TRUE)

MCCases == {[category |-> c[1], findings |-> c[2]] :
              c \in {<<"model_judgment", {First, Second}>>, <<"model_judgment", {First, Weak}>>,
                     <<"engine_rules", {Second, HeldOut}>>}}
Fixture(artifact, group) == [artifact |-> artifact, group |-> group]
Base == {Fixture("b", "base")}
Out(group) == {Fixture("h", group)}
Criterion == [metric |-> "timeouts", direction |-> "decrease", minimum |-> 1]
Hypothesis(out) == [baseline |-> Base, heldOut |-> out, scope |-> {"prompt"}, criteria |-> {Criterion}]
Change(reviewer, scope) == [author |-> "ann", reviewer |-> reviewer, scope |-> scope, commit |-> "c1"]
Measure(commit, change) ==
  [commit |-> commit, baseline |-> Base, heldOut |-> Out("out"),
   metrics |-> {[metric |-> "timeouts", change |-> change]}]
Why == [reason |-> "a reason"]
MCDetails ==
  [hypothesis |-> {Hypothesis(Out("out")), Hypothesis(Out("g2"))},
   reproduced |-> {[baselineFailed |-> TRUE]},
   implementation_validated |-> {Change("bob", {"prompt"}), Change("ann", {"prompt"}), Change("bob", {"rules"})},
   measured |-> {Measure("c1", -1), Measure("c1", 1), Measure("c2", -1)},
   adopted |-> {Why}, rejected |-> {Why}, rolled_back |-> {Why}]

\* The custody of recordings: two registries of one process, and two trees.
MCCustodies == {[registries |-> {"r1", "r2"}, changes |-> 0], [registries |-> {}, changes |-> 2]}
MCPlaces == {<<1, "a">>, <<1, "b">>, <<2, "a">>}

-----------------------------------------------------------------------------
NoPlan == Plan({}, <<>>, <<>>)
NoLibrary == Library(<<1>>, {}, {})
NoCase == [category |-> "engine_rules", findings |-> {}]
NoCustody == [registries |-> {}, changes |-> 0]
AllPlans == MCPlans \cup {NoPlan}
AllLibraries == MCLibraries \cup {NoLibrary}
AllCases == MCCases \cup {NoCase}
AllCustodies == MCCustodies \cup {NoCustody}
AllBeats == {-1, 2}
AllAttempts == {-1, 3}

\* One of them has work.
MCInit ==
  /\ Init /\ LibraryInit /\ ImprovementInit /\ CustodyInit /\ HealthInit /\ QaInit
  /\ LET idle == <<plan = NoPlan, library = NoLibrary, improvement = NoCase, custody = NoCustody, beats = -1, qaAttempts = -1>>
     IN Cardinality({i \in 1..6 : ~idle[i]}) = 1
MCNext ==
  \/ /\ plan # NoPlan /\ Next
     /\ UNCHANGED <<libraryVars, improvementVars, custodyVars, healthVars, qaVars>>
  \/ /\ library # NoLibrary /\ LibraryNext
     /\ UNCHANGED <<vars, improvementVars, custodyVars, healthVars, qaVars>>
  \/ /\ improvement # NoCase /\ ImprovementNext
     /\ UNCHANGED <<vars, libraryVars, custodyVars, healthVars, qaVars>>
  \/ /\ custody # NoCustody /\ CustodyNext
     /\ UNCHANGED <<vars, libraryVars, improvementVars, healthVars, qaVars>>
  \/ /\ beats # -1 /\ HealthNext
     /\ UNCHANGED <<vars, libraryVars, improvementVars, custodyVars, qaVars>>
  \/ /\ qaAttempts # -1 /\ QaNext
     /\ UNCHANGED <<vars, libraryVars, improvementVars, custodyVars, healthVars>>
MCSpec ==
  MCInit /\ [][MCNext]_<<vars, libraryVars, improvementVars, custodyVars, healthVars, qaVars>> /\ Fairness

\* What a custodian says of the recordings is so, and the runtime that is qualified
\* is the one selected: a recording that was left as it is, listed or reported is what
\* is said of it; games are admitted by the selected runtime only, and its files are
\* changed at rest only, never after a game can have been admitted.
CustodyHolds ==
  [](AcknowledgedIsHeld /\ InventoryIsOneTree /\ HeartbeatsAreSound /\ QaServesSelected) /\ QaKeepsAdmitted
=============================================================================
