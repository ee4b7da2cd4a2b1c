------------------------------ MODULE Seat_proofs ------------------------------
(***************************************************************************)
(* What the catalog's publisher and the seats keep true, for any commits,  *)
(* services, request threads and sizes of the cache; and a callback that a *)
(* seat puts to a model, for any offer, window, pilot, number of attempts  *)
(* and budget, and any time limits in the order the code has them in.      *)
(***************************************************************************)
EXTENDS SeatSidecar, PilotCall, FiniteSetTheorems, SequenceTheorems, TLAPS

Selectable == Commits \cup {None, "broken"}
Loaded == [snap : Commits, from : {"whole"}]

(* What a registry loaded was whole when it was read: nothing else gets    *)
(* into the cache, and nothing in it changes.                              *)
CatalogOK ==
  /\ checkout.head \in Commits
  /\ pub \in [at : {"idle", "staging", "staged", "installed"}, head : Commits \cup {None}]
  /\ pub.at # "idle" => pub.head \in Commits
  /\ disk \in [Commits -> {"absent", "whole", "spoiled"}]
  /\ pointer \in Selectable
  /\ advertised \subseteq Commits
  /\ reg \in [Readers -> [up : BOOLEAN, loaded : Seq(Loaded), current : Commits \cup {None}]]

(* What a request thread holds at each step.                               *)
Requests ==
  {NoRequest} \cup [at : {"read", "loaded"}, arg : Commits]
  \cup [at : {"list"}, arg : Selectable] \cup [at : {"absent"}, arg : Keys]

RequestsOK == request \in [Threads -> Requests]

(* The publisher goes on only with what may be published, and selects only *)
(* what is in place.                                                       *)
PublishedOK ==
  /\ pub.at \in {"staged", "installed"} => pub.head \in Loadable
  /\ pub.at = "installed" => disk[pub.head] # "absent"
  /\ pointer \in Commits => disk[pointer] # "absent" /\ pointer \in Loadable

(* A key has one adapter at most, of the lineage of its profile, and only  *)
(* that adapter has served it.                                             *)
TheAdapter(k) == Adapter(k, 1, "whole")
SeatsOK ==
  /\ \A k \in Keys : seats[k] \in {<< >>, <<TheAdapter(k)>>}
  /\ \A s \in served : s[1] \in Keys /\ s = <<s[1], TheAdapter(s[1])>>
  /\ DOMAIN seats = Keys

IInv == CatalogOK /\ RequestsOK /\ PublishedOK /\ SeatsOK
-----------------------------------------------------------------------------
(***************************************************************************)
(* The cache of a registry.                                                *)
(***************************************************************************)

(* Loading a snapshot that is held, or whole, keeps the cache whole.       *)
LEMMA LoadKeeps ==
  ASSUME NEW held \in Seq(Loaded), NEW c \in Commits,
         (\E i \in DOMAIN held : held[i].snap = c) \/ disk[c] = "whole"
  PROVE  Load(held, c) \in Seq(Loaded)
<1> DEFINE i == Place(held, c)
<1>1. CASE \E p \in DOMAIN held : held[p].snap = c
  <2>1. i \in 1..Len(held) /\ held[i] \in Loaded /\ Len(held) \in Nat
    BY <1>1 DEF Place
  <2>2. SubSeq(held, 1, i - 1) \in Seq(Loaded)
    <3>1. \A p \in 1..(i - 1) : held[p] \in Loaded
      BY <2>1
    <3>2. QED
      BY <2>1, <3>1, SubSeqProperties
  <2>3. SubSeq(held, i + 1, Len(held)) \in Seq(Loaded)
    <3>1. \A p \in (i + 1)..Len(held) : held[p] \in Loaded
      BY <2>1
    <3>2. QED
      BY <2>1, <3>1, SubSeqProperties
  <2>4. RemoveAt(held, i) \in Seq(Loaded)
    BY <2>2, <2>3, ConcatProperties DEF RemoveAt
  <2>5. Load(held, c) = Append(RemoveAt(held, i), held[i])
    BY <1>1 DEF Load
  <2>6. QED
    BY <2>1, <2>4, <2>5
<1>2. CASE ~\E p \in DOMAIN held : held[p].snap = c
  <2>1. [snap |-> c, from |-> disk[c]] \in Loaded
    BY <1>2 DEF Loaded
  <2>2. Len(held) >= CacheSize => Tail(held) \in Seq(Loaded)
    <3>1. Len(held) >= CacheSize => held # << >>
      BY LiveCatalogAssumption
    <3>2. QED
      BY <3>1
  <2>3. Len(held) \in Nat /\ CacheSize \in Nat
    BY LiveCatalogAssumption
  <2>4. Load(held, c) = Append(IF Len(held) < CacheSize THEN held ELSE Tail(held),
                               [snap |-> c, from |-> disk[c]])
    BY <1>2 DEF Load
  <2>5. QED
    BY <2>1, <2>2, <2>3, <2>4
<1>3. QED
  BY <1>1, <1>2

(* What may be loaded is a commit, and comes from files that were whole.   *)
LEMMA MayLoadWhole ==
  ASSUME CatalogOK, NEW r \in Readers, NEW c, MayLoad(r, c)
  PROVE  /\ c \in Commits /\ (c \in Loadable \/ Held(r, c))
         /\ Load(reg[r].loaded, c) \in Seq(Loaded)
         /\ LoadedFrom(r, c) = "whole"
<1>1. c \in Commits /\ (Held(r, c) \/ disk[c] = "whole") /\ (Held(r, c) \/ c \in Loadable)
  BY DEF MayLoad, Readable, Verified
<1>2. reg[r].loaded \in Seq(Loaded)
  BY DEF CatalogOK
<1>3. Load(reg[r].loaded, c) \in Seq(Loaded)
  BY <1>1, <1>2, LoadKeeps DEF Held
<1>4. ASSUME Held(r, c)
      PROVE  reg[r].loaded[Place(reg[r].loaded, c)].from = "whole"
  <2>1. Place(reg[r].loaded, c) \in DOMAIN reg[r].loaded
    BY <1>4 DEF Held, Place
  <2>2. reg[r].loaded[Place(reg[r].loaded, c)] \in Loaded
    BY <1>2, <2>1
  <2>3. QED
    BY <2>2 DEF Loaded
<1>5. QED
  BY <1>1, <1>3, <1>4 DEF LoadedFrom

(* The registry of a service that loads something stays well typed.        *)
LEMMA RegLoads ==
  ASSUME CatalogOK, NEW r \in Readers, NEW c, MayLoad(r, c),
         reg' = [reg EXCEPT ![r].loaded = Load(@, c)]
  PROVE  reg' \in [Readers -> [up : BOOLEAN, loaded : Seq(Loaded), current : Commits \cup {None}]]
<1>1. reg' = [reg EXCEPT ![r] = [reg[r] EXCEPT !.loaded = Load(reg[r].loaded, c)]]
  OBVIOUS
<1>2. Load(reg[r].loaded, c) \in Seq(Loaded)
  BY MayLoadWhole
<1>3. reg \in [Readers -> [up : BOOLEAN, loaded : Seq(Loaded), current : Commits \cup {None}]]
  BY DEF CatalogOK
<1>4. [reg[r] EXCEPT !.loaded = Load(reg[r].loaded, c)]
        \in [up : BOOLEAN, loaded : Seq(Loaded), current : Commits \cup {None}]
  BY <1>2, <1>3
<1>5. QED
  BY <1>1, <1>3, <1>4

-----------------------------------------------------------------------------
(***************************************************************************)
(* The invariant.                                                          *)
(***************************************************************************)

(* Types, and the caches, through the steps of the publisher and others.   *)
LEMMA CatalogStep ==
  ASSUME CatalogOK, RequestsOK, [Next]_vars
  PROVE  CatalogOK'
<1> DEFINE Registry == [up : BOOLEAN, loaded : Seq(Loaded), current : Commits \cup {None}]
<1>1. CASE Pull
  BY <1>1 DEF Pull, CatalogOK
<1>2. CASE Pulled
  BY <1>2 DEF Pulled, CatalogOK
<1>3. CASE PubBegins
  BY <1>3 DEF PubBegins, CatalogOK
<1>4. CASE PubStages
  BY <1>4 DEF PubStages, CatalogOK, Idle
<1>5. CASE PubInstalls
  BY <1>5 DEF PubInstalls, CatalogOK, Idle
<1>6. CASE PubSelects
  BY <1>6 DEF PubSelects, CatalogOK, Idle, Selectable
<1>7. CASE PubDies
  BY <1>7 DEF PubDies, CatalogOK, Idle
<1>8. ASSUME NEW r \in Readers, Start(r)
      PROVE  CatalogOK'
  <2>1. << >> \in Seq(Loaded) /\ pointer \in Commits /\ disk[pointer] = "whole"
    BY <1>8 DEF Start, Readable, Loadable, Verified
  <2>2. Load(<< >>, pointer) \in Seq(Loaded)
    BY <2>1, LoadKeeps
  <2>3. QED
    BY <1>8, <2>1, <2>2 DEF Start, CatalogOK
<1>9. ASSUME NEW t \in Threads, LookReads(t)
      PROVE  CatalogOK'
  BY <1>9 DEF LookReads, CatalogOK
<1>10. ASSUME NEW t \in Threads, LookLoads(t)
       PROVE  CatalogOK'
  <2>1. reg' \in [Readers -> Registry]
    BY <1>10, RegLoads, LiveCatalogAssumption DEF LookLoads, CatalogOK
  <2>2. QED
    BY <1>10, <2>1 DEF LookLoads, CatalogOK
<1>11. ASSUME NEW t \in Threads, LookSelects(t)
       PROVE  CatalogOK'
  <2>1. request[t] \in Requests /\ request[t].at = "loaded"
    BY <1>11 DEF LookSelects, RequestsOK
  <2>2. request[t].arg \in Commits
    BY <2>1 DEF Requests, NoRequest
  <2>3. reg' = [reg EXCEPT ![Sidecar] = [reg[Sidecar] EXCEPT !.current = request[t].arg]]
    BY <1>11 DEF LookSelects
  <2>4. reg \in [Readers -> Registry] /\ Sidecar \in Readers
    BY LiveCatalogAssumption DEF CatalogOK
  <2>5. [reg[Sidecar] EXCEPT !.current = request[t].arg] \in Registry
    BY <2>2, <2>4
  <2>6. reg' \in [Readers -> Registry]
    BY <2>3, <2>4, <2>5
  <2>7. QED
    BY <1>11, <2>6 DEF LookSelects, CatalogOK
<1>12. ASSUME NEW t \in Threads, LookLists(t)
       PROVE  CatalogOK'
  <2>1. reg' \in [Readers -> Registry]
    BY <1>12, RegLoads, LiveCatalogAssumption DEF LookLists, CatalogOK
  <2>2. advertised' \subseteq Commits
    BY <1>12 DEF LookLists, CatalogOK, MayLoad
  <2>3. QED
    BY <1>12, <2>1, <2>2 DEF LookLists, CatalogOK
<1>13. CASE Spoil
  BY <1>13 DEF Spoil, CatalogOK, Selectable
<1>14. ASSUME NEW t \in Threads, Finds(t)
       PROVE  CatalogOK'
  <2>1. PICK k \in Keys : Selects(Sidecar, k)
                          /\ reg' = [reg EXCEPT ![Sidecar].loaded = Load(@, k.snap)]
    BY <1>14 DEF Finds
  <2>2. reg' \in [Readers -> Registry]
    BY <2>1, RegLoads, LiveCatalogAssumption DEF Selects
  <2>3. QED
    BY <1>14, <2>2 DEF Finds, CatalogOK
<1>15. ASSUME NEW t \in Threads, Makes(t)
       PROVE  CatalogOK'
  <2>1. UNCHANGED reg \/ (/\ Selects(Sidecar, request[t].arg)
                          /\ reg' = [reg EXCEPT ![Sidecar].loaded = Load(@, request[t].arg.snap)])
    BY <1>15 DEF Makes
  <2>2. reg' \in [Readers -> Registry]
    BY <2>1, RegLoads, LiveCatalogAssumption DEF Selects, CatalogOK
  <2>3. QED
    BY <1>15, <2>2 DEF Makes, CatalogOK
<1>16. CASE Expects
  <2>1. PICK k : Selects(Recorder, k) /\ reg' = [reg EXCEPT ![Recorder].loaded = Load(@, k.snap)]
    BY <1>16 DEF Expects
  <2>2. reg' \in [Readers -> Registry]
    BY <2>1, RegLoads, SeatSidecarAssumption DEF Selects
  <2>3. QED
    BY <1>16, <2>2 DEF Expects, CatalogOK
<1>17. ASSUME NEW r \in Readers, Dies(r)
       PROVE  CatalogOK'
  <2>1. Down \in Registry
    BY DEF Down
  <2>2. QED
    BY <1>17, <2>1 DEF Dies, CatalogOK
<1>18. CASE UNCHANGED vars
  BY <1>18 DEF vars, CatalogOK
<1>19. QED
  BY <1>1, <1>2, <1>3, <1>4, <1>5, <1>6, <1>7, <1>8, <1>9, <1>10, <1>11, <1>12, <1>13, <1>14, <1>15,
     <1>16, <1>17, <1>18 DEF Next, CatalogNext

(* A request goes from step to step with what it read.                     *)
LEMMA RequestsStep ==
  ASSUME CatalogOK, RequestsOK, [Next]_vars
  PROVE  RequestsOK'
<1>1. UNCHANGED request => RequestsOK'
  BY DEF RequestsOK
<1>2. NoRequest \in Requests
  BY DEF Requests
<1>3. ASSUME NEW t \in Threads, NEW q \in Requests, request' = [request EXCEPT ![t] = q]
      PROVE  RequestsOK'
  BY <1>3 DEF RequestsOK
<1>4. ASSUME NEW t \in Threads
      PROVE  /\ request[t] \in Requests
             /\ request[t].at \in {"read", "loaded"} =>
                  /\ request[t].arg \in Commits
                  /\ [request[t] EXCEPT !.at = "loaded"] \in Requests
                  /\ [request[t] EXCEPT !.at = "list"] \in Requests
  <2>1. request[t] \in Requests
    BY DEF RequestsOK
  <2>2. ASSUME request[t].at \in {"read", "loaded"}
        PROVE  request[t] \in [at : {"read", "loaded"}, arg : Commits]
    BY <2>1, <2>2 DEF Requests, NoRequest
  <2>3. ASSUME request[t].at \in {"read", "loaded"}
        PROVE  /\ [request[t] EXCEPT !.at = "loaded"] \in [at : {"read", "loaded"}, arg : Commits]
               /\ [request[t] EXCEPT !.at = "list"] \in [at : {"list"}, arg : Selectable]
    BY <2>2, <2>3 DEF Selectable
  <2>4. QED
    BY <2>1, <2>2, <2>3 DEF Requests
<1>5. ASSUME NEW t \in Threads, LookReads(t)
      PROVE  RequestsOK'
  <2>1. pointer \in Selectable
    BY DEF CatalogOK
  <2>2. /\ pointer \in Commits => [at |-> "read", arg |-> pointer] \in Requests
        /\ [at |-> "list", arg |-> pointer] \in Requests
    BY <2>1 DEF Requests
  <2>3. QED
    BY <1>3, <1>5, <2>2 DEF LookReads
<1>6. ASSUME NEW t \in Threads, LookLoads(t)
      PROVE  RequestsOK'
  <2>1. \/ request' = [request EXCEPT ![t] = [request[t] EXCEPT !.at = "loaded"]]
        \/ request' = [request EXCEPT ![t] = [request[t] EXCEPT !.at = "list"]]
    BY <1>6 DEF LookLoads
  <2>2. request[t].at = "read"
    BY <1>6 DEF LookLoads
  <2>3. QED
    BY <1>3, <1>4, <2>1, <2>2
<1>7. ASSUME NEW t \in Threads, LookSelects(t)
      PROVE  RequestsOK'
  <2>1. request' = [request EXCEPT ![t] = [request[t] EXCEPT !.at = "list"]]
    BY <1>7 DEF LookSelects
  <2>2. request[t].at = "loaded"
    BY <1>7 DEF LookSelects
  <2>3. QED
    BY <1>3, <1>4, <2>1, <2>2
<1>8. ASSUME NEW t \in Threads, LookLists(t) \/ Makes(t)
      PROVE  RequestsOK'
  BY <1>2, <1>3, <1>8 DEF LookLists, Makes
<1>9. ASSUME NEW t \in Threads, Finds(t)
      PROVE  RequestsOK'
  <2>1. PICK k \in Keys : \/ UNCHANGED request
                          \/ request' = [request EXCEPT ![t] = [at |-> "absent", arg |-> k]]
    BY <1>9 DEF Finds
  <2>2. [at |-> "absent", arg |-> k] \in Requests
    BY DEF Requests
  <2>3. QED
    BY <1>1, <1>3, <2>1, <2>2
<1>10. ASSUME NEW r \in Readers, Dies(r)
       PROVE  RequestsOK'
  BY <1>1, <1>2, <1>10 DEF Dies, RequestsOK
<1>11. QED
  BY <1>1, <1>5, <1>6, <1>7, <1>8, <1>9, <1>10 DEF Next, CatalogNext, vars, Pull, Pulled, PubBegins,
     PubStages, PubInstalls, PubSelects, PubDies, Start, Spoil, Expects

(* The publisher selects a snapshot only once it is in place.              *)
LEMMA PublishedStep ==
  ASSUME CatalogOK, PublishedOK, [Next]_vars
  PROVE  PublishedOK'
<1>1. /\ disk \in [Commits -> {"absent", "whole", "spoiled"}] /\ None \notin Commits
      /\ "broken" \notin Commits /\ (pub.at # "idle" => pub.head \in Commits)
  BY LiveCatalogAssumption, BindingCatalogAssumption DEF CatalogOK
<1>2. CASE PubBegins
  BY <1>2 DEF PubBegins, PublishedOK
<1>3. CASE PubStages
  BY <1>3 DEF PubStages, PublishedOK, Accepted, Publishable, Idle, CatalogOK
<1>4. CASE PubInstalls
  BY <1>1, <1>4 DEF PubInstalls, PublishedOK, Idle, CatalogOK
<1>5. CASE PubSelects
  BY <1>1, <1>5 DEF PubSelects, PublishedOK, Idle
<1>6. CASE PubDies
  BY <1>6 DEF PubDies, PublishedOK, Idle
<1>7. CASE Spoil
  BY <1>1, <1>7 DEF Spoil, PublishedOK
<1>8. CASE UNCHANGED <<pub, disk, pointer>>
  BY <1>8 DEF PublishedOK
<1>9. QED
  BY <1>2, <1>3, <1>4, <1>5, <1>6, <1>7, <1>8 DEF Next, CatalogNext, vars, Pull, Pulled, Start, Finds,
     LookReads, LookLoads, LookSelects, LookLists, Makes, Expects, Dies

(* An adapter is made only where there is none.                            *)
LEMMA SeatsStep ==
  ASSUME CatalogOK, RequestsOK, SeatsOK, [Next]_vars
  PROVE  SeatsOK'
<1>1. CASE UNCHANGED <<seats, served>>
  BY <1>1 DEF SeatsOK
<1>2. ASSUME NEW k \in Keys, seats[k] # << >>
      PROVE  Last(seats[k]) = TheAdapter(k)
  BY <1>2 DEF SeatsOK, Last
<1>3. ASSUME NEW k \in Keys, UNCHANGED seats,
             served' = served \cup {<<k, TheAdapter(k)>>}
      PROVE  SeatsOK'
  BY <1>3 DEF SeatsOK
<1>4. ASSUME NEW t \in Threads, Finds(t)
      PROVE  SeatsOK'
  <2>1. PICK k \in Keys : /\ UNCHANGED seats
                          /\ \/ UNCHANGED served
                             \/ seats[k] # << >> /\ served' = served \cup {<<k, Last(seats[k])>>}
    BY <1>4 DEF Finds
  <2>2. QED
    BY <1>1, <1>2, <1>3, <2>1
<1>5. ASSUME NEW t \in Threads, Makes(t)
      PROVE  SeatsOK'
  <2>1. PICK k : k = request[t].arg
    OBVIOUS
  <2>2. request[t].at = "absent" /\ request[t] \in Requests
    BY <1>5 DEF Makes, RequestsOK
  <2>3. k \in Keys
    BY <2>1, <2>2 DEF Requests, NoRequest
  <2>4. CASE seats[k] # << >>
    <3>1. UNCHANGED seats /\ served' = served \cup {<<k, Last(seats[k])>>}
      BY <1>5, <2>1, <2>4 DEF Makes
    <3>2. QED
      BY <1>2, <1>3, <2>3, <2>4, <3>1
  <2>5. CASE seats[k] = << >> /\ Selects(Sidecar, k)
    <3>1. LoadedFrom(Sidecar, k.snap) = "whole"
      BY <2>5, MayLoadWhole, LiveCatalogAssumption DEF Selects
    <3>2. Len(seats[k]) + 1 = 1
      BY <2>5
    <3>3. /\ seats' = [seats EXCEPT ![k] = Append(<< >>, TheAdapter(k))]
          /\ served' = served \cup {<<k, TheAdapter(k)>>}
      BY <1>5, <2>1, <2>5, <3>1, <3>2 DEF Makes, TheAdapter
    <3>4. Append(<< >>, TheAdapter(k)) = <<TheAdapter(k)>>
      OBVIOUS
    <3>5. QED
      BY <2>3, <3>3, <3>4 DEF SeatsOK
  <2>6. CASE seats[k] = << >> /\ ~Selects(Sidecar, k)
    BY <1>1, <1>5, <2>1, <2>6 DEF Makes
  <2>7. QED
    BY <2>4, <2>5, <2>6
<1>6. ASSUME NEW r \in Readers, Dies(r)
      PROVE  SeatsOK'
  BY <1>1, <1>6 DEF Dies, SeatsOK
<1>7. QED
  BY <1>1, <1>4, <1>5, <1>6 DEF Next, vars, Expects

(* Nothing is published and nobody is served at first.                     *)
LEMMA InitIInv ==
  ASSUME Init
  PROVE  IInv
<1>1. CatalogOK
  BY BindingCatalogAssumption DEF Init, CatalogInit, CatalogOK, Idle, Down, Selectable
<1>2. RequestsOK
  BY DEF Init, CatalogInit, RequestsOK, Requests
<1>3. PublishedOK /\ SeatsOK
  BY BindingCatalogAssumption DEF Init, CatalogInit, PublishedOK, SeatsOK, Idle
<1>4. QED
  BY <1>1, <1>2, <1>3 DEF IInv

-----------------------------------------------------------------------------
(* The invariant holds of every reachable state.                           *)
THEOREM Invariance == Spec => []IInv
<1>1. Init => IInv
  BY InitIInv
<1>2. IInv /\ [Next]_vars => IInv'
  BY CatalogStep, RequestsStep, PublishedStep, SeatsStep DEF IInv
<1>3. QED
  BY <1>1, <1>2, PTL DEF Spec

(* What current.json selects is there, whole and loads, unless somebody    *)
(* changed its files, whatever the publisher was doing when it died or     *)
(* refused (publish_checkout).                                             *)
THEOREM PriorCatalogSurvives == Spec => []PriorSurvives
<1>1. IInv => PriorSurvives
  BY DEF IInv, CatalogOK, PublishedOK, PriorSurvives, Verified
<1>2. QED
  BY <1>1, Invariance, PTL

(* One game, player and profile have one adapter, whichever threads asked  *)
(* for it first, and sidecar and recorder take a profile for the same      *)
(* binding, deck and pilot, whatever is published, evicted, spoiled or     *)
(* restarted (resolve_seat, LiveBindingRegistry).                          *)
THEOREM SeatsAreTheSame == Spec => []SeatsAreStable
<1>1. ASSUME IInv
      PROVE  SeatsAreStable
  <2>1. CatalogOK /\ SeatsOK
    BY <1>1 DEF IInv
  <2>2. OneSeatPerKey
    <3>1. ASSUME NEW s \in served, NEW u \in served, s[1] = u[1]
          PROVE  s[2] = u[2]
      <4>1. s = <<s[1], TheAdapter(s[1])>> /\ u = <<u[1], TheAdapter(u[1])>>
        BY <2>1 DEF SeatsOK
      <4>2. s[2] = TheAdapter(s[1]) /\ u[2] = TheAdapter(u[1])
        BY <4>1
      <4>3. QED
        BY <3>1, <4>2
    <3>2. QED
      BY <3>1 DEF OneSeatPerKey
  <2>3. ASSUME NEW s \in served, Selects(Recorder, s[1])
        PROVE  Expected(s[1]) = s[2].lineage
    <3>1. LoadedFrom(Recorder, s[1].snap) = "whole"
      BY <2>1, <2>3, MayLoadWhole, SeatSidecarAssumption DEF Selects
    <3>2. s = <<s[1], TheAdapter(s[1])>>
      BY <2>1 DEF SeatsOK
    <3>3. s[2].lineage = TheAdapter(s[1]).lineage
      BY <3>2
    <3>4. QED
      BY <3>1, <3>3 DEF Expected, TheAdapter, Adapter
  <2>4. QED
    BY <2>2, <2>3 DEF SeatsAreStable, SameSelection
<1>2. QED
  BY <1>1, Invariance, PTL

-----------------------------------------------------------------------------
(* A window that is answered without a model: whatever takes it takes the  *)
(* one offer there is, or the one pass.                                    *)
Sole(w) == IF Len(w.menu) = 1 THEN {1} ELSE ThePass(w)

LEMMA OnePass ==
  ASSUME NEW w \in Windows, ThePass(w) # {}
  PROVE  /\ Len(w.menu) >= 2
         /\ \E i \in DOMAIN w.menu : ThePass(w) = {i} /\ Passes(w) = {i}
<1>1. Len(w.menu) >= 2 /\ Cardinality(Passes(w)) = 1 /\ ThePass(w) = Passes(w)
  BY DEF ThePass
<1>2. DOMAIN w.menu = 1..Len(w.menu) /\ Len(w.menu) \in Nat
  BY DEF Windows
<1>3. IsFiniteSet(DOMAIN w.menu)
  BY <1>2, FS_Interval
<1>4. Passes(w) \subseteq DOMAIN w.menu
  BY DEF Passes
<1>5. IsFiniteSet(Passes(w))
  BY <1>3, <1>4, FS_Subset
<1>6. PICK i : Passes(w) = {i}
  BY <1>1, <1>5, FS_Singleton
<1>7. QED
  BY <1>1, <1>4, <1>6

LEMMA TakesTheSole ==
  ASSUME NEW w \in Windows, NEW component
  PROVE  Takes(component, w) \in {{}, Sole(w)}
<1>1. Len(w.menu) \in Nat
  BY DEF Windows
<1>2. Forced(w) \in {{}, Sole(w)} /\ (Forced(w) # {} => Len(w.menu) = 1)
  BY DEF Forced, Sole
<1>3. NoChoice(w) \in {{}, Sole(w)} /\ (NoChoice(w) # {} => Len(w.menu) = 1)
  BY <1>2 DEF NoChoice, Sole
<1>4. ThePass(w) \in {{}, Sole(w)}
  <2>1. ThePass(w) = {} \/ Len(w.menu) # 1
    <3>1. Len(w.menu) = 1 => ~(Len(w.menu) >= 2)
      BY ONLY <1>1
    <3>2. QED
      BY ONLY <3>1 DEF ThePass
  <2>2. QED
    BY <2>1 DEF Sole
<1>5. \A b : Standing(w, b) \in {{}, Sole(w)}
  BY <1>3, <1>4 DEF Standing
<1>6. \A e : AllUnaffordable(w, e) \in {{}, Sole(w)}
  BY <1>4, <1>5 DEF AllUnaffordable
<1>7. Certified(w) \in {{}, Sole(w)}
  BY <1>6 DEF Certified
<1>8. QED
  BY <1>2, <1>3, <1>5, <1>6, <1>7 DEF Takes

(* The offer that a component takes alone decides nothing.                 *)
LEMMA SoleDecidesNothing ==
  ASSUME NEW w \in Windows, NEW component, Len(w.menu) = 1, Takes(component, w) # {}
  PROVE  NothingToDecide(w, 1)
<1>1. DOMAIN w.menu = {1} /\ w.menu # <<>>
  <2>1. w.menu \in Seq(Offers) /\ Len(w.menu) = 1
    BY DEF Windows
  <2>2. QED
    BY ONLY <2>1
<1>2. ThePass(w) = {}
  BY DEF ThePass
<1>3. NoChoice(w) # {}
  BY <1>2 DEF Takes, NoChoice, Standing, AllUnaffordable, Certified
<1>4. CASE Forced(w) # {}
  BY <1>4 DEF Forced, NothingToDecide
<1>5. CASE Forced(w) = {}
  BY <1>3, <1>5 DEF NoChoice, NothingToDecide
<1>6. QED
  BY <1>4, <1>5

(* A pass that is taken beside other offers passes over nothing playable.  *)
LEMMA PassOverNothing ==
  ASSUME NEW w \in Windows, NEW component, Len(w.menu) # 1, Takes(component, w) # {},
         NEW i \in Takes(component, w)
  PROVE  NothingPassedOver(component, w, i) /\ NothingToDecide(w, i)
<1>1. Takes(component, w) = ThePass(w)
  BY TakesTheSole DEF Sole
<1>2. PICK k \in DOMAIN w.menu : ThePass(w) = {k} /\ Passes(w) = {k}
  BY <1>1, OnePass
<1>3. i = k /\ Len(w.menu) >= 2 /\ w.menu[i].kind = "PassPriority"
      /\ \A j \in DOMAIN w.menu \ {i} : w.menu[j].kind # "PassPriority"
  BY <1>1, <1>2, OnePass DEF Passes
<1>4. Forced(w) = {} /\ NoChoice(w) = {}
  BY <1>3 DEF Forced, NoChoice
<1>5. ASSUME NEW b, Standing(w, b) # {}
      PROVE  /\ NothingToDecide(w, i)
             /\ \A j \in DOMAIN w.menu \ {i} : Unaffordable(w.menu[j]) \/ w.menu[j].mana = "yes"
  <2>1. \A j \in DOMAIN w.menu : Ignored(w, w.menu[j], b)
    BY <1>5 DEF Standing
  <2>2. w.pending = "none"
    BY <1>5 DEF Standing
  <2>3. w.menu[i].affordable = "yes"
    BY <1>2, <1>3, <2>1 DEF Ignored, Combat
  <2>4. QED
    BY <1>3, <2>1, <2>2, <2>3 DEF Ignored, NothingToDecide
<1>6. ASSUME NEW e, AllUnaffordable(w, e) # {}
      PROVE  /\ NothingToDecide(w, i)
             /\ \A j \in DOMAIN w.menu \ {i} : Unaffordable(w.menu[j]) \/ w.menu[j].mana = "yes"
  <2>1. CASE Standing(w, TRUE) # {}
    BY <1>5, <2>1
  <2>2. CASE Standing(w, TRUE) = {}
    <3>1. /\ \A j \in DOMAIN w.menu : Known(w.menu[j], e)
          /\ w.pending = "none"
          /\ \A j \in DOMAIN w.menu \ Passes(w) : Unaffordable(w.menu[j])
      BY <1>6, <2>2 DEF AllUnaffordable
    <3>2. w.menu[i].affordable = "yes"
      BY <1>2, <1>3, <3>1 DEF Known
    <3>3. QED
      BY <1>2, <1>3, <3>1, <3>2 DEF NothingToDecide
  <2>3. QED
    BY <2>1, <2>2
<1>7. CASE component = "certified"
  <2>1. /\ AllUnaffordable(w, {"CycleCard", "CastWithFlashback"}) # {}
        /\ \A j \in DOMAIN w.menu \ Passes(w) : Unaffordable(w.menu[j])
    BY <1>7 DEF Takes, Certified
  <2>2. QED
    BY <1>2, <1>3, <1>6, <2>1 DEF NothingPassedOver, Unaffordable
<1>8. CASE component # "certified"
  <2>1. component \notin {"forced", "noChoice"}
    BY <1>4 DEF Takes
  <2>2. (\E b : Standing(w, b) # {}) \/ (\E e : AllUnaffordable(w, e) # {})
    BY <1>8, <2>1 DEF Takes
  <2>3. /\ NothingToDecide(w, i)
        /\ \A j \in DOMAIN w.menu \ {i} : Unaffordable(w.menu[j]) \/ w.menu[j].mana = "yes"
    BY <1>5, <1>6, <2>2
  <2>4. QED
    BY <1>8, <2>1, <2>3 DEF NothingPassedOver, Unaffordable
<1>9. QED
  BY <1>7, <1>8

LEMMA RouteForced ==
  ASSUME NEW w \in Windows, NEW component
  PROVE  RouteIsForced(component, w)
<1> SUFFICES ASSUME NEW i \in Takes(component, w)
             PROVE  NothingPassedOver(component, w, i) /\ NothingToDecide(w, i)
                    /\ OfOneMind(component, w)
  BY DEF RouteIsForced
<1>1. Takes(component, w) = Sole(w)
  BY TakesTheSole
<1>2. OfOneMind(component, w)
  BY <1>1, TakesTheSole DEF OfOneMind
<1>3. CASE Len(w.menu) = 1
  <2>1. i = 1 /\ DOMAIN w.menu = {1}
    BY <1>1, <1>3 DEF Sole, Windows
  <2>2. NothingToDecide(w, i)
    BY <1>3, <2>1, SoleDecidesNothing
  <2>3. QED
    BY <1>2, <2>1, <2>2 DEF NothingPassedOver
<1>4. CASE Len(w.menu) # 1
  BY <1>2, <1>4, PassOverNothing
<1>5. QED
  BY <1>3, <1>4

-----------------------------------------------------------------------------
(* The format that goes with a request, against the checks of its answer.  *)
LEMMA OneDelegation ==
  ASSUME NEW p \in Plans \cup {NoPlan}
  PROVE  p.delegation = {} \/ \E d : p.delegation = {d}
<1>1. CASE p = NoPlan
  BY <1>1 DEF NoPlan
<1>2. CASE \E d \in Delegation : p = [NoPlan EXCEPT !.delegation = {d}]
  BY <1>2 DEF NoPlan
<1>3. CASE \E s \in Continuations : p = [NoPlan EXCEPT !.steps = s]
  BY <1>3 DEF NoPlan
<1>4. CASE p.delegation \in {{}, {[until |-> "phase_end", defers |-> "absent", watch |-> "true"]}}
  BY <1>4
<1>5. \/ p = NoPlan
      \/ \E d \in Delegation : p = [NoPlan EXCEPT !.delegation = {d}]
      \/ \E s \in Continuations : p = [NoPlan EXCEPT !.steps = s]
      \/ p.delegation \in {{}, {[until |-> "phase_end", defers |-> "absent", watch |-> "true"]}}
  BY DEF Plans
<1>6. QED
  BY <1>1, <1>2, <1>3, <1>4, <1>5

LEMMA PlanFits ==
  ASSUME NEW f \in Flags, NEW o, NEW v, NEW p \in Plans \cup {NoPlan},
         PlanVerdict(f, o, v, p) \in {"valid", "untyped"}
  PROVE  FitsPlan(f, p) \/ \E d \in p.delegation : d.until = "a list"
<1>1. CASE p.steps # <<>>
  <2>1. f.continuation /\ p.delegation = {} /\ p.thenCast = "absent"
    BY <1>1 DEF PlanVerdict, ContinuationVerdict
  <2>2. QED
    BY <2>1 DEF FitsPlan
<1>2. CASE p.steps = <<>> /\ p.thenCast # "absent"
  <2>1. f.named /\ p.delegation = {} /\ p.thenCast = "card"
    BY <1>2 DEF PlanVerdict, ThenCastVerdict
  <2>2. QED
    BY <1>2, <2>1 DEF FitsPlan
<1>3. CASE p.steps = <<>> /\ p.thenCast = "absent" /\ p.delegation # {}
  <2>1. PICK d : p.delegation = {d}
    BY <1>3, OneDelegation
  <2>2. DelegationVerdict(f, o, d) \in {"valid", "untyped"}
    BY <1>3, <2>1 DEF PlanVerdict
  <2>3. CASE d.until = "a list"
    BY <2>1, <2>3
  <2>4. CASE d.until # "a list"
    <3>1. /\ f.delegation /\ (d.defers # "absent" => f.named /\ d.until = "turn_end")
          /\ (f.named /\ d.until = "turn_end") \/ d.until \in {"phase_end", "next_own_main"}
          /\ (f.named /\ d.until = "turn_end") => d.defers = "some"
      BY <2>2, <2>4 DEF DelegationVerdict, Flags
    <3>2. QED
      BY <1>3, <2>1, <3>1 DEF FitsPlan, Flags
  <2>5. QED
    BY <2>3, <2>4
<1>4. CASE p.steps = <<>> /\ p.thenCast = "absent" /\ p.delegation = {}
  BY <1>4 DEF FitsPlan
<1>5. QED
  BY <1>1, <1>2, <1>3, <1>4

LEMMA ParamsFit ==
  ASSUME NEW o, NEW v, AcceptsParams(o, v), o.field # "unspecified"
  PROVE  FitsParams(o, v)
<1>1. CASE o.field = "attackers"
  BY <1>1 DEF AcceptsParams, FitsParams, Range
<1>2. CASE o.field = "blockers"
  BY <1>2 DEF AcceptsParams, FitsParams
<1>3. CASE o.field = "delvedCards"
  BY <1>3 DEF AcceptsParams, FitsParams
<1>4. CASE o.field = "bouncedPermanents"
  BY <1>4 DEF AcceptsParams, FitsParams
<1>5. CASE o.field \notin {"attackers", "blockers", "delvedCards", "bouncedPermanents"}
  BY <1>5 DEF AcceptsParams, FitsParams
<1>6. QED
  BY <1>1, <1>2, <1>3, <1>4, <1>5

LEMMA ResponseFits ==
  ASSUME NEW o, NEW r, AcceptsResponse(o, r)
  PROVE  FitsResponse(o, r)
<1>1. CASE r = Cancel /\ o.cancel
  BY <1>1 DEF FitsResponse
<1>2. CASE r # Cancel /\ o.field = "sources"
  BY <1>2 DEF FitsResponse, AcceptsResponse, FitsAutoPay
<1>3. CASE r # Cancel /\ o.field = "targets"
  BY <1>3 DEF FitsResponse, AcceptsResponse
<1>4. CASE r # Cancel /\ o.field = "cards"
  BY <1>4 DEF FitsResponse, AcceptsResponse
<1>5. CASE r # Cancel /\ o.field \notin {"sources", "targets", "cards"}
  BY <1>5 DEF FitsResponse, AcceptsResponse
<1>6. QED
  BY <1>1, <1>2, <1>3, <1>4, <1>5 DEF AcceptsResponse

(* The answers to an offer, by their shape.                                *)
LEMMA ShapeOfAnswer ==
  ASSUME NEW o, NEW a \in Answers(o)
  PROVE  \/ a.channel = "none"
         \/ a.channel = "action" /\ a.semantic = "unknown"
         \/ a.channel = "decision"
         \/ /\ a.channel = "action" /\ a.semantic = "offered" /\ a.plan \in Plans \cup {NoPlan}
<1>1. CASE a \in {[channel |-> "none"], [channel |-> "action", semantic |-> "unknown"]}
  BY <1>1
<1>2. CASE \E r : a = [channel |-> "decision", response |-> r]
  BY <1>2
<1>3. CASE \E v, p : p \in Plans \cup {NoPlan} /\ a = Chosen(v, p)
  BY <1>3 DEF Chosen
<1>4. QED
  BY <1>1, <1>2, <1>3 DEF Answers

(* An answer that keeps to the format, or names its boundary by no string.  *)
FitsOrUntyped(f, o, a) ==
  \/ Fits(f, o, a)
  \/ a.channel = "action" /\ a.plan.delegation # {} /\ \E d \in a.plan.delegation : d.until = "a list"

LEMMA TakenFits ==
  ASSUME NEW f \in Flags, NEW o, o.channel \in {"action", "decision"},
         NEW a \in Answers(o), Verdict(f, o, a) \in {"valid", "untyped"}
  PROVE  FitsOrUntyped(f, o, a)
<1> USE DEF FitsOrUntyped
<1>1. a.channel # "none" /\ ~(a.channel = "action" /\ a.semantic = "unknown")
  BY DEF Verdict
<1>2. CASE a.channel = "decision"
  <2>1. o.channel = "decision" /\ AcceptsResponse(o, a.response)
    BY <1>2 DEF Verdict
  <2>2. QED
    BY <1>2, <2>1, ResponseFits DEF Fits
<1>3. CASE a.channel = "action" /\ o.channel = "decision"
  <2>1. Schemaless(o)
    BY <1>1, <1>3 DEF Verdict, Schemaless
  <2>2. QED
    BY <2>1 DEF Fits
<1>4. CASE a.channel = "action" /\ o.channel = "action"
  <2>1. a.semantic = "offered" /\ a.plan \in Plans \cup {NoPlan}
    BY <1>1, <1>4, ShapeOfAnswer
  <2>2. AcceptsParams(o, a.value) /\ PlanVerdict(f, o, a.value, a.plan) \in {"valid", "untyped"}
    BY <1>1, <1>4 DEF Verdict
  <2>3. CASE o.field = "unspecified"
    BY <2>3 DEF Fits, Schemaless
  <2>4. CASE o.field # "unspecified"
    <3>1. FitsParams(o, a.value)
      BY <2>2, <2>4, ParamsFit
    <3>2. FitsPlan(f, a.plan) \/ \E d \in a.plan.delegation : d.until = "a list"
      BY <2>1, <2>2, PlanFits
    <3>3. QED
      BY <1>4, <2>1, <3>1, <3>2 DEF Fits
  <2>5. QED
    BY <2>3, <2>4
<1>5. QED
  BY <1>1, <1>2, <1>3, <1>4, ShapeOfAnswer

(* There is always something to answer.                                    *)
LEMMA PlainAction ==
  ASSUME NEW f \in Flags, NEW o, o.channel = "action", NEW v \in Values(o), AcceptsParams(o, v)
  PROVE  \E a \in Answers(o) : Fits(f, o, a) /\ Verdict(f, o, a) = "valid"
<1> DEFINE a == Chosen(v, NoPlan)
<1>1. a \in Answers(o)
  BY DEF Answers
<1>2. a.channel = "action" /\ a.semantic = "offered" /\ a.value = v /\ a.plan = NoPlan
  BY DEF Chosen
<1>3. FitsPlan(f, NoPlan) /\ PlanVerdict(f, o, v, NoPlan) = "valid"
  BY DEF FitsPlan, PlanVerdict, NoPlan
<1>4. Verdict(f, o, a) = "valid"
  BY <1>2, <1>3 DEF Verdict
<1>5. Fits(f, o, a)
  BY <1>2, <1>3, ParamsFit DEF Fits, Schemaless
<1>6. QED
  BY <1>1, <1>4, <1>5

LEMMA PlainResponse ==
  ASSUME NEW f \in Flags, NEW o, o.channel = "decision", NEW r \in Responses(o), AcceptsResponse(o, r)
  PROVE  \E a \in Answers(o) : Fits(f, o, a) /\ Verdict(f, o, a) = "valid"
<1> DEFINE a == [channel |-> "decision", response |-> r]
<1>1. a \in Answers(o)
  BY DEF Answers
<1>2. a.channel = "decision" /\ a.response = r
  OBVIOUS
<1>3. Verdict(f, o, a) = "valid"
  BY <1>2 DEF Verdict
<1>4. Fits(f, o, a)
  BY <1>2, ResponseFits DEF Fits
<1>5. QED
  BY <1>1, <1>3, <1>4

(* As many different ids can be listed as there are; none can be, too.     *)
LEMMA EmptyList == <<>> \in Lists
<1>1. Cardinality(Ids) \in Nat
  BY NativeOfferAssumption, FS_CardinalityType
<1>2. <<>> \in [1..0 -> Ids] /\ 0 \in 0..Cardinality(Ids)
  BY <1>1
<1>3. QED
  BY <1>2 DEF Lists

LEMMA ListOf ==
  ASSUME NEW S \in SUBSET Ids, NEW n \in 1..Cardinality(S)
  PROVE  \E l \in Lists : Distinct(l) /\ Items(l) \subseteq S /\ Len(l) = n
<1>1. /\ IsFiniteSet(S) /\ Cardinality(S) \in Nat /\ Cardinality(Ids) \in Nat
      /\ Cardinality(S) <= Cardinality(Ids)
  BY NativeOfferAssumption, FS_Subset, FS_CardinalityType
<1>2. PICK f : f \in Bijection(1..Cardinality(S), S)
  BY <1>1, FS_CardinalityType DEF ExistsBijection
<1>3. /\ f \in [1..Cardinality(S) -> S]
      /\ \A i, j \in 1..Cardinality(S) : f[i] = f[j] => i = j
  BY <1>2 DEF Bijection, Injection, IsInjective
<1> DEFINE l == [k \in 1..n |-> f[k]]
<1>4. n \in Nat /\ n <= Cardinality(S) /\ n \in 0..Cardinality(Ids)
  BY <1>1
<1>5. l \in [1..n -> S] /\ l \in [1..n -> Ids]
  BY <1>1, <1>3, <1>4
<1>6. l \in Lists
  BY <1>4, <1>5 DEF Lists
<1>7. Len(l) = n
  BY <1>4, <1>5
<1>8. Items(l) \subseteq S
  BY <1>5 DEF Items, Range
<1>9. Cardinality(Items(l)) = n
  <2>1. l \in Bijection(1..n, Items(l))
    <3>1. \A i, j \in 1..n : l[i] = l[j] => i = j
      BY <1>1, <1>3, <1>4
    <3>2. DOMAIN l = 1..n /\ Items(l) = {l[k] : k \in 1..n}
      BY DEF Items, Range
    <3> HIDE DEF l
    <3>3. l \in [1..n -> Items(l)]
      BY <1>5, <3>2
    <3>4. QED
      BY <3>1, <3>2, <3>3 DEF Bijection, Injection, Surjection, IsInjective
  <2>2. ExistsBijection(1..n, Items(l))
    BY <2>1 DEF ExistsBijection
  <2>3. IsFiniteSet(1..n) /\ Cardinality(1..n) = n
    BY <1>4, FS_Interval
  <2>4. QED
    BY <2>2, <2>3, FS_Bijection
<1>10. QED
  BY <1>6, <1>7, <1>8, <1>9 DEF Distinct

LEMMA SomeAction ==
  ASSUME NEW o, WellFormed(o)
  PROVE  \E v \in Values(o) : AcceptsParams(o, v)
<1>1. CASE o.field = "attackers"
  <2> DEFINE v == [x \in {} |-> x]
  <2>1. v \in [{} -> Ids] /\ DOMAIN v = {}
    OBVIOUS
  <2>2. v \in Pairings
    BY <2>1 DEF Pairings
  <2>3. QED
    BY <1>1, <2>1, <2>2 DEF Values, AcceptsParams
<1>2. CASE o.field = "blockers"
  <2> DEFINE v == [x \in {} |-> x]
  <2>1. v \in [{} -> SUBSET Ids] /\ DOMAIN v = {}
    OBVIOUS
  <2>2. v \in Blocks
    BY <2>1 DEF Blocks
  <2>3. Cardinality(DOMAIN v) <= o.cap
    BY <2>1, FS_EmptySet DEF WellFormed
  <2>4. QED
    BY <1>2, <2>1, <2>2, <2>3 DEF Values, AcceptsParams
<1>3. CASE o.field = "delvedCards"
  <2>1. <<>> \in Values(o)
    BY <1>3, EmptyList DEF Values
  <2>2. Items(<<>>) = {} /\ Len(<<>>) = 0
    BY DEF Items, Range
  <2>3. Distinct(<<>>)
    BY <2>2, FS_EmptySet DEF Distinct
  <2>4. QED
    BY <1>3, <2>1, <2>2, <2>3 DEF AcceptsParams, WellFormed
<1>4. CASE o.field = "bouncedPermanents"
  <2>1. o.ids \subseteq Ids /\ o.cap \in 1..Cardinality(o.ids)
    BY <1>4 DEF WellFormed
  <2>2. PICK l \in Lists : Distinct(l) /\ Items(l) \subseteq o.ids /\ Len(l) = o.cap
    BY <2>1, ListOf
  <2>3. QED
    BY <1>4, <2>2 DEF Values, AcceptsParams
<1>5. CASE o.field \notin {"attackers", "blockers", "delvedCards", "bouncedPermanents"}
  BY <1>5 DEF AcceptsParams, Values
<1>6. QED
  BY <1>1, <1>2, <1>3, <1>4, <1>5

LEMMA SomeResponse ==
  ASSUME NEW o
  PROVE  \E r \in Responses(o) : AcceptsResponse(o, r)
<1>0. Items(<<>>) = {}
  BY DEF Items, Range
<1>1. CASE o.field = "sources"
  <2> DEFINE r == [autoPay |-> FALSE, list |-> <<>>]
  <2>1. r \in Responses(o)
    BY <1>1, EmptyList DEF Responses
  <2>2. DOMAIN r # DOMAIN Cancel
    BY DEF Cancel
  <2>3. QED
    BY <1>0, <1>1, <2>1, <2>2 DEF AcceptsResponse
<1>2. CASE o.field = "targets"
  <2> DEFINE m == [x \in {} |-> x]
             r == [map |-> m]
  <2>1. m \in [{} -> SUBSET Ids] /\ DOMAIN m = {}
    OBVIOUS
  <2>2. m \in Blocks
    BY <2>1 DEF Blocks
  <2>3. r \in Responses(o)
    BY <1>2, <2>2 DEF Responses
  <2>4. DOMAIN r # DOMAIN Cancel
    BY DEF Cancel
  <2>5. QED
    BY <1>2, <2>1, <2>3, <2>4 DEF AcceptsResponse
<1>3. CASE o.field = "cards"
  <2> DEFINE r == [list |-> <<>>]
  <2>1. r \in Responses(o)
    BY <1>3, EmptyList DEF Responses
  <2>2. DOMAIN r # DOMAIN Cancel
    BY DEF Cancel
  <2>3. QED
    BY <1>0, <1>3, <2>1, <2>2 DEF AcceptsResponse
<1>4. CASE o.field \notin {"sources", "targets", "cards"}
  <2> DEFINE r == [kind |-> "kind"]
  <2>1. r \in Responses(o)
    BY <1>4 DEF Responses
  <2>2. DOMAIN r # DOMAIN Cancel
    BY DEF Cancel
  <2>3. QED
    BY <1>4, <2>1, <2>2 DEF AcceptsResponse
<1>5. QED
  BY <1>1, <1>2, <1>3, <1>4

LEMMA FormatFair ==
  ASSUME NEW f \in Flags, NEW o, WellFormed(o)
  PROVE  FormatIsFair(f, o)
<1>1. o.channel \in {"action", "decision"}
  BY DEF WellFormed
<1>2. \A a \in Answers(o) : Verdict(f, o, a) \in {"valid", "untyped"} => FitsOrUntyped(f, o, a)
  BY <1>1, TakenFits
<1>3. \E a \in Answers(o) : Fits(f, o, a) /\ Verdict(f, o, a) = "valid"
  <2>1. CASE o.channel = "action"
    <3>1. PICK v \in Values(o) : AcceptsParams(o, v)
      BY SomeAction
    <3>2. QED
      BY <2>1, <3>1, PlainAction
  <2>2. CASE o.channel = "decision"
    <3>1. PICK r \in Responses(o) : AcceptsResponse(o, r)
      BY SomeResponse
    <3>2. QED
      BY <2>2, <3>1, PlainResponse
  <2>3. QED
    BY <1>1, <2>1, <2>2
<1>4. QED
  BY <1>2, <1>3 DEF FormatIsFair, FitsOrUntyped

-----------------------------------------------------------------------------
(* The invariant of a call.  What was sent is what is kept of it, but for  *)
(* the request that is out.                                                *)
Places ==
  {"route", "handled", "attempt", "looking", "waiting", "chosen", "refused", "exhausted",
   "raised", "untyped", "acted", "failed"}
VerdictsOfAnswers == {"valid", "invalid", "untyped", "contract"}
Kept == VerdictsOfAnswers \cup {"open", "budget", "transient", "transport", "unsent"}

CallTypes ==
  /\ conf \in Confs /\ pc \in Places
  /\ clock \in Nat /\ until \in Nat /\ attempt \in Nat /\ funds \in Nat
  /\ attempts \in Seq(Kept) /\ sent \in Seq(Kept)

(* An attempt of the local pilot that was kept and never sent.             *)
Unsent == Local /\ pc \in {"raised", "failed"} /\ attempts = Append(sent, "unsent")

TraceOK ==
  /\ pc = "waiting" => sent = Append(attempts, "open")
  /\ pc \notin {"waiting", "untyped"} => sent = attempts \/ Unsent
  /\ pc \in {"route", "handled"} => sent = <<>>
  /\ pc = "chosen" => sent # <<>> /\ Last(sent) = "valid"

(* Attempts are within their number, and reservations within the funds.    *)
CountOK ==
  /\ attempt < conf.maxAttempts /\ Len(sent) <= conf.maxAttempts
  /\ pc \in {"route", "attempt", "looking", "waiting"} => Len(attempts) = attempt
  /\ ~Local => Len(sent) + funds = conf.funds
  /\ pc \in {"route", "handled"} => funds = conf.funds

ReceiptOK ==
  /\ pc \notin {"acted", "failed"} => receipt = <<>>
  /\ pc = "acted" => /\ receipt = <<[outcome |-> "choice", attempts |-> attempts]>>
                     /\ sent # <<>> => Last(sent) = "valid"
  /\ pc = "failed" =>
       receipt = IF attempts = <<>> THEN <<>> ELSE <<[outcome |-> "error", attempts |-> attempts]>>

(* A child in flight is killed in time; without a pilot there is none.     *)
TimeOK ==
  /\ conf.pilot # "plain" => clock + Margin <= CallbackLimit
  /\ conf.pilot # "plain" /\ pc \in {"looking", "waiting"} => until + Margin <= CallbackLimit
  /\ pc = "looking" => Local
  /\ conf.pilot = "absent" => pc \in {"route", "handled", "raised", "acted", "failed"}

(* Only a component that takes the window answers without a model.         *)
RouteOK == pc = "handled" => Takes(conf.component, conf.window) # {}

CallInv == CallTypes /\ TraceOK /\ CountOK /\ ReceiptOK /\ TimeOK /\ RouteOK

LEMMA VerdictType ==
  ASSUME NEW f, NEW o, NEW a
  PROVE  Verdict(f, o, a) \in VerdictsOfAnswers
<1>1. \A p, v : ContinuationVerdict(f, o, v, p) \in VerdictsOfAnswers
  BY DEF ContinuationVerdict, VerdictsOfAnswers
<1>2. \A p : ThenCastVerdict(f, o, p) \in VerdictsOfAnswers
  BY DEF ThenCastVerdict, VerdictsOfAnswers
<1>3. \A d : DelegationVerdict(f, o, d) \in VerdictsOfAnswers
  BY DEF DelegationVerdict, VerdictsOfAnswers
<1>4. \A p, v : PlanVerdict(f, o, v, p) \in VerdictsOfAnswers
  BY <1>1, <1>2, <1>3 DEF PlanVerdict, VerdictsOfAnswers
<1>5. QED
  BY <1>4 DEF Verdict, VerdictsOfAnswers

LEMMA ConfTypes ==
  ASSUME conf \in Confs
  PROVE  /\ conf.pilot \in {"absent", "plain", "bounded", "local"}
         /\ conf.maxAttempts \in Nat \ {0} /\ conf.funds \in Nat
         /\ conf.window \in Windows /\ conf.flags \in Flags /\ WellFormed(conf.offer)
BY PilotCallAssumption

LEMMA Limits ==
  /\ CallbackLimit \in Nat /\ RequestLimit \in Nat /\ Margin \in Nat /\ MinRetry \in Nat
  /\ LocalLimit \in Nat /\ EngineLimit \in Nat /\ LocalLimit + Margin <= CallbackLimit
BY PilotCallAssumption

LEMMA OutcomeOfOpen ==
  ASSUME NEW s \in Seq(Kept), NEW x \in Kept, NEW y \in Kept
  PROVE  [Append(s, x) EXCEPT ![Len(Append(s, x))] = y] = Append(s, y)
<1>1. /\ Append(s, x) \in Seq(Kept) /\ Append(s, y) \in Seq(Kept) /\ Len(s) \in Nat
      /\ Len(Append(s, x)) = Len(s) + 1 /\ Len(Append(s, y)) = Len(s) + 1
      /\ \A i \in 1..Len(s) : Append(s, x)[i] = s[i] /\ Append(s, y)[i] = s[i]
      /\ Append(s, y)[Len(s) + 1] = y
  BY AppendProperties
<1>2. PICK t \in Seq(Kept), u \in Seq(Kept) : t = Append(s, x) /\ u = Append(s, y)
  BY <1>1
<1>3. PICK n \in Nat : n = Len(s)
  BY <1>1
<1>4. /\ Len(t) = n + 1 /\ Len(u) = n + 1 /\ u[n + 1] = y
      /\ \A i \in 1..n : t[i] = s[i] /\ u[i] = s[i]
  BY ONLY <1>1, <1>2, <1>3
<1>5. t \in [1..(n + 1) -> Kept] /\ u \in [1..(n + 1) -> Kept]
  BY ONLY <1>2, <1>4, LenProperties
<1>6. [t EXCEPT ![n + 1] = y] = u
  BY ONLY <1>3, <1>4, <1>5
<1>7. QED
  BY <1>2, <1>3, <1>4, <1>6

LEMMA LastOfAppended ==
  ASSUME NEW s \in Seq(Kept), NEW x \in Kept
  PROVE  Append(s, x) \in Seq(Kept) /\ Append(s, x) # <<>> /\ Last(Append(s, x)) = x
         /\ Len(Append(s, x)) = Len(s) + 1
BY DEF Last

LEMMA CallStarts == CallInit => CallInv
<1> SUFFICES ASSUME CallInit PROVE CallInv
  OBVIOUS
<1>1. CallTypes
  BY ConfTypes, Limits DEF CallInit, CallTypes, Places
<1>2. TraceOK /\ ReceiptOK /\ RouteOK
  BY DEF CallInit, TraceOK, ReceiptOK, RouteOK
<1>3. CountOK /\ TimeOK
  BY ConfTypes, Limits DEF CallInit, CountOK, TimeOK
<1>4. QED
  BY <1>1, <1>2, <1>3 DEF CallInv

(* A step that sends nothing and learns nothing.                           *)
LEMMA QuietStep ==
  ASSUME CallInv, UNCHANGED <<conf, clock, attempt, attempts, funds, sent, receipt>>,
         until' \in Nat, pc' \in Places,
         pc \notin {"waiting", "untyped", "raised", "acted", "failed"},
         pc' \in {"refused", "raised", "handled", "attempt", "looking"},
         pc' \in {"handled", "attempt"} => pc = "route",
         pc' = "handled" => Takes(conf.component, conf.window) # {},
         pc' = "attempt" => conf.pilot # "absent",
         pc' = "looking" => pc = "attempt" /\ Local /\ until' = LocalLimit,
         pc' = "refused" => pc = "chosen"
  PROVE  CallInv'
<1>1. CallTypes' /\ RouteOK'
  BY DEF CallInv, CallTypes, RouteOK
<1>2. TraceOK'
  BY DEF CallInv, TraceOK, Unsent
<1>3. ReceiptOK'
  BY DEF CallInv, ReceiptOK
<1>4. CountOK'
  BY DEF CallInv, CountOK, Local
<1>5. TimeOK'
  BY Limits DEF CallInv, TimeOK, Local
<1>6. QED
  BY <1>1, <1>2, <1>3, <1>4, <1>5 DEF CallInv

(* A request leaves: it is open until something is known of it.            *)
LEMMA SendStep ==
  ASSUME CallInv, pc \in {"attempt", "looking"}, conf.pilot # "absent",
         UNCHANGED <<conf, clock, attempt, attempts, receipt>>, until' \in Nat,
         sent' = Append(sent, "open"), pc' = "waiting",
         IF Local THEN funds' = funds ELSE funds > 0 /\ funds' = funds - 1,
         conf.pilot # "plain" => until' + Margin <= CallbackLimit
  PROVE  CallInv'
<1>0. sent = attempts /\ sent \in Seq(Kept) /\ "open" \in Kept
  BY DEF CallInv, CallTypes, TraceOK, Kept, Unsent
<1>a. sent' \in Seq(Kept) /\ sent' # <<>> /\ Len(sent') = Len(sent) + 1
  BY <1>0, LastOfAppended
<1>1. CallTypes' /\ RouteOK'
  BY <1>a DEF CallInv, CallTypes, RouteOK, Places
<1>2. TraceOK' /\ ReceiptOK'
  BY <1>0 DEF CallInv, TraceOK, ReceiptOK
<1>3. CountOK'
  BY <1>0, <1>a, ConfTypes DEF CallInv, CountOK, CallTypes, Local
<1>4. TimeOK'
  BY DEF CallInv, TimeOK, Local
<1>5. QED
  BY <1>1, <1>2, <1>3, <1>4 DEF CallInv

(* Something becomes known of the request that is out, or it is given up.  *)
LEMMA KnownStep ==
  ASSUME CallInv, pc = "waiting", NEW what \in Kept,
         UNCHANGED <<conf, clock, until, funds, receipt>>,
         sent' = Append(attempts, what), attempts' = Append(attempts, what),
         \/ pc' \in {"raised", "refused"} /\ attempt' = attempt
         \/ pc' = "chosen" /\ attempt' = attempt /\ what = "valid"
         \/ pc' = "exhausted" /\ attempt' = attempt
         \/ pc' = "attempt" /\ attempt' = attempt + 1 /\ More
  PROVE  CallInv'
<1>0. sent = Append(attempts, "open") /\ attempts \in Seq(Kept) /\ "open" \in Kept
  BY DEF CallInv, CallTypes, TraceOK, Kept
<1>a. /\ sent' \in Seq(Kept) /\ sent' # <<>> /\ Last(sent') = what
      /\ Len(sent') = Len(attempts) + 1 /\ Len(sent) = Len(attempts) + 1
  BY <1>0, LastOfAppended
<1>1. CallTypes' /\ RouteOK'
  BY <1>a DEF CallInv, CallTypes, RouteOK, Places
<1>2. TraceOK' /\ ReceiptOK'
  BY <1>a DEF CallInv, TraceOK, ReceiptOK
<1>3. CountOK'
  BY <1>a, ConfTypes DEF CallInv, CountOK, CallTypes, Local, More
<1>4. TimeOK'
  BY DEF CallInv, TimeOK, Local
<1>5. QED
  BY <1>1, <1>2, <1>3, <1>4 DEF CallInv

(* The answer has no type that anybody expects: nothing is made of it.     *)
LEMMA UntypedStep ==
  ASSUME CallInv, pc = "waiting", NEW what \in Kept,
         UNCHANGED <<conf, clock, until, funds, receipt, attempts, attempt>>,
         sent' = Append(attempts, what), pc' = "untyped"
  PROVE  CallInv'
<1>0. sent = Append(attempts, "open") /\ attempts \in Seq(Kept) /\ "open" \in Kept
  BY DEF CallInv, CallTypes, TraceOK, Kept
<1>a. /\ sent' \in Seq(Kept) /\ Len(sent') = Len(attempts) + 1 /\ Len(sent) = Len(attempts) + 1
  BY <1>0, LastOfAppended
<1>1. CallTypes' /\ RouteOK' /\ TraceOK' /\ ReceiptOK'
  BY <1>a DEF CallInv, CallTypes, RouteOK, Places, TraceOK, ReceiptOK
<1>2. CountOK' /\ TimeOK'
  BY <1>a DEF CallInv, CountOK, TimeOK, Local
<1>3. QED
  BY <1>1, <1>2 DEF CallInv

(* The attempt is kept, and never sent.                                    *)
LEMMA UnsentStep ==
  ASSUME CallInv, LocalUnsent
  PROVE  CallInv'
<1>0. /\ pc = "looking" /\ pc' = "raised" /\ attempts' = Append(attempts, "unsent")
      /\ UNCHANGED <<conf, clock, receipt, until, attempt, funds, sent>> /\ Local
  BY DEF LocalUnsent, Raise, call, CallInv, TimeOK
<1>1. sent = attempts /\ attempts \in Seq(Kept) /\ attempts' \in Seq(Kept)
  BY <1>0, LastOfAppended DEF CallInv, CallTypes, TraceOK, Unsent, Kept
<1>2. CallTypes' /\ RouteOK' /\ ReceiptOK'
  BY <1>0, <1>1 DEF CallInv, CallTypes, RouteOK, ReceiptOK, Places
<1>3. TraceOK'
  BY <1>0, <1>1 DEF TraceOK, Unsent, Local
<1>4. CountOK' /\ TimeOK'
  BY <1>0 DEF CallInv, CountOK, TimeOK, Local
<1>5. QED
  BY <1>2, <1>3, <1>4 DEF CallInv

LEMMA OutcomeStep ==
  ASSUME CallInv, pc = "waiting", NEW what \in Kept, Outcome(what)
  PROVE  sent' = Append(attempts, what)
<1>1. sent = Append(attempts, "open") /\ attempts \in Seq(Kept) /\ "open" \in Kept
  BY DEF CallInv, CallTypes, TraceOK, Kept
<1>2. QED
  BY <1>1, OutcomeOfOpen DEF Outcome

LEMMA AnswerStep ==
  ASSUME CallInv, pc = "waiting", NEW v \in VerdictsOfAnswers, Outcome(v), Answered(v),
         UNCHANGED <<conf, clock, until, funds, receipt>>
  PROVE  CallInv'
<1>1. v \in Kept /\ sent' = Append(attempts, v)
  BY OutcomeStep DEF Kept
<1>2. CASE v \in {"valid", "contract"}
  BY <1>1, <1>2, KnownStep DEF Answered
<1>3. CASE v = "invalid" /\ More
  BY <1>1, <1>3, KnownStep DEF Answered
<1>4. CASE v = "invalid" /\ ~More
  <2>1. attempt' = attempt
    BY <1>4 DEF Answered, CallInv, CallTypes
  <2>2. QED
    BY <1>1, <1>4, <2>1, KnownStep DEF Answered
<1>5. CASE v = "untyped"
  BY <1>1, <1>5, UntypedStep DEF Answered
<1>6. QED
  BY <1>2, <1>3, <1>4, <1>5 DEF VerdictsOfAnswers

LEMMA CallNextInv == CallInv /\ [CallNext]_callVars => CallInv'
<1> SUFFICES ASSUME CallInv, [CallNext]_callVars PROVE CallInv'
  OBVIOUS
<1> USE DEF call
<1>0. /\ conf \in Confs /\ until \in Nat /\ clock \in Nat /\ attempts \in Seq(Kept) /\ "open" \in Kept
      /\ funds \in Nat /\ attempt \in Nat
  BY DEF CallInv, CallTypes, Kept
<1>1. CASE Route
  BY <1>0, <1>1, QuietStep, ConfTypes DEF Route, Places
<1>2. CASE OutOfTime \/ BudgetRefuses \/ LookUpFails
  BY <1>0, <1>2, QuietStep DEF OutOfTime, BudgetRefuses, LookUpFails, Raise, Places
<1>3. CASE Exhausted
  BY <1>0, <1>3, QuietStep DEF Exhausted, Raise, Places
<1>4. CASE Dispatch
  <2>1. conf.pilot # "absent"
    BY <1>4 DEF Dispatch, CallInv, TimeOK
  <2>2. ~Local /\ ~(conf.pilot = "local")
    BY <1>4 DEF Dispatch, Local
  <2>3. until' \in Nat /\ (conf.pilot # "plain" => until' + Margin <= CallbackLimit)
    <3>1. CASE Bounded
      <4>1. until' = clock + (IF RequestLimit < (CallbackLimit - clock) - Margin
                              THEN RequestLimit ELSE (CallbackLimit - clock) - Margin)
        BY <1>4, <3>1 DEF Dispatch, Deadline, Remaining
      <4>2. CallbackLimit - clock >= MinRetry + Margin
        BY <1>4, <3>1 DEF Dispatch, RoomToRetry, Remaining
      <4>3. QED
        BY <1>0, <4>1, <4>2, Limits
    <3>2. CASE ~Bounded
      BY <1>0, <1>4, <2>1, <2>2, <3>2, ConfTypes DEF Dispatch, Bounded
    <3>3. QED
      BY <3>1, <3>2
  <2>4. QED
    BY <1>0, <1>4, <2>1, <2>2, <2>3, SendStep DEF Dispatch
<1>5. CASE ChildKilled \/ SettlementFails
  <2>1. CASE ChildKilled
    <3>1. sent' = Append(attempts, "open") /\ pc = "waiting"
      BY <1>0, <2>1 DEF ChildKilled, CallInv, TraceOK
    <3>2. QED
      BY <1>0, <2>1, <3>1, KnownStep DEF ChildKilled, Raise
  <2>2. CASE SettlementFails
    <3>1. "budget" \in Kept /\ sent' = Append(attempts, "budget")
      BY <2>2, OutcomeStep DEF SettlementFails, Kept
    <3>2. QED
      BY <2>2, <3>1, KnownStep DEF SettlementFails, Raise
  <2>3. QED
    BY <1>5, <2>1, <2>2
<1>6. CASE LookUp
  BY <1>0, <1>6, QuietStep, Limits DEF LookUp, Raise, Places
<1>7. CASE LocalDispatch
  <2>1. Local /\ conf.pilot = "local" /\ pc = "looking"
    BY <1>7 DEF LocalDispatch, CallInv, TimeOK, Local
  <2>2. until + Margin <= CallbackLimit
    BY <2>1 DEF CallInv, TimeOK
  <2>3. QED
    BY <1>0, <1>7, <2>1, <2>2, SendStep DEF LocalDispatch
<1>8. CASE CancelSeen
  <2>1. CASE pc = "waiting"
    <3>1. sent' = Append(attempts, "open")
      BY <1>0, <1>8, <2>1 DEF CancelSeen, CallInv, TraceOK
    <3>2. QED
      BY <1>0, <1>8, <2>1, <3>1, KnownStep DEF CancelSeen, Raise
  <2>2. CASE pc # "waiting"
    BY <1>0, <1>8, <2>2, QuietStep DEF CancelSeen, Raise, Waiting, Places
  <2>3. QED
    BY <2>1, <2>2
<1>9. CASE SeatActs
  <2>1. receipt = <<>> /\ sent = attempts /\ (sent # <<>> => Last(sent) = "valid")
    BY <1>9 DEF SeatActs, CallInv, TraceOK, Unsent, ReceiptOK
  <2>2. receipt' = <<[outcome |-> "choice", attempts |-> attempts]>> /\ pc' = "acted"
        /\ UNCHANGED <<conf, clock, until, attempt, attempts, funds, sent>>
    BY <1>9, <2>1 DEF SeatActs, Record
  <2>3. CallTypes' /\ RouteOK' /\ TraceOK' /\ ReceiptOK'
    BY <2>1, <2>2 DEF CallInv, CallTypes, RouteOK, TraceOK, ReceiptOK, Places
  <2>4. CountOK' /\ TimeOK'
    BY <2>2 DEF CallInv, CountOK, TimeOK, Local
  <2>5. QED
    BY <2>3, <2>4 DEF CallInv
<1>10. CASE SeatRefuses
  BY <1>0, <1>10, QuietStep DEF SeatRefuses, Places
<1>11. CASE SeatReports
  <2>1. receipt = <<>> /\ pc = "raised" /\ (sent = attempts \/ (Local /\ attempts = Append(sent, "unsent")))
    BY <1>11 DEF SeatReports, CallInv, TraceOK, Unsent, ReceiptOK
  <2>2. /\ receipt' = IF attempts = <<>> THEN <<>> ELSE <<[outcome |-> "error", attempts |-> attempts]>>
        /\ pc' = "failed" /\ UNCHANGED <<conf, clock, until, attempt, attempts, funds, sent>>
    BY <1>11, <2>1 DEF SeatReports, Record
  <2>3. CallTypes' /\ RouteOK' /\ TraceOK' /\ ReceiptOK'
    BY <2>1, <2>2 DEF CallInv, CallTypes, RouteOK, TraceOK, Unsent, Local, ReceiptOK, Places
  <2>4. CountOK' /\ TimeOK'
    BY <2>2 DEF CallInv, CountOK, TimeOK, Local
  <2>5. QED
    BY <2>3, <2>4 DEF CallInv
<1>12. CASE ProviderAnswers
  <2>1. PICK v \in Verdicts : Outcome(v) /\ Answered(v)
    BY <1>12 DEF ProviderAnswers
  <2>2. v \in VerdictsOfAnswers
    BY VerdictType DEF Verdicts
  <2>3. QED
    BY <1>12, <2>1, <2>2, AnswerStep DEF ProviderAnswers
<1>13. CASE ServerFails \/ LocalFails
  <2>1. PICK what \in {"transient", "transport", "budget"} :
          /\ Outcome(what) /\ pc = "waiting"
          /\ \/ More /\ pc' = "attempt" /\ attempt' = attempt + 1 /\ attempts' = FailedTrace(what)
             \/ Raise(FailedTrace(what)) /\ attempt' = attempt
          /\ UNCHANGED <<conf, clock, receipt, until, funds>>
    BY <1>13 DEF ServerFails, LocalFails
  <2>2. what \in Kept /\ sent' = Append(attempts, what)
    BY <2>1, OutcomeStep DEF Kept
  <2>3. QED
    BY <2>1, <2>2, KnownStep DEF FailedTrace, Raise
<1>14. CASE LocalAnswers
  <2>1. PICK v \in Verdicts \ {"untyped"} :
          LET verdict == IF v = "contract" THEN "invalid" ELSE v IN
            /\ Outcome(verdict)
            /\ IF Cancelled THEN Raise(Append(attempts, verdict)) /\ UNCHANGED <<attempt, validation>>
               ELSE Answered(verdict)
    BY <1>14 DEF LocalAnswers
  <2> DEFINE verdict == IF v = "contract" THEN "invalid" ELSE v
  <2>2. verdict \in VerdictsOfAnswers /\ verdict \in Kept
    BY VerdictType DEF Verdicts, VerdictsOfAnswers, Kept
  <2>3. Outcome(verdict) /\ pc = "waiting" /\ UNCHANGED <<conf, clock, receipt, until, funds>>
    BY <1>14, <2>1 DEF LocalAnswers
  <2>4. CASE Cancelled
    <3>1. Raise(Append(attempts, verdict)) /\ attempt' = attempt
      BY <2>1, <2>4
    <3>2. sent' = Append(attempts, verdict)
      BY <2>2, <2>3, OutcomeStep
    <3> HIDE DEF verdict
    <3>3. QED
      BY <2>2, <2>3, <3>1, <3>2, KnownStep DEF Raise
  <2>5. CASE ~Cancelled
    <3>1. Answered(verdict)
      BY <2>1, <2>5
    <3> HIDE DEF verdict
    <3>2. QED
      BY <2>2, <2>3, <3>1, AnswerStep
  <2>6. QED
    BY <2>4, <2>5
<1>15. CASE EngineLeaves \/ Closes
  <2>1. UNCHANGED <<conf, pc, clock, until, attempt, validation, attempts, funds, receipt, sent>>
    BY <1>15 DEF EngineLeaves, Closes
  <2>2. QED
    BY <2>1 DEF CallInv, CallTypes, TraceOK, Unsent, CountOK, ReceiptOK, TimeOK, RouteOK, Local
<1>16. CASE Tick
  <2>1. /\ clock' = clock + 1 /\ pc \in {"waiting", "looking"}
        /\ conf.pilot # "plain" => clock < until
        /\ UNCHANGED <<conf, pc, until, attempt, validation, attempts, funds, receipt, sent>>
    BY <1>16 DEF Tick, Waiting
  <2>2. CallTypes' /\ TraceOK' /\ CountOK' /\ ReceiptOK' /\ RouteOK'
    BY <2>1 DEF CallInv, CallTypes, TraceOK, Unsent, CountOK, ReceiptOK, RouteOK, Local
  <2>3. TimeOK'
    BY <1>0, <2>1, Limits DEF CallInv, TimeOK, Local
  <2>4. QED
    BY <2>2, <2>3 DEF CallInv
<1>17. CASE UNCHANGED callVars
  BY <1>17 DEF CallInv, CallTypes, TraceOK, Unsent, CountOK, ReceiptOK, TimeOK, RouteOK, Local, callVars
<1>18. CASE LocalUnsent
  BY <1>18, UnsentStep
<1>19. QED
  BY <1>1, <1>2, <1>3, <1>4, <1>5, <1>6, <1>7, <1>8, <1>9, <1>10, <1>11, <1>12, <1>13, <1>14, <1>15,
     <1>16, <1>17, <1>18 DEF CallNext, Pilot, World

(* The invariant of a call: what was sent is what is kept, and the time of *)
(* every attempt is within that of the callback.                           *)
THEOREM CallIsSound == CallSpec => []CallInv
BY CallStarts, CallNextInv, PTL DEF CallSpec

(* Whatever was sent to a provider is in the one receipt of the callback,  *)
(* for any number of attempts and any funds.                               *)
THEOREM PaidReported == CallSpec => []PaidIsReported
<1>1. CallInv => PaidIsReported
  <2> SUFFICES ASSUME CallInv, pc \in {"acted", "failed"} PROVE PaidIsReported
    BY DEF PaidIsReported
  <2>1. attempts = sent \/ (Local /\ pc = "failed" /\ attempts = Append(sent, "unsent"))
    BY DEF CallInv, TraceOK, ReceiptOK, Unsent
  <2>2. Report = attempts /\ Len(receipt) = (IF pc = "failed" /\ attempts = <<>> THEN 0 ELSE 1)
    <3>1. CASE pc = "acted"
      BY <3>1 DEF CallInv, ReceiptOK, Report
    <3>2. CASE pc = "failed" /\ attempts = <<>>
      BY <3>2 DEF CallInv, ReceiptOK, Report
    <3>3. CASE pc = "failed" /\ attempts # <<>>
      BY <3>3 DEF CallInv, ReceiptOK, Report
    <3>4. QED
      BY <3>1, <3>2, <3>3
  <2>3. pc = "acted" /\ sent # <<>> => Last(sent) = "valid"
    BY DEF CallInv, ReceiptOK
  <2>4. Len(sent) <= conf.maxAttempts /\ (Local \/ Len(sent) <= conf.funds)
    <3>1. Len(sent) \in Nat /\ funds \in Nat
      BY DEF CallInv, CallTypes
    <3>2. QED
      BY <3>1, ConfTypes DEF CallInv, CountOK, CallTypes
  <2>5. QED
    BY <2>1, <2>2, <2>3, <2>4 DEF PaidIsReported
<1>2. QED
  BY <1>1, CallIsSound, PTL

(* The bounded and the local pilot are back in time, for any limits in the *)
(* order the code has them in.                                             *)
THEOREM BackSoon == CallSpec => []BackInTime
<1>1. CallInv => BackInTime
  BY DEF CallInv, TimeOK, BackInTime
<1>2. QED
  BY <1>1, CallIsSound, PTL

(* The format that goes with a request is fair, for every offer, set of    *)
(* ids and setting of the provider.                                        *)
THEOREM FormatsFair == CallSpec => []FormatsAreFair
<1>1. CallInv => FormatsAreFair
  BY ConfTypes, FormatFair DEF CallInv, CallTypes, FormatsAreFair
<1>2. QED
  BY <1>1, CallIsSound, PTL

(* What is answered without a model was forced, for every window.          *)
THEOREM RoutesForced == CallSpec => []RoutesAreForced
<1>1. CallInv => RoutesAreForced
  BY ConfTypes, RouteForced DEF CallInv, CallTypes, TraceOK, CountOK, RoutesAreForced
<1>2. QED
  BY <1>1, CallIsSound, PTL
==============================================================================
