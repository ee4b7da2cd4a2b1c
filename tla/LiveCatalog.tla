------------------------------ MODULE LiveCatalog ------------------------------
(***************************************************************************)
(* The live binding catalog (live_binding_catalog.py): a publisher, run by *)
(* a timer under a file lock (scripts/publish_binding_catalog.py), turns   *)
(* the clean head of a Git checkout into an immutable snapshot and points  *)
(* current.json at it; the services read the pointer and keep the last few *)
(* snapshots they loaded.                                                  *)
(*                                                                         *)
(* A snapshot is named by the digest of its contents and its commit, so    *)
(* the commit stands for it.                                               *)
(***************************************************************************)
EXTENDS Integers, FiniteSets, SequencesExt

CONSTANTS
  Commits,
  Tree,         \* commit -> [schema, plain, active, bindings, decks, pilots, knowledge]
  Base,         \* the commit the release was qualified with
  Readers,      \* the services with a registry of their own
  Threads,      \* request threads of the sidecar
  CacheSize,    \* snapshots a registry keeps (4 in the code)
  MaxPulls,     \* bound on moves of the checkout
  MaxFaults     \* bound on crashes, restarts and spoiled files

-----------------------------------------------------------------------------
(* What a committed tree must be to be offered to players: the loading of  *)
(* binding_catalog.py, the resolution of binding_resolver.py, the profiles *)
(* of game_server_bindings.py.  active is the order in which bindings are  *)
(* offered; an artifact has a ref [id, rev, fp], fp standing for its whole *)
(* content, and a deck or a knowledge artifact also says whether its       *)
(* payload has the digest it pins.                                         *)

None == "none"
Offered(tree) == {tree.active[i] : i \in DOMAIN tree.active}

\* _index_exact, _index_bindings: one artifact to an identity and revision.
Indexed(xs) ==
  \A x, y \in xs : x.ref.id = y.ref.id /\ x.ref.rev = y.ref.rev => x = y

\* _binding without a revision: the only binding of that name, in any revision.
Named(tree, id) == {b \in tree.bindings : b.ref.id = id}

\* resolve: every artifact is the one pinned, to its fingerprint; there is no
\* fallback to another deck, pilot or revision.
Resolves(tree, id) ==
  /\ Cardinality(Named(tree, id)) = 1
  /\ \A b \in Named(tree, id) :
       /\ \E d \in tree.decks : d.ref = b.deck
       /\ \E p \in tree.pilots : p.ref = b.pilot
       /\ b.knowledge # None => \E k \in tree.knowledge : k.ref = b.knowledge

\* validated_registry: `approved` asks the fingerprint of the pilot of every
\* binding that is resolved.
Approved(tree, allowed) ==
  \A id \in Offered(tree) : \A b \in Named(tree, id) : b.pilot.fp \in allowed

\* load_binding_catalog, and the eager registry over what it loaded.
Loads(tree, allowed) ==
  /\ tree.schema
  /\ \A d \in tree.decks : d.payload
  /\ \A k \in tree.knowledge : k.payload
  /\ Indexed(tree.bindings) /\ Indexed(tree.decks)
  /\ Indexed(tree.pilots) /\ Indexed(tree.knowledge)
  /\ tree.active # << >> /\ Cardinality(Offered(tree)) = Len(tree.active)
  /\ \A id \in Offered(tree) : Resolves(tree, id)
  /\ Approved(tree, allowed)

OfferedBindings(tree) == {b \in tree.bindings : b.ref.id \in Offered(tree)}

\* The pilots installed with the release: those its own catalog offers.
AllowedPilots == {b.pilot.fp : b \in OfferedBindings(Tree[Base])}

\* The commits that load, and those that may be published: data files only.
Loadable == {c \in Commits : Loads(Tree[c], AllowedPilots)}
Publishable == {c \in Loadable : Tree[c].plain}

\* validate_decks: the first catalog is the one the release was qualified with, a
\* later one has decks that the native rules accept.
DecksAccepted(c, first) ==
  IF first
    THEN {b.ref : b \in OfferedBindings(Tree[c])} = {b.ref : b \in OfferedBindings(Tree[Base])}
    ELSE \A b \in OfferedBindings(Tree[c]) : \A d \in Tree[c].decks : d.ref = b.deck => d.legal

ASSUME BindingCatalogAssumption ==
  /\ Base \in Commits /\ None \notin Commits
  /\ Loads(Tree[Base], AllowedPilots)

\* The recording lineage of a seat: the binding that is the index-th of the tree.
Lineage(c, index) ==
  LET b == CHOOSE b \in Named(Tree[c], Tree[c].active[index]) : TRUE
  IN  [snapshot |-> c, binding |-> b.ref, deck |-> b.deck, pilot |-> b.pilot]

-----------------------------------------------------------------------------
(* The publisher, the services and their requests.                         *)

Sidecar == "sidecar"
ASSUME LiveCatalogAssumption ==
  /\ CacheSize \in Nat \ {0} /\ MaxPulls \in Nat /\ MaxFaults \in Nat
  /\ Sidecar \in Readers /\ "broken" \notin Commits

VARIABLES
  checkout,     \* [head, clean, pulls]
  pub,          \* the publisher: [at, head]
  disk,         \* commit -> "absent", "whole" or "spoiled": snapshots/<digest>
  pointer,      \* current.json: None, a commit, or "broken"
  reg,          \* reader -> [up, loaded, current]; loaded is in order of use,
                \*   each entry [snap, from] with the state of the files it was read from
  request,      \* thread -> [at, arg]: the step it is at and the snapshot it read
  advertised,   \* history: snapshots some listing offered
  faults

catalogVars == <<checkout, pub, disk, pointer, reg, request, advertised, faults>>

Down == [up |-> FALSE, loaded |-> << >>, current |-> None]
Idle == [at |-> "idle", head |-> None]
NoRequest == [at |-> "idle", arg |-> None]

CatalogInit ==
  /\ checkout = [head |-> Base, clean |-> TRUE, pulls |-> 0]
  /\ pub = Idle /\ pointer = None
  /\ disk = [c \in Commits |-> "absent"]
  /\ reg = [r \in Readers |-> Down]
  /\ request = [t \in Threads |-> NoRequest]
  /\ advertised = {} /\ faults = 0

-----------------------------------------------------------------------------
(* The checkout, which belongs to whoever pulls (external).                *)

\* A pull takes the index lock and moves the head, then releases it.
Pull ==
  /\ checkout.clean /\ checkout.pulls < MaxPulls
  /\ \E c \in Commits \ {checkout.head} :
       checkout' = [head |-> c, clean |-> FALSE, pulls |-> checkout.pulls + 1]
  /\ UNCHANGED <<pub, disk, pointer, reg, request, advertised, faults>>

Pulled ==
  /\ ~checkout.clean
  /\ checkout' = [checkout EXCEPT !.clean = TRUE]
  /\ UNCHANGED <<pub, disk, pointer, reg, request, advertised, faults>>

-----------------------------------------------------------------------------
(* publish_checkout.                                                       *)

\* verify_snapshot: the files are there and have the digests the snapshot names.
Verified(c) == disk[c] = "whole"

\* A clean head that is not the one selected; the selected one is verified again
\* ("unchanged"), and a pointer that cannot be read refuses.
PubBegins ==
  /\ pub = Idle /\ checkout.clean
  /\ pointer \notin {"broken", checkout.head}
  /\ pub' = [at |-> "staging", head |-> checkout.head]
  /\ UNCHANGED <<checkout, disk, pointer, reg, request, advertised, faults>>

\* The archive of that commit is unpacked beside the snapshots and validated.
Accepted(c) == c \in Publishable /\ DecksAccepted(c, pointer = None)

PubStages ==
  /\ pub.at = "staging"
  /\ pub' = IF Accepted(pub.head) THEN [pub EXCEPT !.at = "staged"] ELSE Idle
  /\ UNCHANGED <<checkout, disk, pointer, reg, request, advertised, faults>>

\* The checkout has not moved meanwhile.
Unmoved == checkout.clean /\ checkout.head = pub.head

\* The whole tree is moved into place at once; one that is there already is verified.
PubInstalls ==
  /\ pub.at = "staged"
  /\ IF Unmoved /\ disk[pub.head] \in {"absent", "whole"}
       THEN /\ disk' = [disk EXCEPT ![pub.head] = "whole"]
            /\ pub' = [pub EXCEPT !.at = "installed"]
       ELSE pub' = Idle /\ UNCHANGED disk
  /\ UNCHANGED <<checkout, pointer, reg, request, advertised, faults>>

\* Variant: the pointer does not wait for the tree to be in place.
PubSelectsStaged ==
  /\ pub.at \in {"staged", "installed"}
  /\ pointer' = pub.head /\ pub' = Idle
  /\ UNCHANGED <<checkout, disk, reg, request, advertised, faults>>

\* ... and selected last.
PubSelects ==
  /\ pub.at = "installed"
  /\ pointer' = pub.head /\ pub' = Idle
  /\ UNCHANGED <<checkout, disk, reg, request, advertised, faults>>

PubDies ==
  /\ pub # Idle /\ faults < MaxFaults
  /\ pub' = Idle /\ faults' = faults + 1
  /\ UNCHANGED <<checkout, disk, pointer, reg, request, advertised>>

-----------------------------------------------------------------------------
(* LiveBindingRegistry.                                                    *)

Held(r, c) == \E i \in DOMAIN reg[r].loaded : reg[r].loaded[i].snap = c
Readable(c) == c \in Loadable /\ Verified(c)
MayLoad(r, c) == c \in Commits /\ (Held(r, c) \/ Readable(c))

\* _load: moved to the end when held, else read, the least recently used let go.
Place(held, c) == CHOOSE i \in DOMAIN held : held[i].snap = c
Load(held, c) ==
  IF \E i \in DOMAIN held : held[i].snap = c
  THEN Append(RemoveAt(held, Place(held, c)), held[Place(held, c)])
  ELSE Append(IF Len(held) < CacheSize THEN held ELSE Tail(held), [snap |-> c, from |-> disk[c]])

\* __init__: the pointer is read, loaded and made current, or the service is not up.
Start(r) ==
  /\ ~reg[r].up /\ Readable(pointer)
  /\ reg' = [reg EXCEPT ![r] = [up |-> TRUE, loaded |-> Load(<< >>, pointer), current |-> pointer]]
  /\ UNCHANGED <<checkout, pub, disk, pointer, request, advertised, faults>>

\* profile_payloads, step by step.  The pointer is read outside the lock ...
LookReads(t) ==
  /\ request[t].at = "idle" /\ reg[Sidecar].up
  /\ request' = [request EXCEPT ![t] = [at |-> IF pointer \in Commits THEN "read" ELSE "list", arg |-> pointer]]
  /\ UNCHANGED <<checkout, pub, disk, pointer, reg, advertised, faults>>

\* ... what it names is loaded under the lock (last_error when it cannot be) ...
LookLoads(t) ==
  /\ request[t].at = "read"
  /\ IF MayLoad(Sidecar, request[t].arg)
       THEN /\ reg' = [reg EXCEPT ![Sidecar].loaded = Load(@, request[t].arg)]
            /\ request' = [request EXCEPT ![t].at = "loaded"]
       ELSE request' = [request EXCEPT ![t].at = "list"] /\ UNCHANGED reg
  /\ UNCHANGED <<checkout, pub, disk, pointer, advertised, faults>>

\* Variant: only a registry with no catalog takes the one it loaded.
LookSelectsFirst(t) ==
  /\ request[t].at = "loaded"
  /\ reg' = IF reg[Sidecar].current = None
               THEN [reg EXCEPT ![Sidecar].current = request[t].arg] ELSE reg
  /\ request' = [request EXCEPT ![t].at = "list"]
  /\ UNCHANGED <<checkout, pub, disk, pointer, advertised, faults>>

\* ... made current under the lock taken again ...
LookSelects(t) ==
  /\ request[t].at = "loaded"
  /\ reg' = [reg EXCEPT ![Sidecar].current = request[t].arg]
  /\ request' = [request EXCEPT ![t].at = "list"]
  /\ UNCHANGED <<checkout, pub, disk, pointer, advertised, faults>>

\* ... and whatever is current by then is listed; the listing fails if that can
\* no longer be loaded.
LookLists(t) ==
  LET c == reg[Sidecar].current IN
  /\ request[t].at = "list"
  /\ request' = [request EXCEPT ![t] = NoRequest]
  /\ IF MayLoad(Sidecar, c)
       THEN /\ reg' = [reg EXCEPT ![Sidecar].loaded = Load(@, c)]
            /\ advertised' = advertised \union {c}
       ELSE UNCHANGED <<reg, advertised>>
  /\ UNCHANGED <<checkout, pub, disk, pointer, faults>>

-----------------------------------------------------------------------------
(* Faults.                                                                 *)

\* A file of a snapshot is changed in place, or the pointer is.
Spoil ==
  /\ faults < MaxFaults /\ faults' = faults + 1
  /\ \/ /\ \E c \in Commits : disk[c] = "whole" /\ disk' = [disk EXCEPT ![c] = "spoiled"]
        /\ UNCHANGED pointer
     \/ /\ pointer # None /\ pointer' = "broken"
        /\ UNCHANGED disk
  /\ UNCHANGED <<checkout, pub, reg, request, advertised>>

CatalogNext ==
  \/ Pull \/ Pulled
  \/ PubBegins \/ PubStages \/ PubInstalls \/ PubSelects \/ PubDies
  \/ \E r \in Readers : Start(r)
  \/ \E t \in Threads : LookReads(t) \/ LookLoads(t) \/ LookSelects(t) \/ LookLists(t)
  \/ Spoil

\* The publisher is started again and again by its timer, and a service by its
\* supervisor; a request thread that has begun goes on, and someone keeps looking
\* at the lobby.
CatalogFairness ==
  /\ WF_catalogVars(Pulled)
  /\ WF_catalogVars(PubBegins) /\ WF_catalogVars(PubStages)
  /\ WF_catalogVars(PubInstalls) /\ WF_catalogVars(PubSelects)
  /\ \A r \in Readers : WF_catalogVars(Start(r))
  /\ \A t \in Threads : WF_catalogVars(LookLoads(t) \/ LookSelects(t) \/ LookLists(t))
  /\ SF_catalogVars(\E t \in Threads : LookReads(t))

=============================================================================
