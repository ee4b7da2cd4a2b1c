--------------------------- MODULE CaptureCustody ---------------------------
(***************************************************************************)
(* Two ways of keeping hold of recordings that others may write.           *)
(*                                                                         *)
(* historical_recording.py: a registry of captures that were acknowledged  *)
(* as incomplete.  It holds both writer locks of each for as long as it    *)
(* vouches for it.  The Gym's lock belongs to an open file; the native     *)
(* one to a process, and is lost when the process closes ANY descriptor of *)
(* that file, even one that never locked it.  A registry that lets go      *)
(* closes one descriptor after the other.                                  *)
(*                                                                         *)
(* manual_runtime_quiescence.py: the inventory of a capture tree, made     *)
(* without a lock by looking at everything twice.                          *)
(***************************************************************************)
EXTENDS Integers, Sequences, FiniteSets

CONSTANTS
  Custodies,     \* what a behaviour is about: [registries, changes]
  Registries,    \* registries of one process
  Places         \* the files of a tree, as <<directory, name>>

ASSUME CustodyAssumption == "nobody" \notin Registries /\ \A c \in Custodies : c.changes \in Nat

VARIABLES
  custody,       \* the member of Custodies of this behaviour
  lockers,       \* who holds each lock: "nobody", a registry, "process" or "writer"
  registry,      \* registry -> [at, open, verified, early]
  capture,       \* the acknowledged capture: "attested" or "changed"
  tree,          \* place -> its stamp, which no change leaves, or 0: no such file
  stamps,        \* stamps given so far
  walk           \* the inventory: [at, dirs, here, todo, found, read, files, then]

custodyVars == <<custody, lockers, registry, capture, tree, stamps, walk>>
registryVars == <<lockers, registry, capture>>
treeVars == <<tree, stamps, walk>>

NoRegistry == [at |-> "closed", open |-> {}, verified |-> FALSE, early |-> FALSE]
NoWalk == [at |-> "idle", dirs |-> {}, here |-> {}, todo |-> {}, found |-> {}, read |-> {},
           files |-> <<>>, then |-> <<>>]
CustodyInit ==
  /\ custody \in Custodies
  /\ lockers = [gym |-> "nobody", native |-> "nobody"]
  /\ registry = [r \in Registries |-> NoRegistry]
  /\ capture = "attested"
  /\ \E present \in SUBSET Places :
       /\ tree = [p \in Places |-> IF p \in present THEN 1 ELSE 0]
       /\ custody.changes = 0 => present = {}
  /\ stamps = 1 /\ walk = NoWalk

-----------------------------------------------------------------------------
(* The registry.                                                           *)

\* The Gym's lock first: another registry of this process must fail before it opens
\* the native lock's file.
\* Variant: the native lock first.
NativeFirst == <<"native", "gym">>
Locks == <<"gym", "native">>

Owner(lock, r) == IF lock = "gym" THEN r ELSE "process"
\* A lock that is taken by its owner already is taken again.
CanLock(lock, r) == lockers[lock] \in {"nobody", Owner(lock, r)}

\* It stops vouching, and closes its descriptors in the order it opened them.
BeginsClose(r) ==
  /\ registry' = [registry EXCEPT ![r].at = IF registry[r].open = {} THEN "closed" ELSE "closing",
                                 ![r].verified = FALSE]
  /\ UNCHANGED <<lockers, capture>>
\* The Gym's lock goes with the file that held it, the native one whoever of this
\* process had taken it.
Released(lock, r) ==
  [lockers EXCEPT ![lock] = IF @ = Owner(lock, r) THEN "nobody" ELSE @]
ClosesLock(r) ==
  /\ registry[r].at = "closing"
  /\ LET lock == IF Locks[1] \in registry[r].open THEN Locks[1] ELSE Locks[2]
         open == registry[r].open \ {lock}
     IN /\ lockers' = Released(lock, r)
        /\ registry' = [registry EXCEPT ![r].open = open,
                                       ![r].at = IF open = {} THEN "closed" ELSE "closing"]
  /\ UNCHANGED capture
\* It has closed the Gym's file, perhaps, and has yet to close the native one.
HalfClosed(r) == registry[r].at = "closing" /\ "native" \in registry[r].open

\* verify: the receipt is read and the locks are taken, each opened before it is tried.
ReadsReceipt(r) ==
  /\ r \in custody.registries /\ registry[r].at = "closed"
  /\ registry' = [registry EXCEPT ![r].at = "opening"]
  /\ UNCHANGED <<lockers, capture>>
OpensLock(r) ==
  /\ registry[r].at = "opening"
  /\ LET n == Cardinality(registry[r].open) + 1
     IN registry' = [registry EXCEPT ![r].open = @ \cup {Locks[n]}, ![r].at = "locking"]
  /\ UNCHANGED <<lockers, capture>>
TakesLock(r) ==
  /\ registry[r].at = "locking"
  /\ LET lock == Locks[Cardinality(registry[r].open)]
     IN IF CanLock(lock, r)
          THEN /\ lockers' = [lockers EXCEPT ![lock] = Owner(lock, r)]
               /\ registry' = [registry EXCEPT
                    ![r].at = IF lock = Locks[2] THEN "checking" ELSE "opening",
                    ![r].early = IF lock = Locks[2] THEN \E q \in Registries \ {r} : HalfClosed(q) ELSE @]
               /\ UNCHANGED capture
          ELSE BeginsClose(r)
\* Members and digests; the files of the locks are read through the descriptors held.
Checks(r) ==
  /\ registry[r].at = "checking"
  /\ IF capture = "attested"
       THEN /\ registry' = [registry EXCEPT ![r].at = "held", ![r].verified = TRUE]
            /\ UNCHANGED <<lockers, capture>>
       ELSE BeginsClose(r)
\* Every later verify looks at members and custody again; a scan that is stopped closes.
VerifiesAgain(r) == registry[r].at = "held" /\ capture # "attested" /\ BeginsClose(r)
StopsRegistry(r) == registry[r].at \notin {"closed", "closing"} /\ BeginsClose(r)

\* The native writer (external) writes under its lock.
WriterLocks ==
  /\ custody.registries # {} /\ lockers.native = "nobody"
  /\ lockers' = [lockers EXCEPT !.native = "writer"] /\ UNCHANGED <<registry, capture>>
WriterWrites == lockers.native = "writer" /\ capture' = "changed" /\ UNCHANGED <<lockers, registry>>
WriterUnlocks ==
  lockers.native = "writer" /\ lockers' = [lockers EXCEPT !.native = "nobody"] /\ UNCHANGED <<registry, capture>>

RegistryNext ==
  \/ \E r \in Registries :
       \/ ReadsReceipt(r) \/ OpensLock(r) \/ TakesLock(r) \/ Checks(r)
       \/ VerifiesAgain(r) \/ StopsRegistry(r) \/ ClosesLock(r)
  \/ WriterLocks \/ WriterWrites \/ WriterUnlocks

-----------------------------------------------------------------------------
(* The inventory.                                                          *)

Dirs == {p[1] : p \in Places}
In(d) == {p \in Places : p[1] = d /\ tree[p] # 0}

\* A file is written, made, replaced or removed; nothing gives back an earlier stamp.
Changes ==
  /\ stamps <= custody.changes /\ walk.at # "idle"
  /\ stamps' = stamps + 1
  /\ \E p \in Places : \E s \in {0, stamps + 1} : tree[p] # s /\ tree' = [tree EXCEPT ![p] = s]
  /\ UNCHANGED walk

BeginsWalk ==
  /\ custody.changes > 0 /\ walk.at = "idle"
  /\ walk' = [NoWalk EXCEPT !.at = "walking", !.dirs = Dirs]
  /\ UNCHANGED <<tree, stamps>>
\* One directory after the other is listed.  Each entry is looked at and then read; one
\* that was made after the listing began may still be met.
AtRest == walk.at = "walking" /\ walk.todo = {} /\ walk.read = {}
ListsDirectory ==
  /\ AtRest
  /\ \E d \in walk.dirs :
       walk' = [walk EXCEPT !.dirs = @ \ {d}, !.here = {d}, !.todo = In(d)]
  /\ UNCHANGED <<tree, stamps>>
Met == walk.todo \cup UNION {In(d) \ walk.found : d \in walk.here}
LooksAtFile ==
  /\ walk.at = "walking" /\ walk.read = {}
  /\ \E p \in Met :
       walk' = IF tree[p] # 0
                 THEN [walk EXCEPT !.todo = @ \ {p}, !.found = @ \cup {p}, !.read = {<<p, tree[p]>>}]
                 ELSE [NoWalk EXCEPT !.at = "failed"]
  /\ UNCHANGED <<tree, stamps>>
SameStamp(f) == tree[f[1]] = f[2]
ReadsFile ==
  /\ walk.at = "walking"
  /\ \E f \in walk.read :
       walk' = IF SameStamp(f)
                 THEN [walk EXCEPT !.read = {}, !.files = Append(@, f)]
                 ELSE [NoWalk EXCEPT !.at = "failed"]
  /\ UNCHANGED <<tree, stamps>>
\* then is history: the tree when everything has been looked at once.
EndsWalk ==
  /\ AtRest /\ walk.dirs = {}
  /\ walk' = [walk EXCEPT !.at = "again", !.dirs = Dirs, !.here = {}, !.then = tree]
  /\ UNCHANGED <<tree, stamps>>
ListsAgain ==
  /\ walk.at = "again" /\ walk.dirs # {}
  /\ \E d \in walk.dirs :
       walk' = IF In(d) = {p \in walk.found : p[1] = d}
                 THEN [walk EXCEPT !.dirs = @ \ {d},
                         !.read = IF walk.dirs = {d} THEN {walk.files[i] : i \in 1..Len(walk.files)} ELSE {}]
                 ELSE [NoWalk EXCEPT !.at = "failed"]
  /\ UNCHANGED <<tree, stamps>>
LooksAgain ==
  /\ walk.at = "again" /\ walk.dirs = {}
  /\ \E f \in walk.read :
       walk' = IF SameStamp(f) THEN [walk EXCEPT !.read = @ \ {f}] ELSE [NoWalk EXCEPT !.at = "failed"]
  /\ UNCHANGED <<tree, stamps>>
EndsInventory ==
  /\ walk.at = "again" /\ walk.dirs = {} /\ walk.read = {}
  /\ walk' = [walk EXCEPT !.at = "made"]
  /\ UNCHANGED <<tree, stamps>>

InventoryNext ==
  \/ Changes \/ BeginsWalk \/ ListsDirectory \/ LooksAtFile \/ ReadsFile \/ EndsWalk
  \/ ListsAgain \/ LooksAgain \/ EndsInventory

-----------------------------------------------------------------------------
CustodyNext ==
  \/ RegistryNext /\ UNCHANGED <<custody, treeVars>>
  \/ InventoryNext /\ UNCHANGED <<custody, registryVars>>

CustodySpec == CustodyInit /\ [][CustodyNext]_custodyVars

\* While a registry vouches for a capture, its writers are locked out and it is as it
\* was attested, whatever other registries of its process try.  The one that took
\* both locks while another was between its two closes is excused: the other's second
\* close takes the native lock from it.  (_acquire, close)
AcknowledgedIsHeld ==
  \A r \in Registries : registry[r].verified =>
    lockers.gym = r /\ (registry[r].early \/ (lockers.native = "process" /\ capture = "attested"))

\* The files of an inventory were there together, each as it was read.  (Not that no
\* other file was: one may come and go between the two looks at its directory.)
InventoryIsOneTree ==
  walk.at = "made" => \A i \in 1..Len(walk.files) : walk.then[walk.files[i][1]] = walk.files[i][2]
=============================================================================
