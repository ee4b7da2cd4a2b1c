---------------------------- MODULE Stores_proofs ----------------------------
(***************************************************************************)
(* What the stores of MCStores keep true, each by itself.                  *)
(*                                                                         *)
(* The card library: the selected snapshot and the pinned ones stay whole, *)
(* for any feed, loaders, readers and queries, and for any number of       *)
(* deaths, power losses and refusals.  The improvement ledger: what is     *)
(* adopted was earned, for any workers, findings, submissions and leases.  *)
(* The evidence store: what is cataloged is grounded and what is issued    *)
(* was earned, for any records, writers, crashes and rotting blobs.        *)
(* Custody, heartbeat and qualification: what is said of the recordings    *)
(* and of the runtime is so, for any registries, trees, beats, attempts    *)
(* and errors; and each of these holds of the composition as well.         *)
(***************************************************************************)
EXTENDS MCStores, FiniteSetTheorems, SequenceTheorems, TLAPS

-----------------------------------------------------------------------------
(***************************************************************************)
(* The card library.                                                       *)
(***************************************************************************)

Waiting == {"idle", "checked"}
Working == {"locked", "wanted", "staged", "db", "linked", "synced", "replaced"}
Chosen == {"wanted", "staged", "db", "linked", "synced", "replaced"}

(* Loaders go through their steps with a revision of the feed, and have    *)
(* the lock exactly while they work.                                       *)
LoadersOK ==
  /\ library \in Libraries /\ feed \in 1..Len(library.revisions)
  /\ loader \in [Loaders -> [at : Waiting \cup Working, want : (DOMAIN Feed) \cup {None}]]
  /\ \A p \in Loaders : loader[p].at \in Chosen => loader[p].want \in DOMAIN Feed
  /\ \A p \in Loaders : loader[p].at \in Working <=> holder = p

SessionsOK == DOMAIN session = Readers /\ \A c \in Readers : "snap" \in DOMAIN session[c]

(* A snapshot is kept when both files of one publication are on disk for   *)
(* good: no loss of power takes them.                                      *)
Files(r) == {Entry(r, "db"), Entry(r, "meta")}
Kept(s) == \E r \in DOMAIN Feed : Snap(r) = s /\ Files(r) \subseteq files \cap synced
Relied == ({current, currentSynced} \cup {session[c].snap : c \in Readers}) \ {None}
KeptOK == \A s \in Relied : Kept(s)

(* What a loader has linked is there, and on disk for good once the        *)
(* directory is synchronized.                                              *)
Linked(p) ==
  LET r == loader[p].want IN
  /\ loader[p].at \in {"db", "linked", "synced", "replaced"} => Entry(r, "db") \in files
  /\ loader[p].at \in {"linked", "synced", "replaced"} => Entry(r, "meta") \in files
  /\ loader[p].at \in {"synced", "replaced"} => Files(r) \subseteq synced
LinkedOK == \A p \in Loaders : Linked(p)

(* What a loader may still take back is nothing that anybody relies on.    *)
ApartOK ==
  \A p \in Loaders :
    loader[p].at \in {"staged", "db", "linked", "synced"} => Snap(loader[p].want) \notin Relied

LibraryInv == LoadersOK /\ SessionsOK /\ KeptOK /\ LinkedOK /\ ApartOK
-----------------------------------------------------------------------------
(***************************************************************************)
(* What the steps have in common.                                          *)
(***************************************************************************)

(* At most one loader works at a time.                                     *)
LEMMA OneWorks ==
  ASSUME LoadersOK, NEW p \in Loaders, NEW q \in Loaders,
         loader[p].at \in Working, loader[q].at \in Working
  PROVE  p = q
BY DEF LoadersOK

(* Freeing a loader resets it and nothing else.                            *)
LEMMA FreeResets ==
  ASSUME LoadersOK, NEW p \in Loaders, Free(p)
  PROVE  /\ loader' \in [Loaders -> [at : Waiting \cup Working, want : (DOMAIN Feed) \cup {None}]]
         /\ loader'[p] = Resting /\ \A q \in Loaders \ {p} : loader'[q] = loader[q]
         /\ holder' = IF holder = p THEN None ELSE holder
<1>1. Resting \in [at : Waiting \cup Working, want : (DOMAIN Feed) \cup {None}]
  BY DEF Resting, Waiting
<1>2. QED
  BY <1>1 DEF LoadersOK, Free

(* Going on to a place changes that loader's place and nothing else.       *)
LEMMA GoingOn ==
  ASSUME LoadersOK, NEW p \in Loaders, NEW place \in Waiting \cup Working, GoesTo(p, place)
  PROVE  /\ loader' \in [Loaders -> [at : Waiting \cup Working, want : (DOMAIN Feed) \cup {None}]]
         /\ loader'[p].at = place /\ loader'[p].want = loader[p].want
         /\ \A q \in Loaders \ {p} : loader'[q] = loader[q]
<1>1. loader \in [Loaders -> [at : Waiting \cup Working, want : (DOMAIN Feed) \cup {None}]]
  BY DEF LoadersOK
<1>2. loader' = [loader EXCEPT ![p] = [loader[p] EXCEPT !.at = place]]
  BY DEF GoesTo
<1>3. [loader[p] EXCEPT !.at = place] \in [at : Waiting \cup Working, want : (DOMAIN Feed) \cup {None}]
  BY <1>1
<1>4. QED
  BY <1>1, <1>2, <1>3

(* A freed loader, and one that goes on, keep the loaders as they should   *)
(* be.                                                                     *)
LEMMA FreeKeeps ==
  ASSUME LoadersOK, NEW p \in Loaders, Free(p), UNCHANGED <<library, feed>>
  PROVE  LoadersOK'
<1>1. Resting.at \in Waiting
  BY DEF Resting, Waiting
<1>2. \A q \in Loaders : loader'[q].at \in Working <=> holder' = q
  BY <1>1, FreeResets, CardLibraryAssumption DEF LoadersOK, Waiting, Working
<1>3. \A q \in Loaders : loader'[q].at \in Chosen => loader'[q].want \in DOMAIN Feed
  BY <1>1, FreeResets DEF LoadersOK, Waiting, Chosen
<1>4. QED
  BY <1>2, <1>3, FreeResets DEF LoadersOK

LEMMA GoingOnKeeps ==
  ASSUME LoadersOK, NEW p \in Loaders, NEW place \in Working, GoesTo(p, place),
         loader[p].at \in Chosen, UNCHANGED <<library, feed, holder>>
  PROVE  LoadersOK'
<1>1. Chosen \subseteq Working
  BY DEF Chosen, Working
<1>2. \A q \in Loaders : loader'[q].at \in Working <=> holder' = q
  BY <1>1, GoingOn DEF LoadersOK
<1>3. \A q \in Loaders : loader'[q].at \in Chosen => loader'[q].want \in DOMAIN Feed
  BY <1>1, GoingOn DEF LoadersOK
<1>4. QED
  BY <1>2, <1>3, GoingOn DEF LoadersOK

(* A kept snapshot stays kept when nothing that is on disk for good is     *)
(* removed, and when what is removed is of another snapshot.               *)
LEMMA KeptStays ==
  ASSUME NEW s, Kept(s), files \cap synced \subseteq files' \cap synced'
  PROVE  \E r \in DOMAIN Feed : Snap(r) = s /\ Files(r) \subseteq files' \cap synced'
BY DEF Kept

LEMMA UndoneApart ==
  ASSUME NEW s, Kept(s), NEW p \in Loaders, Undoes(p), Snap(loader[p].want) # s, synced' = synced
  PROVE  \E r \in DOMAIN Feed : Snap(r) = s /\ Files(r) \subseteq files' \cap synced'
<1>1. PICK r \in DOMAIN Feed : Snap(r) = s /\ Files(r) \subseteq files \cap synced
  BY DEF Kept
<1>2. \A part \in {"db", "meta"} : \A e \in Files(r) : e # Entry(loader[p].want, part)
  BY <1>1 DEF Files, Entry
<1>3. QED
  BY <1>1, <1>2 DEF Undoes

(***************************************************************************)
(* The loaders, and what the readers have pinned.                          *)
(***************************************************************************)

(* The loaders keep to their steps, and the lock to its holder.            *)
LEMMA LoadersStep ==
  ASSUME LoadersOK, [LibraryNext]_libraryVars
  PROVE  LoadersOK'
<1>1. CASE UNCHANGED libraryVars
  BY <1>1 DEF libraryVars, LoadersOK
<1>2. CASE Announce
  BY <1>2, CardLibraryAssumption DEF Announce, LoadersOK
<1>3. CASE PowerLoss
  <2>1. Resting \in [at : Waiting \cup Working, want : (DOMAIN Feed) \cup {None}] /\ Resting.at \in Waiting
    BY DEF Resting, Waiting
  <2>2. loader' = [p \in Loaders |-> Resting] /\ holder' = None /\ UNCHANGED <<library, feed>>
    BY <1>3 DEF PowerLoss
  <2>3. \A p \in Loaders : loader'[p].at \notin Working \cup Chosen /\ holder' # p
    BY <2>1, <2>2, CardLibraryAssumption DEF Waiting, Working, Chosen
  <2>4. QED
    BY <2>1, <2>2, <2>3 DEF LoadersOK
<1>4. CASE Publish
  BY <1>4 DEF Publish, LoadersOK
<1>5. ASSUME NEW p \in library.loaders, Load(p) \/ Refuse(p) \/ Die(p)
      PROVE  LoadersOK'
  <2> p \in Loaders
    BY CardLibraryAssumption DEF LoadersOK
  <2>1. CASE Start(p)
    <3>1. GoesTo(p, "checked") /\ UNCHANGED <<library, feed, holder>> /\ loader[p].at = "idle"
      BY <2>1 DEF Start
    <3>2. loader[p].at \notin Working
      BY <3>1 DEF Working
    <3>3. "checked" \in Waiting /\ "checked" \notin Working \cup Chosen
      BY DEF Waiting, Working, Chosen
    <3>4. QED
      BY <3>1, <3>2, <3>3, GoingOn DEF LoadersOK
  <2>2. CASE Lock(p)
    <3>1. CASE holder = None /\ LayoutOk
      <4>1. holder' = p /\ GoesTo(p, "locked") /\ UNCHANGED <<library, feed>>
        BY <2>2, <3>1 DEF Lock
      <4>2. "locked" \in Working /\ "locked" \notin Chosen
        BY DEF Working, Chosen
      <4>3. \A q \in Loaders : loader[q].at \notin Working
        BY <3>1, CardLibraryAssumption DEF LoadersOK
      <4>4. QED
        BY <4>1, <4>2, <4>3, GoingOn DEF LoadersOK
    <3>2. CASE ~(holder = None /\ LayoutOk)
      BY <2>2, <3>2, FreeKeeps DEF Lock
    <3>3. QED
      BY <3>1, <3>2
  <2>3. CASE Compare(p)
    <3>1. UNCHANGED <<library, feed>> /\ loader[p].at = "locked"
      BY <2>3 DEF Compare
    <3>2. ASSUME loader' = [loader EXCEPT ![p] = [at |-> "wanted", want |-> Served]], UNCHANGED holder
          PROVE  LoadersOK'
      <4>1. Served \in DOMAIN Feed
        BY CardLibraryAssumption DEF LoadersOK, Served
      <4>2. "wanted" \in Working /\ "locked" \in Working
        BY DEF Working
      <4>3. [at |-> "wanted", want |-> Served] \in [at : Waiting \cup Working, want : (DOMAIN Feed) \cup {None}]
        BY <4>1, <4>2
      <4>4. QED
        BY <3>1, <3>2, <4>1, <4>2, <4>3 DEF LoadersOK
    <3>3. QED
      BY <2>3, <3>1, <3>2, FreeKeeps DEF Compare
  <2>4. CASE Prepare(p)
    <3>1. loader[p].at = "wanted" /\ UNCHANGED <<library, feed>>
      BY <2>4 DEF Prepare
    <3>2. Free(p) \/ (GoesTo(p, "staged") /\ UNCHANGED holder)
      BY <2>4 DEF Prepare
    <3>3. "wanted" \in Chosen /\ "staged" \in Working
      BY DEF Chosen, Working
    <3>4. QED
      BY <3>1, <3>2, <3>3, FreeKeeps, GoingOnKeeps
  <2>5. CASE LinkDatabase(p)
    BY <2>5, GoingOnKeeps DEF LinkDatabase, Link, Chosen, Working
  <2>6. CASE LinkMetadata(p)
    BY <2>6, GoingOnKeeps DEF LinkMetadata, Link, Chosen, Working
  <2>7. CASE SyncSnapshots(p)
    BY <2>7, GoingOnKeeps DEF SyncSnapshots, Chosen, Working
  <2>8. CASE Replace(p)
    BY <2>8, GoingOnKeeps DEF Replace, Chosen, Working
  <2>9. CASE SyncPointer(p)
    BY <2>9, FreeKeeps DEF SyncPointer
  <2>10. CASE Refuse(p)
    BY <2>10, FreeKeeps DEF Refuse
  <2>11. CASE Die(p)
    BY <2>11, FreeKeeps DEF Die
  <2>12. QED
    BY <1>5, <2>1, <2>2, <2>3, <2>4, <2>5, <2>6, <2>7, <2>8, <2>9, <2>10, <2>11 DEF Load
<1>6. ASSUME NEW c \in library.readers, Read(c)
      PROVE  LoadersOK'
  BY <1>6 DEF Read, Status, Ask, Search, Close, LoadersOK
<1>7. QED
  BY <1>1, <1>2, <1>3, <1>4, <1>5, <1>6 DEF LibraryNext

(* A reader's own steps leave what everybody has pinned as it was; only    *)
(* the status pins another snapshot, the current one.                      *)
LEMMA ReadKeepsSnaps ==
  ASSUME SessionsOK, NEW c \in Readers, Ask(c) \/ Search(c) \/ Close(c)
  PROVE  SessionsOK' /\ \A d \in Readers : session'[d].snap = session[d].snap
<1>1. ASSUME NEW new, session' = [session EXCEPT ![c] = new], "snap" \in DOMAIN new, new.snap = session[c].snap
      PROVE  SessionsOK' /\ \A d \in Readers : session'[d].snap = session[d].snap
  BY <1>1 DEF SessionsOK
<1>2. "snap" \in DOMAIN session[c]
  BY DEF SessionsOK
<1>3. [NoSession EXCEPT !.snap = session[c].snap].snap = session[c].snap
      /\ "snap" \in DOMAIN [NoSession EXCEPT !.snap = session[c].snap]
  BY DEF NoSession
<1>4. CASE Ask(c)
  <2>1. PICK q \in Queries, e \in coverage \cup {None} :
          session' = [session EXCEPT ![c].query = [q EXCEPT !.covered = e]]
    BY <1>4 DEF Ask
  <2> DEFINE asked == [q EXCEPT !.covered = e]
  <2> DEFINE new == [session[c] EXCEPT !.query = asked]
  <2>2. session' = [session EXCEPT ![c] = new]
    BY <2>1
  <2>3. "snap" \in DOMAIN new /\ new.snap = session[c].snap
    BY <1>2
  <2>4. QED
    BY <1>1, <2>2, <2>3
<1>5. CASE Search(c)
  <2>1. CASE session' = [session EXCEPT ![c] = [NoSession EXCEPT !.snap = session[c].snap]]
    BY <1>1, <1>3, <2>1
  <2>2. ASSUME NEW a, NEW b, NEW d, NEW e,
               session' = [session EXCEPT ![c].cards = a, ![c].of = b, ![c].done = d, ![c].cursor = e]
        PROVE  SessionsOK' /\ \A k \in Readers : session'[k].snap = session[k].snap
    <3> DEFINE new == [session[c] EXCEPT !.cards = a, !.of = b, !.done = d, !.cursor = e]
    <3>1. session' = [session EXCEPT ![c] = new]
      BY <2>2 DEF SessionsOK
    <3>2. "snap" \in DOMAIN new /\ new.snap = session[c].snap
      BY <1>2
    <3>3. QED
      BY <1>1, <3>1, <3>2
  <2> DEFINE s == session[c]
  <2> DEFINE at == IF s.cursor = None THEN None ELSE s.cursor.at
  <2>3. CASE Has(files, s.snap, "db") /\ EvidenceLoads(c) /\ CursorFits(c)
    <3> DEFINE page(limit) == Page(Content(s.snap), Allowed(c), s.query, limit, at)
    <3>1. PICK limit \in 1..2 : session' = [session EXCEPT ![c].cards = @ \o page(limit).cards,
                            ![c].of = IF s.cursor = None THEN s.snap ELSE @,
                            ![c].done = page(limit).next = None,
                            ![c].cursor = IF page(limit).next = None THEN None
                              ELSE [snap |-> s.snap, query |-> s.query, at |-> page(limit).next]]
      BY <1>5, <2>3 DEF Search
    <3>2. PICK a, b, d, e : session' = [session EXCEPT ![c].cards = a, ![c].of = b, ![c].done = d, ![c].cursor = e]
      BY <3>1, Zenon
    <3>3. QED
      BY <2>2, <3>2
  <2>4. CASE ~(Has(files, s.snap, "db") /\ EvidenceLoads(c) /\ CursorFits(c))
    BY <1>5, <2>1, <2>4 DEF Search
  <2>5. QED
    BY <2>3, <2>4
<1>6. CASE Close(c)
  BY <1>1, <1>3, <1>6 DEF Close
<1>7. QED
  BY <1>4, <1>5, <1>6

LEMMA StatusPins ==
  ASSUME SessionsOK, NEW c \in Readers, Status(c)
  PROVE  /\ SessionsOK' /\ session'[c].snap = current
         /\ \A d \in Readers \ {c} : session'[d].snap = session[d].snap
<1>1. session' = [session EXCEPT ![c] = [session[c] EXCEPT !.snap = current]]
  BY DEF Status
<1>2. [session[c] EXCEPT !.snap = current].snap = current
      /\ "snap" \in DOMAIN [session[c] EXCEPT !.snap = current]
  BY DEF SessionsOK
<1>3. QED
  BY <1>1, <1>2 DEF SessionsOK

(* The sessions stay sessions.                                             *)
LEMMA SessionsStep ==
  ASSUME LoadersOK, SessionsOK, [LibraryNext]_libraryVars
  PROVE  SessionsOK'
<1>1. ASSUME UNCHANGED session PROVE SessionsOK'
  BY <1>1 DEF SessionsOK
<1>2. CASE UNCHANGED libraryVars
  BY <1>1, <1>2 DEF libraryVars
<1>3. CASE Announce \/ PowerLoss \/ Publish
  BY <1>1, <1>3 DEF Announce, PowerLoss, Publish
<1>4. ASSUME NEW p \in library.loaders, Load(p) \/ Refuse(p) \/ Die(p)
      PROVE  SessionsOK'
  BY <1>1, <1>4 DEF Load, Start, Lock, Compare, Prepare, LinkDatabase, LinkMetadata, Link,
                    SyncSnapshots, Replace, SyncPointer, Refuse, Die
<1>5. ASSUME NEW c \in library.readers, Read(c)
      PROVE  SessionsOK'
  <2>1. c \in Readers
    BY CardLibraryAssumption DEF LoadersOK
  <2>2. QED
    BY <1>5, <2>1, ReadKeepsSnaps, StatusPins DEF Read
<1>6. QED
  BY <1>2, <1>3, <1>4, <1>5 DEF LibraryNext

-----------------------------------------------------------------------------
(***************************************************************************)
(* What is kept.                                                           *)
(***************************************************************************)

(* Nothing new is relied on when the pointer and the pinned snapshots are  *)
(* the same, or come from one another.                                     *)
LEMMA NothingNew ==
  ASSUME {current', currentSynced'} \subseteq {current, currentSynced},
         \A c \in Readers : session'[c].snap \in {session[c].snap, current}
  PROVE  Relied' \subseteq Relied
BY DEF Relied

(* What is relied on stays kept while it is not taken back.                *)
LEMMA KeptWhileRelied ==
  ASSUME KeptOK, Relied' \subseteq Relied, files \cap synced \subseteq files' \cap synced'
  PROVE  KeptOK'
<1>1. SUFFICES ASSUME NEW s \in Relied' PROVE Kept(s)'
  BY DEF KeptOK
<1>2. Kept(s)
  BY DEF KeptOK
<1>3. QED
  BY <1>2, KeptStays DEF Kept, Snap, Files, Entry

(* The pointer and the pins a loader's step leaves alone.                  *)
LEMMA LoaderSteps ==
  ASSUME NEW p, Load(p) \/ Refuse(p) \/ Die(p)
  PROVE  /\ UNCHANGED session
         /\ ~Replace(p) => UNCHANGED current
         /\ ~SyncPointer(p) => UNCHANGED currentSynced
         /\ ~SyncSnapshots(p) => UNCHANGED synced
BY DEF Load, Start, Lock, Compare, Prepare, LinkDatabase, LinkMetadata, Link,
       SyncSnapshots, Replace, SyncPointer, Refuse, Die, disks

(* The snapshots that are relied on stay kept.                             *)
LEMMA KeptStep ==
  ASSUME LibraryInv, [LibraryNext]_libraryVars
  PROVE  KeptOK'
<1> USE DEF LibraryInv
<1>1. ASSUME UNCHANGED <<files, synced, current, currentSynced, session>>
      PROVE  KeptOK'
  BY <1>1, NothingNew, KeptWhileRelied
<1>2. CASE UNCHANGED libraryVars
  BY <1>1, <1>2 DEF libraryVars, disks
<1>3. CASE Announce \/ Publish
  BY <1>1, <1>3 DEF Announce, Publish, disks
<1>4. CASE PowerLoss
  <2>1. PICK kept \in SUBSET ((files \ synced) \cup (synced \ files)) :
          files' = (files \cap synced) \cup kept
    BY <1>4 DEF PowerLoss
  <2>2. /\ synced' = files' /\ current' \in {current, currentSynced} /\ currentSynced' = current'
        /\ UNCHANGED session
    BY <1>4 DEF PowerLoss
  <2>3. QED
    BY <2>1, <2>2, NothingNew, KeptWhileRelied
<1>5. ASSUME NEW p \in library.loaders, Load(p) \/ Refuse(p) \/ Die(p)
      PROVE  KeptOK'
  <2> p \in Loaders
    BY CardLibraryAssumption DEF LoadersOK
  <2>1. CASE Start(p) \/ Lock(p) \/ Compare(p) \/ Prepare(p) \/ Die(p)
    BY <1>1, <2>1 DEF Start, Lock, Compare, Prepare, Die, disks
  <2>2. CASE LinkDatabase(p) \/ LinkMetadata(p)
    BY <2>2, NothingNew, KeptWhileRelied DEF LinkDatabase, LinkMetadata, Link
  <2>3. CASE SyncSnapshots(p)
    BY <2>3, NothingNew, KeptWhileRelied DEF SyncSnapshots
  <2>4. CASE Replace(p)
    <3>1. loader[p].at = "synced" /\ current' = Snap(loader[p].want)
          /\ UNCHANGED <<files, synced, currentSynced, session>>
      BY <2>4 DEF Replace
    <3>2. Files(loader[p].want) \subseteq files \cap synced
      BY <3>1 DEF LinkedOK, Linked, Files
    <3>3. loader[p].want \in DOMAIN Feed
      BY <3>1 DEF LoadersOK, Chosen
    <3>4. Kept(current')
      BY <3>1, <3>2, <3>3 DEF Kept
    <3>5. \A s \in Relied' : s = current' \/ s \in Relied
      BY <3>1 DEF Relied
    <3>6. SUFFICES ASSUME NEW s \in Relied' PROVE Kept(s)'
      BY DEF KeptOK
    <3>7. Kept(s)
      BY <3>4, <3>5 DEF KeptOK
    <3>8. QED
      BY <3>1, <3>7 DEF Kept, Snap, Files, Entry
  <2>5. CASE SyncPointer(p)
    BY <2>5, NothingNew, KeptWhileRelied DEF SyncPointer
  <2>6. CASE Refuse(p)
    <3>1. UNCHANGED <<synced, current, currentSynced, session>>
      BY <2>6 DEF Refuse
    <3>2. CASE loader[p].at \in {"db", "linked", "synced"}
      <4>1. Undoes(p)
        BY <2>6, <3>2 DEF Refuse
      <4>2. Snap(loader[p].want) \notin Relied
        BY <3>2 DEF ApartOK
      <4>3. Relied' \subseteq Relied
        BY <3>1, NothingNew
      <4>4. SUFFICES ASSUME NEW s \in Relied' PROVE Kept(s)'
        BY DEF KeptOK
      <4>5. Kept(s) /\ s # Snap(loader[p].want)
        BY <4>2, <4>3 DEF KeptOK
      <4>6. QED
        BY <3>1, <4>1, <4>5, UndoneApart DEF Kept, Snap, Files, Entry
    <3>3. CASE loader[p].at \notin {"db", "linked", "synced"}
      BY <1>1, <2>6, <3>1, <3>3 DEF Refuse
    <3>4. QED
      BY <3>2, <3>3
  <2>7. QED
    BY <1>5, <2>1, <2>2, <2>3, <2>4, <2>5, <2>6 DEF Load
<1>6. ASSUME NEW c \in library.readers, Read(c)
      PROVE  KeptOK'
  <2>1. c \in Readers
    BY CardLibraryAssumption DEF LoadersOK
  <2>2. UNCHANGED <<files, synced, current, currentSynced>>
    BY <1>6 DEF Read, Status, Ask, Search, Close, disks
  <2>3. \A d \in Readers : session'[d].snap \in {session[d].snap, current}
    BY <1>6, <2>1, ReadKeepsSnaps, StatusPins DEF Read
  <2>4. QED
    BY <2>2, <2>3, NothingNew, KeptWhileRelied
<1>7. QED
  BY <1>2, <1>3, <1>4, <1>5, <1>6 DEF LibraryNext

(* What a loader has linked stays linked while it works.                   *)
LEMMA LinkedStep ==
  ASSUME LibraryInv, [LibraryNext]_libraryVars
  PROVE  LinkedOK'
<1> USE DEF LibraryInv
<1>1. ASSUME UNCHANGED <<files, synced, loader>> PROVE LinkedOK'
  BY <1>1 DEF LinkedOK, Linked, Files, Entry, Snap
<1>2. CASE UNCHANGED libraryVars
  BY <1>1, <1>2 DEF libraryVars, disks
<1>3. CASE Announce \/ Publish
  BY <1>1, <1>3 DEF Announce, Publish, disks
<1>4. CASE PowerLoss
  BY <1>4 DEF PowerLoss, LinkedOK, Linked, Resting
<1>5. ASSUME NEW p \in library.loaders, Load(p) \/ Refuse(p) \/ Die(p)
      PROVE  LinkedOK'
  <2>0. p \in Loaders
    BY CardLibraryAssumption DEF LoadersOK
  <2>1. ASSUME NEW q \in Loaders \ {p}, loader[p].at \in Working
        PROVE  loader[q].at \notin Working
    BY <2>0, <2>1, OneWorks
  <2>2. \A q \in Loaders \ {p} : loader'[q] = loader[q]
    BY <1>5, <2>0 DEF LoadersOK, Load, Start, Lock, Compare, Prepare, LinkDatabase, LinkMetadata, Link,
          SyncSnapshots, Replace, SyncPointer, Refuse, Die, GoesTo, Free
  <2>3. loader[p].at \in Working \/ UNCHANGED <<files, synced>>
    BY <1>5 DEF Load, Start, Lock, Compare, Prepare, LinkDatabase, LinkMetadata, Link,
          SyncSnapshots, Replace, SyncPointer, Refuse, Die, Working, disks
  <2>4. \A q \in Loaders \ {p} : Linked(q)'
    BY <2>1, <2>2, <2>3 DEF LinkedOK, Linked, Working, Files, Entry, Snap
  <2> SUFFICES Linked(p)'
    BY <2>4 DEF LinkedOK
  <2>5. ASSUME loader'[p].at \notin {"db", "linked", "synced", "replaced"} PROVE Linked(p)'
    BY <2>5 DEF Linked
  <2>6. CASE Start(p) \/ Lock(p) \/ Compare(p) \/ Prepare(p)
    <3>1. loader'[p].at \in {"idle", "checked", "locked", "wanted", "staged"}
      BY <2>0, <2>6 DEF Start, Lock, Compare, Prepare, GoesTo, Free, Resting, LoadersOK
    <3>2. QED
      BY <2>5, <3>1
  <2>7. CASE Free(p)
    BY <2>0, <2>5, <2>7, FreeResets DEF Resting
  <2>8. CASE LinkDatabase(p)
    <3>1. /\ loader'[p].at = "db" /\ loader'[p].want = loader[p].want
          /\ files' = files \cup {Entry(loader[p].want, "db")} /\ synced' = synced
      BY <2>0, <2>8, GoingOn DEF LinkDatabase, Link, Working
    <3>2. QED
      BY <3>1 DEF Linked, Files, Entry, Snap
  <2>9. CASE LinkMetadata(p)
    <3>1. /\ loader[p].at = "db" /\ loader'[p].at = "linked" /\ loader'[p].want = loader[p].want
          /\ files' = files \cup {Entry(loader[p].want, "meta")} /\ synced' = synced
      BY <2>0, <2>9, GoingOn DEF LinkMetadata, Link, Working
    <3>2. Linked(p)
      BY <2>0 DEF LinkedOK
    <3>3. QED
      BY <3>1, <3>2 DEF Linked, Files, Entry, Snap
  <2>10. CASE SyncSnapshots(p)
    <3>1. /\ loader[p].at = "linked" /\ loader'[p].at = "synced" /\ loader'[p].want = loader[p].want
          /\ files' = files /\ synced' = files
      BY <2>0, <2>10, GoingOn DEF SyncSnapshots, Working
    <3>2. Linked(p)
      BY <2>0 DEF LinkedOK
    <3>3. QED
      BY <3>1, <3>2 DEF Linked, Files, Entry, Snap
  <2>11. CASE Replace(p)
    <3>1. /\ loader[p].at = "synced" /\ loader'[p].at = "replaced" /\ loader'[p].want = loader[p].want
          /\ files' = files /\ synced' = synced
      BY <2>0, <2>11, GoingOn DEF Replace, Working
    <3>2. Linked(p)
      BY <2>0 DEF LinkedOK
    <3>3. QED
      BY <3>1, <3>2 DEF Linked, Files, Entry, Snap
  <2>12. QED
    BY <1>5, <2>6, <2>7, <2>8, <2>9, <2>10, <2>11 DEF Load, SyncPointer, Refuse, Die
<1>6. ASSUME NEW c \in library.readers, Read(c)
      PROVE  LinkedOK'
  BY <1>1, <1>6 DEF Read, Status, Ask, Search, Close, disks
<1>7. QED
  BY <1>2, <1>3, <1>4, <1>5, <1>6 DEF LibraryNext

(* What a loader may take back stays apart from what is relied on.         *)
LEMMA ApartStep ==
  ASSUME LibraryInv, [LibraryNext]_libraryVars
  PROVE  ApartOK'
<1> USE DEF LibraryInv
<1> DEFINE Undoing(q) == loader[q].at \in {"staged", "db", "linked", "synced"}
<1>1. ASSUME UNCHANGED loader, Relied' \subseteq Relied PROVE ApartOK'
  BY <1>1 DEF ApartOK, Snap
<1>2. CASE UNCHANGED libraryVars
  BY <1>1, <1>2, NothingNew DEF libraryVars, disks
<1>3. CASE Announce \/ Publish
  BY <1>1, <1>3, NothingNew DEF Announce, Publish, disks
<1>4. CASE PowerLoss
  BY <1>4 DEF PowerLoss, ApartOK, Resting
<1>5. ASSUME NEW p \in library.loaders, Load(p) \/ Refuse(p) \/ Die(p)
      PROVE  ApartOK'
  <2>0. p \in Loaders
    BY CardLibraryAssumption DEF LoadersOK
  <2>1. \A q \in Loaders \ {p} : loader'[q] = loader[q]
    BY <1>5, <2>0 DEF LoadersOK, Load, Start, Lock, Compare, Prepare, LinkDatabase, LinkMetadata, Link,
          SyncSnapshots, Replace, SyncPointer, Refuse, Die, GoesTo, Free
  <2>2. CASE Replace(p) \/ SyncPointer(p)
    <3>1. loader[p].at \in Working
      BY <2>2 DEF Replace, SyncPointer, Working
    <3>2. \A q \in Loaders \ {p} : ~Undoing(q)'
      BY <2>0, <2>1, <3>1, OneWorks DEF Working
    <3>3. ~Undoing(p)'
      BY <2>0, <2>2 DEF Replace, SyncPointer, GoesTo, Free, Resting, LoadersOK
    <3>4. QED
      BY <3>2, <3>3 DEF ApartOK
  <2>3. ASSUME ~Replace(p), ~SyncPointer(p) PROVE Relied' \subseteq Relied
    BY <1>5, <2>3, LoaderSteps, NothingNew
  <2>4. CASE ~Replace(p) /\ ~SyncPointer(p) /\ Undoing(p)'
    <3>1. CASE Prepare(p)
      <4>1. loader[p].at = "wanted"
        BY <3>1 DEF Prepare
      <4>2. GoesTo(p, "staged")
        BY <2>0, <2>4, <3>1, FreeResets DEF Prepare, Resting
      <4>3. ~\E part \in {"db", "meta"} : Has(files, Snap(loader[p].want), part)
        BY <2>0, <2>4, <3>1, FreeResets DEF Prepare, Resting
      <4>4. loader'[p].want = loader[p].want
        BY <2>0, <4>2, GoingOn DEF Working
      <4>5. Snap(loader[p].want) \notin Relied
        <5>1. SUFFICES ASSUME Kept(Snap(loader[p].want)) PROVE FALSE
          BY DEF KeptOK
        <5>2. PICK r \in DOMAIN Feed : Snap(r) = Snap(loader[p].want) /\ Files(r) \subseteq files
          BY <5>1 DEF Kept
        <5>3. Entry(r, "db") \in files /\ Entry(r, "db").snap = Snap(loader[p].want) /\ Entry(r, "db").part = "db"
          BY <5>2 DEF Files, Entry
        <5>4. QED
          BY <4>3, <5>3 DEF Has
      <4>6. QED
        BY <2>1, <2>3, <2>4, <4>4, <4>5 DEF ApartOK, Snap
    <3>2. CASE LinkDatabase(p) \/ LinkMetadata(p) \/ SyncSnapshots(p)
      <4>1. Undoing(p) /\ loader'[p].want = loader[p].want
        BY <2>0, <3>2, GoingOn DEF LinkDatabase, LinkMetadata, Link, SyncSnapshots, Working
      <4>2. QED
        BY <2>0, <2>1, <2>3, <2>4, <4>1 DEF ApartOK, Snap
    <3>3. CASE Start(p) \/ Lock(p) \/ Compare(p)
      BY <2>0, <2>4, <3>3 DEF Start, Lock, Compare, GoesTo, Free, Resting, LoadersOK
    <3>4. CASE Free(p)
      BY <2>0, <2>4, <3>4, FreeResets DEF Resting
    <3>5. QED
      BY <1>5, <2>4, <3>1, <3>2, <3>3, <3>4 DEF Load, Refuse, Die
  <2>5. CASE ~Replace(p) /\ ~SyncPointer(p) /\ ~Undoing(p)'
    BY <2>1, <2>3, <2>5 DEF ApartOK, Snap
  <2>6. QED
    BY <2>2, <2>4, <2>5
<1>6. ASSUME NEW c \in library.readers, Read(c)
      PROVE  ApartOK'
  <2>1. c \in Readers
    BY CardLibraryAssumption DEF LoadersOK
  <2>2. UNCHANGED <<loader, current, currentSynced>>
    BY <1>6 DEF Read, Status, Ask, Search, Close, disks
  <2>3. \A d \in Readers : session'[d].snap \in {session[d].snap, current}
    BY <1>6, <2>1, ReadKeepsSnaps, StatusPins DEF Read
  <2>4. QED
    BY <1>1, <2>2, <2>3, NothingNew
<1>7. QED
  BY <1>2, <1>3, <1>4, <1>5, <1>6 DEF LibraryNext

-----------------------------------------------------------------------------
(***************************************************************************)
(* The theorems.                                                           *)
(***************************************************************************)

(* An empty library is sound.                                              *)
LEMMA InitLibraryInv == LibraryInit => LibraryInv
<1> SUFFICES ASSUME LibraryInit PROVE LibraryInv
  OBVIOUS
<1>1. LoadersOK
  <2>1. Resting \in [at : Waiting \cup Working, want : (DOMAIN Feed) \cup {None}]
        /\ Resting.at \notin Working \cup Chosen
    BY DEF Resting, Waiting, Working, Chosen
  <2>2. feed \in 1..Len(library.revisions)
    BY CardLibraryAssumption DEF LibraryInit
  <2>3. QED
    BY <2>1, <2>2, CardLibraryAssumption DEF LibraryInit, LoadersOK
<1>2. SessionsOK /\ Relied = {}
  BY DEF LibraryInit, SessionsOK, NoSession, Relied
<1>3. LinkedOK /\ ApartOK
  BY DEF LibraryInit, LinkedOK, Linked, ApartOK, Resting
<1>4. QED
  BY <1>1, <1>2, <1>3 DEF LibraryInv, KeptOK

(* The invariant of the card library: loaders, one at a time, link what    *)
(* nobody relies on, and what is relied on is on disk for good.            *)
THEOREM LibraryIsSound == LibrarySpec => []LibraryInv
<1>1. LibraryInv /\ [LibraryNext]_libraryVars => LibraryInv'
  BY LoadersStep, SessionsStep, KeptStep, LinkedStep, ApartStep DEF LibraryInv
<1>2. QED
  BY <1>1, InitLibraryInv, PTL DEF LibrarySpec

(* Whatever dies, is refused or loses power, and whenever: the selected    *)
(* snapshot has both of its files, of one publication, and a snapshot a    *)
(* reader has pinned has its database.                                     *)
THEOREM SnapshotsStay == LibrarySpec => []SelectedIsKept
<1>1. LibraryInv => SelectedIsKept
  <2> SUFFICES ASSUME LibraryInv PROVE SelectedIsKept
    OBVIOUS
  <2>1. ASSUME current # None
        PROVE  \E r \in DOMAIN Feed : Snap(r) = current /\ Files(r) \subseteq files
    BY <2>1 DEF LibraryInv, KeptOK, Relied, Kept
  <2>2. ASSUME NEW c \in Readers, session[c].snap # None
        PROVE  Has(files, session[c].snap, "db")
    <3>1. PICK r \in DOMAIN Feed : Snap(r) = session[c].snap /\ Files(r) \subseteq files
      BY <2>2 DEF LibraryInv, KeptOK, Relied, Kept
    <3>2. Entry(r, "db") \in files /\ Entry(r, "db").snap = session[c].snap /\ Entry(r, "db").part = "db"
      BY <3>1 DEF Files, Entry
    <3>3. QED
      BY <3>2 DEF Has
  <2>3. QED
    BY <2>1, <2>2 DEF SelectedIsKept, Files
<1>2. QED
  BY <1>1, LibraryIsSound, PTL

(* In any snapshot, and for any names of an engine's registry: a card that *)
(* is present is found by a name no other card has, nor is found by.       *)
LEMMA FoundAlone ==
  ASSUME NEW db, NEW names, NEW k \in Present(db, names), NEW n \in FoundBy(db, names, k)
  PROVE  /\ Holders(db, n) \subseteq {k}
         /\ \A l \in Present(db, names) \ {k} : n \notin FoundBy(db, names, l)
<1> DEFINE Whole(l) == db.cards[l].name \in names
<1>1. ASSUME NEW l \in Present(db, names), Whole(l)
      PROVE  Holders(db, db.cards[l].name) = {l}
  BY <1>1 DEF Present, Presence
<1>2. ASSUME NEW l \in Present(db, names), ~Whole(l), NEW m \in FoundBy(db, names, l)
      PROVE  Holders(db, m) = {} /\ Fronts(db, m) = {l}
  <2> DEFINE fronts == {f \in OwnNames(db, l) \cap names : l \in Fronts(db, f)}
  <2>1. m \in fronts
    BY <1>2 DEF FoundBy
  <2>2. PICK f \in fronts : Holders(db, f) = {} /\ Fronts(db, f) = {l}
    BY <1>2, <2>1 DEF Present, Presence
  <2>3. f = db.faces[l][1].name /\ m = db.faces[l][1].name
    BY <2>1, <2>2 DEF Fronts
  <2>4. QED
    BY <2>2, <2>3
<1>3. \A l \in Present(db, names) : l \in DOMAIN db.cards
  BY DEF Present
<1>4. \A l \in Present(db, names) : Whole(l) => FoundBy(db, names, l) = {db.cards[l].name}
  BY DEF FoundBy
<1>5. Holders(db, n) \subseteq {k}
  BY <1>1, <1>2, <1>4
<1>6. ASSUME NEW l \in Present(db, names) \ {k}, n \in FoundBy(db, names, l)
      PROVE  FALSE
  <2>1. ASSUME NEW a \in Present(db, names), Whole(a), n \in FoundBy(db, names, a)
        PROVE  a \in Holders(db, n) /\ Holders(db, n) = {a}
    BY <1>1, <1>4, <2>1
  <2>2. ASSUME NEW a \in Present(db, names), ~Whole(a), n \in FoundBy(db, names, a)
        PROVE  Holders(db, n) = {} /\ Fronts(db, n) = {a}
    BY <1>2, <2>2
  <2>3. QED
    BY <1>6, <2>1, <2>2
<1>7. QED
  BY <1>5, <1>6

(* Readers are told of no card that it is in an engine by a name that is   *)
(* another's, nor of two cards by one name.                                *)
THEOREM CoverageHolds == LibrarySpec => []CoverageIsUnambiguous
<1>1. CoverageIsUnambiguous
  BY FoundAlone DEF CoverageIsUnambiguous
<1>2. QED
  BY <1>1, PTL

-----------------------------------------------------------------------------
(***************************************************************************)
(* The improvement ledger.                                                 *)
(***************************************************************************)

States == {"insufficient_evidence", "hypothesis", "reproduced", "implementation_validated",
           "measured", "adopted", "rejected", "rolled_back"}

(* A candidate only moves to states of a higher rank.                      *)
StateRank(state) ==
  CASE state = "insufficient_evidence"    -> 0
    [] state = "hypothesis"               -> 1
    [] state = "reproduced"               -> 2
    [] state = "implementation_validated" -> 3
    [] state = "measured"                 -> 4
    [] state = "adopted"                  -> 5
    [] state = "rejected"                 -> 6
    [] state = "rolled_back"              -> 7

Findings == UNION {c.findings : c \in Cases}
Event ==
  [state : States, details : {Nobody} \cup UNION {Details[t] : t \in DOMAIN Details},
   actor : {"ingestion"} \cup Workers, basis : SUBSET Findings]
ClaimType == [token : Nat, worker : Workers, expires : Nat, revision : Nat]

TypeOK ==
  /\ improvement \in Cases /\ sources \subseteq Findings
  /\ events \in Seq(Event) /\ claim \in ClaimType \cup {Nobody}
  /\ tokens \in Nat /\ clock \in Nat
  /\ seen \in [Workers -> [token : Nat \cup {Nobody}, revision : Nat]]

(* Every state is reached once, so that a gate is one event's.             *)
Ascending ==
  \A i, j \in 1..Len(events) : i < j => StateRank(events[i].state) < StateRank(events[j].state)

(* No gate is skipped.                                                     *)
NoneSkipped ==
  /\ Reached("adopted") => Reached("measured")
  /\ Reached("measured") => Reached("implementation_validated")
  /\ Reached("implementation_validated") => Reached("reproduced")
  /\ Reached("reproduced") => Reached("hypothesis")

(* What stands behind a hypothesis, and behind a measurement.              *)
GatesHold ==
  /\ Reached("hypothesis") => FixturesApart(Gate("hypothesis"))
  /\ Reached("measured") =>
       /\ Gate("measured").commit = Gate("implementation_validated").commit
       /\ Gate("measured").baseline = Gate("hypothesis").baseline
       /\ Gate("measured").heldOut = Gate("hypothesis").heldOut
       /\ \A c \in Gate("hypothesis").criteria : Meets(Gate("measured").metrics, c)

(* Nobody but its holder moved the candidate under the claim, lapsed or    *)
(* not, and every token is one worker's.                                   *)
ClaimsHold ==
  /\ claim # Nobody =>
       /\ claim.token < tokens /\ events # <<>>
       /\ \A i \in (claim.revision + 1)..Revision : events[i].actor = claim.worker
       /\ \A w \in Workers : seen[w].token = claim.token => w = claim.worker
  /\ \A w \in Workers : seen[w].token # Nobody => seen[w].token < tokens

CandidateInv == TypeOK /\ Ascending /\ NoneSkipped /\ GatesHold /\ AdoptionIsEarned /\ ClaimsHold
-----------------------------------------------------------------------------
(***************************************************************************)
(* The events of a candidate.                                              *)
(***************************************************************************)

(* Where each state leads, and from where the gates are reached.           *)
LEMMA Leads ==
  ASSUME NEW from \in States, NEW to \in Onward[from]
  PROVE  /\ to \in States /\ StateRank(from) < StateRank(to) /\ to # "insufficient_evidence"
         /\ to = "reproduced" => from = "hypothesis"
         /\ to = "implementation_validated" => from = "reproduced"
         /\ to = "measured" => from = "implementation_validated"
         /\ to = "adopted" => from = "measured"
<1>1. CASE from = "insufficient_evidence"
  BY <1>1 DEF Onward, StateRank, States
<1>2. CASE from = "hypothesis"
  BY <1>2 DEF Onward, StateRank, States
<1>3. CASE from = "reproduced"
  BY <1>3 DEF Onward, StateRank, States
<1>4. CASE from = "implementation_validated"
  BY <1>4 DEF Onward, StateRank, States
<1>5. CASE from = "measured"
  BY <1>5 DEF Onward, StateRank, States
<1>6. CASE from = "adopted"
  BY <1>6 DEF Onward, StateRank, States
<1>7. CASE from \in {"rejected", "rolled_back"}
  BY <1>7 DEF Onward
<1>8. QED
  BY <1>1, <1>2, <1>3, <1>4, <1>5, <1>6, <1>7 DEF States

(* The events, and the ranks of their states.                              *)
LEMMA EventTyped ==
  ASSUME TypeOK, NEW i \in 1..Len(events)
  PROVE  /\ events[i] \in Event /\ events[i].state \in States /\ Len(events) \in Nat
         /\ StateRank(events[i].state) \in Nat
<1>1. events \in Seq(Event)
  BY DEF TypeOK
<1>2. events[i] \in Event /\ Len(events) \in Nat
  BY <1>1
<1>3. \A state \in States : StateRank(state) \in Nat
  BY DEF StateRank, States
<1>4. QED
  BY <1>2, <1>3 DEF Event

(* A state that was reached was reached by one event, whose details are    *)
(* the gate.                                                               *)
LEMMA OneEvent ==
  ASSUME TypeOK, Ascending, NEW i \in 1..Len(events)
  PROVE  /\ Reached(events[i].state) /\ Gate(events[i].state) = events[i].details
         /\ \A j \in 1..Len(events) : events[j].state = events[i].state => j = i
<1>1. DOMAIN events = 1..Len(events) /\ Range(events) = {events[j] : j \in 1..Len(events)}
  BY DEF TypeOK, Range
<1>2. \A j \in 1..Len(events) : StateRank(events[j].state) \in Nat
  BY EventTyped
<1>3. \A j \in 1..Len(events) : events[j].state = events[i].state => j = i
  <2>1. ASSUME NEW j \in 1..Len(events), events[j].state = events[i].state, j # i
        PROVE  FALSE
    <3>1. StateRank(events[j].state) < StateRank(events[i].state) \/ StateRank(events[i].state) < StateRank(events[j].state)
      BY <2>1 DEF Ascending, TypeOK
    <3>2. QED
      BY <1>2, <2>1, <3>1
  <2>2. QED
    BY <2>1
<1>4. events[i] \in Range(events)
  BY <1>1
<1>5. \A e \in Range(events) : e.state = events[i].state => e = events[i]
  BY <1>1, <1>3
<1>6. (CHOOSE e \in Range(events) : e.state = events[i].state) = events[i]
  BY <1>4, <1>5
<1>7. QED
  BY <1>3, <1>4, <1>6 DEF Reached, Gate

(* What was reached has an event.                                          *)
LEMMA ReachedBy ==
  ASSUME TypeOK, NEW state, Reached(state)
  PROVE  \E i \in 1..Len(events) : events[i].state = state
BY DEF TypeOK, Reached, Range

(* What a transition adds.                                                 *)
LEMMA Moved ==
  ASSUME TypeOK, Ascending, NEW w \in Workers, NEW target \in DOMAIN Details,
         NEW d \in Details[target], Transition(w, target, d)
  PROVE  /\ State \in States /\ target \in Onward[State] /\ Reached(State)
         /\ events' \in Seq(Event) /\ Len(events') = Len(events) + 1 /\ Ascending'
         /\ \A i \in 1..Len(events) : events'[i] = events[i]
         /\ events'[Len(events) + 1] =
              [state |-> target, details |-> d, actor |-> w, basis |-> sources]
         /\ \A state \in States : Reached(state)' <=> Reached(state) \/ state = target
         /\ \A state \in States : Reached(state) => Gate(state)' = Gate(state)
         /\ Gate(target)' = d
<1> DEFINE n == Len(events)
           e == [state |-> target, details |-> d, actor |-> w, basis |-> sources]
<1>1. n \in Nat \ {0} /\ n = Revision /\ State = events[n].state /\ State \in States
  <2>1. events \in Seq(Event) /\ events # <<>>
    BY DEF TypeOK, Transition
  <2>2. n \in Nat \ {0}
    BY <2>1
  <2>3. QED
    BY <2>2, EventTyped DEF Revision, State
<1>2. target \in Onward[State] /\ target \in States /\ StateRank(State) < StateRank(target)
  BY <1>1, Leads DEF Transition
<1>3. e \in Event
  BY <1>2 DEF Event, TypeOK
<1>4. /\ events' = Append(events, e) /\ events \in Seq(Event)
  BY DEF Transition, TypeOK
<1>5. /\ events' \in Seq(Event) /\ Len(events') = n + 1
      /\ \A i \in 1..n : events'[i] = events[i]
      /\ events'[n + 1] = e
  BY <1>3, <1>4
<1>6. Ascending'
  <2>1. ASSUME NEW i \in 1..(n + 1), NEW j \in 1..(n + 1), i < j
        PROVE  StateRank(events'[i].state) < StateRank(events'[j].state)
    <3>1. CASE j \in 1..n
      BY <1>1, <1>5, <2>1, <3>1 DEF Ascending
    <3>2. CASE j = n + 1
      <4>1. i \in 1..n /\ events'[i] = events[i] /\ events'[j].state = target
        BY <1>1, <1>5, <2>1, <3>2
      <4>2. events[i].state \in States
        BY <4>1, EventTyped
      <4>3. i = n \/ StateRank(events[i].state) < StateRank(events[n].state)
        BY <1>1, <4>1 DEF Ascending
      <4>4. \A state \in States : StateRank(state) \in Nat
        BY DEF StateRank, States
      <4>5. QED
        BY <1>1, <1>2, <4>1, <4>2, <4>3, <4>4
    <3>3. QED
      BY <1>1, <2>1, <3>1, <3>2
  <2>2. QED
    BY <1>5, <2>1 DEF Ascending
<1>7. /\ DOMAIN events = 1..n /\ Range(events) = {events[i] : i \in 1..n}
      /\ DOMAIN events' = 1..(n + 1) /\ Range(events') = {events'[i] : i \in 1..(n + 1)}
  BY <1>4, <1>5 DEF Range
<1>8. \A x : x \in Range(events') <=> x \in Range(events) \/ x = e
  BY <1>1, <1>5, <1>7
<1>9. ASSUME NEW state \in States
      PROVE  Reached(state)' <=> Reached(state) \/ state = target
  <2>1. e.state = target
    OBVIOUS
  <2>2. QED
    BY <1>8, <2>1 DEF Reached
<1>10. target # State /\ ~Reached(target)
  <2>1. ASSUME NEW i \in 1..n, events[i].state = target
        PROVE  FALSE
    <3>1. StateRank(events'[i].state) < StateRank(events'[n + 1].state)
      BY <1>1, <1>5, <1>6 DEF Ascending
    <3>2. StateRank(target) \in Nat
      BY <1>2 DEF StateRank, States
    <3>3. QED
      BY <1>5, <2>1, <3>1, <3>2
  <2>2. QED
    BY <1>1, <2>1, ReachedBy
<1>11. ASSUME NEW state \in States, Reached(state)
       PROVE  Gate(state)' = Gate(state)
  <2>1. PICK i \in 1..n : events[i].state = state
    BY <1>11, ReachedBy
  <2>2. Gate(state) = events[i].details
    BY <2>1, OneEvent
  <2>3. events[i] \in Range(events') /\ \A x \in Range(events') : x.state = state => x = events[i]
    BY <1>7, <1>8, <1>10, <1>11, <2>1, OneEvent
  <2>4. (CHOOSE x \in Range(events') : x.state = state) = events[i]
    BY <2>1, <2>3
  <2>5. QED
    BY <2>2, <2>4 DEF Gate
<1>12. Gate(target)' = d
  <2>1. e \in Range(events') /\ \A x \in Range(events') : x.state = target => x = e
    BY <1>8, <1>10 DEF Reached
  <2>2. (CHOOSE x \in Range(events') : x.state = target) = e
    BY <2>1
  <2>3. e.details = d
    OBVIOUS
  <2>4. QED
    BY <2>2, <2>3 DEF Gate
<1>13. Reached(State)
  BY <1>1, OneEvent
<1>14. QED
  BY <1>1, <1>2, <1>5, <1>6, <1>9, <1>11, <1>12, <1>13

(* The first finding opens the candidate.                                  *)
LEMMA Opened ==
  ASSUME TypeOK, NEW f \in improvement.findings, Ingest(f)
  PROVE  \/ UNCHANGED events
         \/ /\ events' \in Seq(Event) /\ Len(events') = 1 /\ Len(events) = 0 /\ Ascending'
            /\ \A state \in States \ {"insufficient_evidence"} : ~Reached(state)'
            /\ \A i \in 1..Len(events') : events'[i].state # "adopted"
            /\ events'[1].actor = "ingestion"
<1> DEFINE e == [state |-> "insufficient_evidence", details |-> Nobody, actor |-> "ingestion",
                 basis |-> {f}]
<1>1. f \in Findings
  BY DEF TypeOK, Findings
<1>2. e \in Event
  BY <1>1 DEF Event, States
<1>3. UNCHANGED events \/ (events = <<>> /\ events' = <<e>>)
  BY DEF Ingest
<1>4. SUFFICES ASSUME events = <<>>, events' = <<e>>
               PROVE  /\ events' \in Seq(Event) /\ Len(events') = 1 /\ Len(events) = 0 /\ Ascending'
                      /\ \A state \in States \ {"insufficient_evidence"} : ~Reached(state)'
                      /\ \A i \in 1..Len(events') : events'[i].state # "adopted"
                      /\ events'[1].actor = "ingestion"
  BY <1>3
<1>5. events' \in Seq(Event) /\ Len(events') = 1 /\ Len(events) = 0 /\ events'[1] = e
  BY <1>2, <1>4
<1>6. Ascending'
  BY <1>5 DEF Ascending
<1>7. Range(events') = {e}
  <2>1. DOMAIN events' = {1}
    BY <1>4
  <2>2. QED
    BY <1>5, <2>1 DEF Range
<1>8. e.state = "insufficient_evidence" /\ e.actor = "ingestion"
  OBVIOUS
<1>9. QED
  BY <1>5, <1>6, <1>7, <1>8 DEF Reached

-----------------------------------------------------------------------------
(***************************************************************************)
(* The invariant.                                                          *)
(***************************************************************************)

(* Types, and the order of the events, through every step.                 *)
LEMMA TypeStep ==
  ASSUME TypeOK, Ascending, [ImprovementNext]_improvementVars
  PROVE  TypeOK' /\ Ascending'
<1> USE DEF ClaimType
<1>1. UNCHANGED events => Ascending'
  BY DEF Ascending
<1>2. CASE Tick
  BY <1>1, <1>2 DEF Tick, TypeOK
<1>3. ASSUME NEW f \in improvement.findings, Ingest(f)
      PROVE  TypeOK' /\ Ascending'
  <2>1. events' \in Seq(Event) /\ Ascending'
    BY <1>1, <1>3, Opened DEF TypeOK
  <2>2. f \in Findings
    BY DEF TypeOK, Findings
  <2>3. QED
    BY <1>3, <2>1, <2>2 DEF Ingest, TypeOK
<1>4. ASSUME NEW w \in Workers, Show(w)
      PROVE  TypeOK' /\ Ascending'
  <2>1. events \in Seq(Event) /\ seen \in [Workers -> [token : Nat \cup {Nobody}, revision : Nat]]
    BY DEF TypeOK
  <2>2. Revision \in Nat
    BY <2>1 DEF Revision
  <2>3. seen' = [seen EXCEPT ![w].revision = Revision]
    BY <1>4 DEF Show
  <2>4. seen' \in [Workers -> [token : Nat \cup {Nobody}, revision : Nat]]
    BY <2>1, <2>2, <2>3
  <2>5. QED
    BY <1>1, <1>4, <2>4 DEF Show, TypeOK
<1>5. ASSUME NEW w \in Workers, Claim(w)
      PROVE  TypeOK' /\ Ascending'
  <2>1. PICK lease \in Leases :
          claim' = [token |-> tokens, worker |-> w, expires |-> clock + lease, revision |-> Revision]
    BY <1>5 DEF Claim
  <2>2. lease \in Nat /\ Revision \in Nat /\ tokens \in Nat /\ clock \in Nat
    BY ImprovementLedgerAssumption DEF TypeOK, Revision
  <2>3. claim' \in ClaimType
    BY <2>1, <2>2
  <2>4. seen' \in [Workers -> [token : Nat \cup {Nobody}, revision : Nat]]
    BY <1>5, <2>2 DEF Claim, TypeOK
  <2>5. tokens' \in Nat
    BY <1>5, <2>2 DEF Claim
  <2>6. QED
    BY <1>1, <1>5, <2>3, <2>4, <2>5 DEF Claim, TypeOK
<1>6. ASSUME NEW w \in Workers, Release(w)
      PROVE  TypeOK' /\ Ascending'
  BY <1>1, <1>6 DEF Release, TypeOK
<1>7. ASSUME NEW w \in Workers, NEW target \in DOMAIN Details, NEW d \in Details[target],
             Transition(w, target, d)
      PROVE  TypeOK' /\ Ascending'
  <2>1. events' \in Seq(Event) /\ Ascending'
    BY <1>7, Moved
  <2>2. seen' \in [Workers -> [token : Nat \cup {Nobody}, revision : Nat]]
    <3>1. events \in Seq(Event) /\ seen \in [Workers -> [token : Nat \cup {Nobody}, revision : Nat]]
      BY DEF TypeOK
    <3>2. Revision + 1 \in Nat
      BY <3>1 DEF Revision
    <3>3. seen' = [seen EXCEPT ![w].revision = Revision + 1]
      BY <1>7 DEF Transition
    <3>4. QED
      BY <3>1, <3>2, <3>3
  <2>3. QED
    BY <1>7, <2>1, <2>2 DEF Transition, TypeOK
<1>8. CASE UNCHANGED improvementVars
  BY <1>1, <1>8 DEF improvementVars, TypeOK
<1>9. QED
  BY <1>2, <1>3, <1>4, <1>5, <1>6, <1>7, <1>8 DEF ImprovementNext

(* Steps that do not move the candidate leave its gates alone.             *)
LEMMA EventsStay ==
  ASSUME NoneSkipped, GatesHold, AdoptionIsEarned, UNCHANGED <<improvement, events>>
  PROVE  NoneSkipped' /\ GatesHold' /\ AdoptionIsEarned'
<1>1. \A state : Reached(state)' <=> Reached(state)
  BY DEF Reached
<1>2. \A state : Gate(state)' = Gate(state)
  BY DEF Gate
<1>3. Strategic' <=> Strategic
  BY DEF Strategic
<1>4. NoneSkipped'
  BY <1>1 DEF NoneSkipped
<1>5. GatesHold'
  BY <1>1, <1>2 DEF GatesHold
<1>6. AdoptionIsEarned'
  BY <1>2, <1>3 DEF AdoptionIsEarned
<1>7. QED
  BY <1>4, <1>5, <1>6

(* No transition skips a gate, or passes one it does not meet.             *)
LEMMA GatesStep ==
  ASSUME TypeOK, Ascending, NoneSkipped, GatesHold,
         NEW w \in Workers, NEW target \in DOMAIN Details, NEW d \in Details[target],
         Transition(w, target, d)
  PROVE  NoneSkipped' /\ GatesHold'
<1>1. /\ State \in States /\ Reached(State) /\ target \in Onward[State] /\ target \in States
      /\ \A state \in States : Reached(state)' <=> Reached(state) \/ state = target
      /\ \A state \in States : Reached(state) => Gate(state)' = Gate(state)
      /\ Gate(target)' = d
  BY Moved, Leads
<1>2. /\ target = "reproduced" => Reached("hypothesis")
      /\ target = "implementation_validated" => Reached("reproduced")
      /\ target = "measured" => Reached("implementation_validated")
      /\ target = "adopted" => Reached("measured")
  BY <1>1, Leads
<1>3. {"hypothesis", "reproduced", "implementation_validated", "measured", "adopted"} \subseteq States
  BY DEF States
<1>4. NoneSkipped'
  BY <1>1, <1>2, <1>3 DEF NoneSkipped
<1>5. target # "insufficient_evidence" /\ Earns(target, d)
  BY <1>1, Leads DEF Transition
<1>6. ASSUME Reached("hypothesis")'
      PROVE  FixturesApart(Gate("hypothesis"))'
  <2>1. CASE target = "hypothesis"
    <3>1. FixturesApart(d)
      BY <1>5, <2>1 DEF Earns
    <3>2. QED
      BY <1>1, <2>1, <3>1 DEF FixturesApart
  <2>2. CASE target # "hypothesis"
    BY <1>1, <1>3, <1>6, <2>2 DEF GatesHold, FixturesApart
  <2>3. QED
    BY <2>1, <2>2
<1>7. ASSUME Reached("measured")'
      PROVE  /\ Gate("measured").commit' = Gate("implementation_validated").commit'
             /\ Gate("measured").baseline' = Gate("hypothesis").baseline'
             /\ Gate("measured").heldOut' = Gate("hypothesis").heldOut'
             /\ \A c \in Gate("hypothesis").criteria' : Meets(Gate("measured").metrics', c)
  <2>1. CASE target = "measured"
    <3>1. /\ d.commit = Gate("implementation_validated").commit
          /\ d.baseline = Gate("hypothesis").baseline /\ d.heldOut = Gate("hypothesis").heldOut
          /\ \A c \in Gate("hypothesis").criteria : Meets(d.metrics, c)
      BY <1>5, <2>1 DEF Earns
    <3>2. /\ Gate("implementation_validated")' = Gate("implementation_validated")
          /\ Gate("hypothesis")' = Gate("hypothesis")
      BY <1>1, <1>2, <1>3, <2>1 DEF NoneSkipped
    <3>3. QED
      BY <1>1, <2>1, <3>1, <3>2
  <2>2. CASE target # "measured"
    <3>1. Reached("measured") /\ Reached("implementation_validated") /\ Reached("hypothesis")
      BY <1>1, <1>3, <1>7, <2>2 DEF NoneSkipped
    <3>2. /\ Gate("measured")' = Gate("measured") /\ Gate("hypothesis")' = Gate("hypothesis")
          /\ Gate("implementation_validated")' = Gate("implementation_validated")
      BY <1>1, <1>3, <3>1
    <3>3. QED
      BY <3>1, <3>2 DEF GatesHold
  <2>3. QED
    BY <2>1, <2>2
<1>8. GatesHold'
  BY <1>6, <1>7 DEF GatesHold, Meets
<1>9. QED
  BY <1>4, <1>8

(* An adoption comes after a measurement, and against all that is known.   *)
LEMMA AdoptionStep ==
  ASSUME TypeOK, Ascending, NoneSkipped, GatesHold, AdoptionIsEarned,
         NEW w \in Workers, NEW target \in DOMAIN Details, NEW d \in Details[target],
         Transition(w, target, d)
  PROVE  AdoptionIsEarned'
<1> DEFINE Fair(basis) ==
      /\ Gate("measured").commit = Gate("implementation_validated").commit
      /\ Apart(Gate("measured").heldOut, basis) /\ FixturesApart(Gate("measured"))
      /\ \A c \in Gate("hypothesis").criteria : Meets(Gate("measured").metrics, c)
      /\ Strategic => /\ Cardinality(GroupsOf(basis)) >= 2
                      /\ \A s \in basis : s.complete /\ ~s.low
<1>1. /\ State \in States /\ Reached(State) /\ target \in Onward[State]
      /\ Len(events') = Len(events) + 1 /\ Len(events) \in Nat
      /\ DOMAIN events = 1..Len(events) /\ DOMAIN events' = 1..Len(events')
      /\ \A i \in 1..Len(events) : events'[i] = events[i]
      /\ events'[Len(events) + 1].state = target /\ events'[Len(events) + 1].basis = sources
      /\ \A state \in States : Reached(state) => Gate(state)' = Gate(state)
  <2>1. events \in Seq(Event) /\ events' \in Seq(Event)
    BY Moved DEF TypeOK
  <2>2. DOMAIN events = 1..Len(events) /\ DOMAIN events' = 1..Len(events') /\ Len(events) \in Nat
    BY <2>1
  <2>3. events'[Len(events) + 1] =
          [state |-> target, details |-> d, actor |-> w, basis |-> sources]
    BY Moved
  <2>4. events'[Len(events) + 1].state = target /\ events'[Len(events) + 1].basis = sources
    BY <2>3
  <2>5. QED
    BY <2>2, <2>4, Moved
<1>2. {"hypothesis", "reproduced", "implementation_validated", "measured", "adopted"} \subseteq States
  BY DEF States
<1>3. Strategic' <=> Strategic
  BY DEF Transition, Strategic
<1>4. ASSUME Reached("measured")
      PROVE  /\ Gate("measured")' = Gate("measured") /\ Gate("hypothesis")' = Gate("hypothesis")
             /\ Gate("implementation_validated")' = Gate("implementation_validated")
  BY <1>1, <1>2, <1>4 DEF NoneSkipped
<1>5. ASSUME NEW basis, Reached("measured"), Fair(basis)
      PROVE  Fair(basis)'
  BY <1>3, <1>4, <1>5
<1>6. ASSUME NEW i \in 1..Len(events), events[i].state = "adopted"
      PROVE  Reached("measured") /\ Fair(events[i].basis)
  <2>1. Reached("measured")
    BY <1>6, OneEvent DEF NoneSkipped
  <2>2. QED
    BY <1>1, <1>6, <2>1 DEF AdoptionIsEarned
<1>7. ASSUME target = "adopted"
      PROVE  Reached("measured") /\ Fair(sources)
  <2>1. Reached("measured") /\ Reached("hypothesis")
    BY <1>1, <1>7, Leads DEF NoneSkipped
  <2>2. Apart(Gate("hypothesis").heldOut, sources)
    BY <1>7, <2>1 DEF Transition, StillApart
  <2>3. FixturesApart(Gate("measured")) /\ Apart(Gate("measured").heldOut, sources)
    BY <2>1, <2>2 DEF GatesHold, FixturesApart
  <2>4. Strategic => \A s \in sources : s.complete
    BY <1>7 DEF Transition, Grounded
  <2>5. Strategic => Cardinality(GroupsOf(sources)) >= 2 /\ \A s \in sources : ~s.low
    BY <1>7 DEF Transition, Earns
  <2>6. QED
    BY <2>1, <2>3, <2>4, <2>5 DEF GatesHold
<1> HIDE DEF Fair
<1>8. ASSUME NEW i \in 1..Len(events'), events'[i].state = "adopted"
      PROVE  \E basis : basis = events'[i].basis /\ Fair(basis)'
  <2>1. CASE i \in 1..Len(events)
    <3>1. PICK basis : basis = events[i].basis
      OBVIOUS
    <3>2. Reached("measured") /\ Fair(basis)
      BY <1>1, <1>6, <1>8, <2>1, <3>1
    <3>3. QED
      BY <1>1, <1>5, <2>1, <3>1, <3>2
  <2>2. CASE i = Len(events) + 1
    <3>1. PICK basis : basis = sources
      OBVIOUS
    <3>2. Reached("measured") /\ Fair(basis)
      BY <1>1, <1>7, <1>8, <2>2, <3>1
    <3>3. QED
      BY <1>1, <1>5, <2>2, <3>1, <3>2
  <2>3. QED
    BY <1>1, <2>1, <2>2
<1>9. QED
  BY <1>1, <1>8 DEF Fair, AdoptionIsEarned

(* Nobody but the holder of a claim moves the candidate, and no two hold   *)
(* one token: tokens are fresh, and what a worker saw of them is older.    *)
LEMMA ClaimsStep ==
  ASSUME TypeOK, Ascending, ClaimsHold, [ImprovementNext]_improvementVars
  PROVE  ClaimsHold'
<1>1. /\ events \in Seq(Event) /\ tokens \in Nat /\ Len(events) \in Nat
      /\ seen \in [Workers -> [token : Nat \cup {Nobody}, revision : Nat]]
      /\ claim # Nobody => claim.revision \in Nat /\ claim.token \in Nat
  BY DEF TypeOK, ClaimType
<1>2. CASE Tick
  BY <1>2 DEF Tick, ClaimsHold, Revision
<1>3. ASSUME NEW f \in improvement.findings, Ingest(f)
      PROVE  ClaimsHold'
  <2>1. UNCHANGED <<claim, tokens, seen>> /\ (events # <<>> => UNCHANGED events)
    BY <1>3 DEF Ingest
  <2>2. CASE claim = Nobody
    BY <2>1, <2>2 DEF ClaimsHold
  <2>3. CASE claim # Nobody
    BY <2>1, <2>3 DEF ClaimsHold, Revision
  <2>4. QED
    BY <2>2, <2>3
<1>4. ASSUME NEW w \in Workers, Show(w)
      PROVE  ClaimsHold'
  <2>1. UNCHANGED <<claim, tokens, events>> /\ seen' = [seen EXCEPT ![w].revision = Revision]
    BY <1>4 DEF Show
  <2>2. \A v \in Workers : seen'[v].token = seen[v].token
    BY <1>1, <2>1
  <2>3. QED
    BY <2>1, <2>2 DEF ClaimsHold, Revision
<1>5. ASSUME NEW w \in Workers, Claim(w)
      PROVE  ClaimsHold'
  <2>1. PICK lease \in Leases :
          claim' = [token |-> tokens, worker |-> w, expires |-> clock + lease, revision |-> Revision]
    BY <1>5 DEF Claim
  <2>2. /\ claim'.token = tokens /\ claim'.worker = w /\ claim'.revision = Len(events)
    BY <2>1 DEF Revision
  <2>3. /\ tokens' = tokens + 1 /\ UNCHANGED events /\ events # <<>>
        /\ seen' = [seen EXCEPT ![w] = [token |-> tokens, revision |-> Revision]]
    BY <1>5 DEF Claim
  <2>4. \A v \in Workers : seen'[v].token = IF v = w THEN tokens ELSE seen[v].token
    BY <1>1, <2>3
  <2>5. \A v \in Workers : seen[v].token # Nobody => seen[v].token \in Nat /\ seen[v].token < tokens
    BY <1>1 DEF ClaimsHold
  <2>6. \A v \in Workers : seen'[v].token = tokens => v = w
    BY <1>1, <2>4, <2>5, ImprovementLedgerAssumption
  <2>7. \A v \in Workers : seen'[v].token # Nobody => seen'[v].token < tokens'
    BY <1>1, <2>3, <2>4, <2>5
  <2>8. QED
    BY <1>1, <2>2, <2>3, <2>6, <2>7 DEF ClaimsHold, Revision
<1>6. ASSUME NEW w \in Workers, Release(w)
      PROVE  ClaimsHold'
  BY <1>6 DEF Release, ClaimsHold
<1>7. ASSUME NEW w \in Workers, NEW target \in DOMAIN Details, NEW d \in Details[target],
             Transition(w, target, d)
      PROVE  ClaimsHold'
  <2>1. /\ UNCHANGED <<claim, tokens>> /\ seen' = [seen EXCEPT ![w].revision = Revision + 1]
        /\ claim # Nobody => claim.worker = w
    BY <1>7 DEF Transition, MayMove
  <2>2. \A v \in Workers : seen'[v].token = seen[v].token
    BY <1>1, <2>1
  <2>3. /\ events' \in Seq(Event) /\ Len(events') = Len(events) + 1
        /\ \A i \in 1..Len(events) : events'[i] = events[i]
        /\ events'[Len(events) + 1] =
             [state |-> target, details |-> d, actor |-> w, basis |-> sources]
    BY <1>7, Moved
  <2>4. events'[Len(events) + 1].actor = w
    BY <2>3
  <2>5. events' # <<>>
    BY <1>1, <2>3
  <2>6. ASSUME claim # Nobody, NEW i \in (claim.revision + 1)..Len(events')
        PROVE  events'[i].actor = claim.worker
    <3>1. i \in 1..Len(events) \/ i = Len(events) + 1
      BY <1>1, <2>3, <2>6
    <3>2. CASE i \in 1..Len(events)
      <4>1. i \in (claim.revision + 1)..Len(events)
        BY <1>1, <2>3, <2>6, <3>2
      <4>2. QED
        BY <2>3, <2>6, <3>2, <4>1 DEF ClaimsHold, Revision
    <3>3. QED
      BY <2>1, <2>4, <2>6, <3>1, <3>2
  <2>7. QED
    BY <2>1, <2>2, <2>5, <2>6 DEF ClaimsHold, Revision
<1>8. CASE UNCHANGED improvementVars
  BY <1>8 DEF improvementVars, ClaimsHold, Revision
<1>9. QED
  BY <1>2, <1>3, <1>4, <1>5, <1>6, <1>7, <1>8 DEF ImprovementNext

(* A candidate starts without events.                                      *)
LEMMA InitCandidateInv ==
  ASSUME ImprovementInit
  PROVE  CandidateInv
<1>1. TypeOK
  BY DEF ImprovementInit, TypeOK
<1>2. Len(events) = 0 /\ Range(events) = {} /\ DOMAIN events = {}
  BY DEF ImprovementInit, Range
<1>3. \A state : ~Reached(state)
  BY <1>2 DEF Reached
<1>4. Ascending /\ AdoptionIsEarned
  BY <1>2 DEF Ascending, AdoptionIsEarned
<1>5. NoneSkipped /\ GatesHold
  BY <1>3 DEF NoneSkipped, GatesHold
<1>6. ClaimsHold
  BY DEF ImprovementInit, ClaimsHold
<1>7. QED
  BY <1>1, <1>4, <1>5, <1>6 DEF CandidateInv

(* The first finding of a candidate does not move it past any gate.        *)
LEMMA GatesAtFirst ==
  ASSUME TypeOK, NoneSkipped, GatesHold, AdoptionIsEarned,
         NEW f \in improvement.findings, Ingest(f)
  PROVE  NoneSkipped' /\ GatesHold' /\ AdoptionIsEarned'
<1>1. CASE UNCHANGED events
  <2>1. UNCHANGED improvement
    BY DEF Ingest
  <2>2. QED
    BY <1>1, <2>1, EventsStay
<1>2. CASE ~UNCHANGED events
  <2>1. /\ \A state \in States \ {"insufficient_evidence"} : ~Reached(state)'
        /\ \A i \in 1..Len(events') : events'[i].state # "adopted"
        /\ events' \in Seq(Event)
    BY <1>2, Opened
  <2>2. /\ ~Reached("hypothesis")' /\ ~Reached("reproduced")' /\ ~Reached("measured")'
        /\ ~Reached("implementation_validated")' /\ ~Reached("adopted")'
    BY <2>1 DEF States
  <2>3. AdoptionIsEarned'
    BY <2>1 DEF AdoptionIsEarned
  <2>4. QED
    BY <2>2, <2>3 DEF NoneSkipped, GatesHold
<1>3. QED
  BY <1>1, <1>2

(* Every step keeps the invariant.                                         *)
LEMMA NextCandidateInv ==
  ASSUME CandidateInv, [ImprovementNext]_improvementVars
  PROVE  CandidateInv'
<1>1. /\ TypeOK /\ Ascending /\ NoneSkipped /\ GatesHold /\ AdoptionIsEarned /\ ClaimsHold
  BY DEF CandidateInv
<1>2. TypeOK' /\ Ascending' /\ ClaimsHold'
  BY <1>1, TypeStep, ClaimsStep
<1>3. CASE UNCHANGED <<improvement, events>>
  BY <1>1, <1>2, <1>3, EventsStay DEF CandidateInv
<1>4. ASSUME NEW f \in improvement.findings, Ingest(f)
      PROVE  CandidateInv'
  BY <1>1, <1>2, <1>4, GatesAtFirst DEF CandidateInv
<1>5. ASSUME NEW w \in Workers, NEW target \in DOMAIN Details, NEW d \in Details[target],
             Transition(w, target, d)
      PROVE  CandidateInv'
  BY <1>1, <1>2, <1>5, GatesStep, AdoptionStep DEF CandidateInv
<1>6. QED
  BY <1>3, <1>4, <1>5 DEF ImprovementNext, improvementVars, Tick, Show, Claim, Release

-----------------------------------------------------------------------------
(* The invariant holds of every reachable state.                           *)
THEOREM CandidateIsSound == ImprovementSpec => []CandidateInv
<1>1. ImprovementInit => CandidateInv
  BY InitCandidateInv
<1>2. CandidateInv /\ [ImprovementNext]_improvementVars => CandidateInv'
  BY NextCandidateInv
<1>3. QED
  BY <1>1, <1>2, PTL DEF ImprovementSpec

(* What is adopted was measured as it was reviewed, on fixtures the        *)
(* evidence does not contain, and while a lease lives nobody but its       *)
(* holder moves the candidate (improvement.py).                            *)
THEOREM ImprovementsEarned == ImprovementSpec => []ImprovementsAreEarned
<1>1. CandidateInv => ImprovementsAreEarned
  BY DEF CandidateInv, ClaimsHold, ImprovementsAreEarned, LeaseIsKept
<1>2. QED
  BY <1>1, CandidateIsSound, PTL

-----------------------------------------------------------------------------
(***************************************************************************)
(* The evidence store.                                                     *)
(***************************************************************************)

Binding == {"bind", "bind_open", "bind_move"}
StoreSteps == {"idle", "put", "put_open", "put_move"} \cup Binding

StoreTypes ==
  /\ plan \in Plans /\ Procs \subseteq Pids /\ todo \in [Procs -> Seq(Names)]
  /\ pc \in [Procs -> StoreSteps] /\ store \in [Names -> {"absent", "good", "rotten"}]
  /\ catalog \in [Identities -> SUBSET Names]

(* What has been stored is never absent again, whatever rots.              *)
Held(n) == n \in Names /\ store[n] # "absent"
Founded(n) == \A m \in RestsOn[n] : Held(m)

(* Who writes a record has found all that it rests on, and binds its       *)
(* identity only when it is stored itself; nobody else binds it meanwhile  *)
(* when nobody else writes.                                                *)
WritesAlone(p) == Procs = {p}
WriterOK(p) ==
  /\ pc[p] # "idle" => todo[p] # << >> /\ Founded(Head(todo[p]))
  /\ pc[p] \in Binding => Held(Doing(p))
  /\ pc[p] \in {"bind_open", "bind_move"} /\ WritesAlone(p) => catalog[IdOf(Doing(p))] = {}
WritersOK == \A p \in Procs : WriterOK(p)

CatalogOK == \A i \in Identities : \A n \in catalog[i] : IdOf(n) = i /\ Held(n) /\ Founded(n)

(* Only what a sound manifest trains on was exported, and only what passed *)
(* every gate was issued.                                                  *)
ExportsOK == exported \subseteq UNION {Rows[n] : n \in Of("dataset")}
Earned(c) ==
  /\ c.by \in Names /\ QualificationJoins(Records[c.by]) /\ EligibleForPromotion(Records[c.by])
  /\ c.payload = Records[Records[c.by].candidate].payload /\ Held(c.payload)
IssuedOK == \A c \in issued : Earned(c)

StoreInv == StoreTypes /\ WritersOK /\ CatalogOK /\ ExportsOK /\ IssuedOK

-----------------------------------------------------------------------------
LEMMA DoingNamed ==
  ASSUME StoreTypes, NEW p \in Procs, todo[p] # << >>
  PROVE  Doing(p) \in Names /\ IdOf(Doing(p)) \in Identities /\ Tail(todo[p]) \in Seq(Names)
<1>1. todo[p] \in Seq(Names) /\ todo[p] # << >>
  BY DEF StoreTypes, Procs
<1>2. Head(todo[p]) \in Names /\ Tail(todo[p]) \in Seq(Names)
  BY <1>1
<1>3. QED
  BY <1>2 DEF Doing, IdOf, Identities

(* What is valid rests on what is held.                                    *)
LEMMA ValidRests ==
  ASSUME StoreTypes, NEW n \in Names, Valid(n)
  PROVE  Founded(n)
BY GivenAssumption DEF Valid, Founded, Held, Reads

(* A step of a writer moves that writer alone.                             *)
Moves(p, step, rest) ==
  /\ pc' = [pc EXCEPT ![p] = step] /\ todo' = [todo EXCEPT ![p] = rest]

Outcome(p) ==
  \/ \E step \in StoreSteps : Goto(p, step)
  \/ Written(p)
  \/ Refused(p)

LEMMA WritersMove ==
  ASSUME StoreTypes, NEW p \in Procs, Outcome(p), todo[p] # << >>
  PROVE  /\ todo' \in [Procs -> Seq(Names)] /\ Procs' = Procs /\ pc' \in [Procs -> StoreSteps]
         /\ \A q \in Procs \ {p} : pc'[q] = pc[q] /\ todo'[q] = todo[q]
         /\ pc'[p] = "idle" \/ todo'[p] = todo[p]
<1>1. todo[p] \in Seq(Names) /\ Doing(p) \in Names /\ Tail(todo[p]) \in Seq(Names)
  BY DoingNamed DEF StoreTypes
<1>2. Append(Tail(todo[p]), Head(todo[p])) \in Seq(Names)
  BY <1>1 DEF Doing
<1>3. todo \in [Procs -> Seq(Names)] /\ pc \in [Procs -> StoreSteps] /\ "idle" \in StoreSteps
  BY DEF StoreTypes, StoreSteps
<1>4. CASE \E step \in StoreSteps : Goto(p, step)
  BY <1>3, <1>4 DEF Goto, Procs
<1>5. CASE Written(p)
  BY <1>1, <1>3, <1>5 DEF Written, Procs
<1>6. CASE Refused(p)
  BY <1>2, <1>3, <1>6 DEF Refused, Procs
<1>7. QED
  BY <1>4, <1>5, <1>6 DEF Outcome

LEMMA StepOutcome ==
  ASSUME StoreTypes, NEW p \in Procs, WriterOK(p), Step(p)
  PROVE  todo[p] # << >> /\ Outcome(p) /\ UNCHANGED <<plan, exported, issued, crashes>>
<1>0. \A step \in StoreSteps : Goto(p, step) => Outcome(p)
  BY DEF Outcome
<1>1. Written(p) \/ Refused(p) => Outcome(p)
  BY DEF Outcome
<1>2. PutDone(p) => Outcome(p)
  BY <1>0, <1>1 DEF PutDone, StoreSteps, Binding
<1>4. CASE Begin(p)
  BY <1>0, <1>1, <1>4 DEF Begin, StoreSteps
<1>5. CASE PutChecks(p)
  <2>1. pc[p] = "put" /\ (PutDone(p) \/ Refused(p) \/ Goto(p, "put_open"))
    BY <1>5 DEF PutChecks
  <2>2. QED
    BY <1>0, <1>1, <1>2, <1>5, <2>1 DEF PutChecks, WriterOK, StoreSteps
<1>6. CASE PutOpens(p)
  <2>1. pc[p] = "put_open" /\ (PutDone(p) \/ Refused(p) \/ Goto(p, "put_move"))
    BY <1>6 DEF PutOpens, Opens
  <2>2. QED
    BY <1>0, <1>1, <1>2, <1>6, <2>1 DEF PutOpens, WriterOK, StoreSteps
<1>7. CASE PutMoves(p)
  BY <1>2, <1>7 DEF PutMoves, WriterOK
<1>8. CASE BindChecks(p)
  <2>1. pc[p] = "bind" /\ (Written(p) \/ Refused(p) \/ Goto(p, "bind_open"))
    BY <1>8 DEF BindChecks
  <2>2. QED
    BY <1>0, <1>1, <1>8, <2>1 DEF BindChecks, WriterOK, StoreSteps, Binding
<1>9. CASE BindOpens(p)
  <2>1. pc[p] = "bind_open" /\ (Written(p) \/ Refused(p) \/ Goto(p, "bind_move"))
    BY <1>9 DEF BindOpens, Opens
  <2>2. QED
    BY <1>0, <1>1, <1>9, <2>1 DEF BindOpens, WriterOK, StoreSteps, Binding
<1>10. CASE BindMoves(p)
  BY <1>1, <1>10 DEF BindMoves, WriterOK
<1>11. QED
  BY <1>4, <1>5, <1>6, <1>7, <1>8, <1>9, <1>10 DEF Step

(* A step puts at most the record it is about into the store, or binds at  *)
(* most the identity of that record.                                       *)
LEMMA StepEffect ==
  ASSUME NEW p \in Procs, Step(p)
  PROVE  /\ \/ store' = store
            \/ pc[p] = "put_move" /\ store' = [store EXCEPT ![Doing(p)] = "good"]
         /\ \/ catalog' = catalog
            \/ pc[p] = "bind_move" /\ catalog' = [catalog EXCEPT ![IdOf(Doing(p))] = {Doing(p)}]
BY DEF Step, Begin, PutChecks, PutOpens, PutMoves, BindChecks, BindOpens, BindMoves

(* What has been stored stays, and so does what rests on it.               *)
LEMMA HeldStays ==
  ASSUME StoreTypes, WritersOK, [Next]_vars
  PROVE  /\ store' \in [Names -> {"absent", "good", "rotten"}]
         /\ \A n : Held(n) => Held(n)'
         /\ \A n : Founded(n) => Founded(n)'
<1> DEFINE Stays == /\ store' \in [Names -> {"absent", "good", "rotten"}]
                    /\ \A n \in Names : store[n] # "absent" => store'[n] # "absent"
<1>1. Stays
  <2>1. store \in [Names -> {"absent", "good", "rotten"}]
    BY DEF StoreTypes
  <2>2. ASSUME NEW p \in Procs, Step(p) PROVE Stays
    <3>1. store' = store \/ store' = [store EXCEPT ![Doing(p)] = "good"]
      BY <2>2, StepEffect
    <3>2. QED
      BY <2>1, <3>1
  <2>3. ASSUME Rot PROVE Stays
    BY <2>1, <2>3 DEF Rot
  <2>4. ASSUME store' = store PROVE Stays
    BY <2>1, <2>4
  <2>5. (\E p \in Procs : Step(p)) \/ Rot \/ store' = store
    BY DEF Next, Crash, Export, Issue, vars
  <2>6. QED
    <3> HIDE DEF Stays
    <3>1. QED
      BY <2>2, <2>3, <2>4, <2>5
<1>2. \A n : Held(n) => Held(n)'
  BY <1>1 DEF Held, Names, Records
<1>3. QED
  BY <1>1, <1>2 DEF Founded

(* Where a step leads, unless the writer is done with the record.          *)
WriterGoes(p) ==
  \/ pc'[p] = "idle"
  \/ pc[p] = "idle" /\ pc'[p] = "put" /\ Valid(Doing(p))
  \/ pc[p] # "idle" /\ pc'[p] \in {"put_open", "put_move"}
  \/ pc[p] # "idle" /\ pc'[p] = "bind" /\ store'[Doing(p)] = "good"
  \/ pc[p] = "bind" /\ pc'[p] = "bind_open" /\ catalog' = catalog /\ catalog[IdOf(Doing(p))] = {}
  \/ pc[p] = "bind_open" /\ pc'[p] = "bind_move" /\ catalog' = catalog

LEMMA StepLeads ==
  ASSUME StoreTypes, NEW p \in Procs, WriterOK(p), Step(p)
  PROVE  WriterGoes(p)
<1>1. /\ DOMAIN pc = Procs /\ pc \in [Procs -> StoreSteps] /\ store \in [Names -> {"absent", "good", "rotten"}]
      /\ (pc[p] # "idle" => Doing(p) \in Names)
  BY DoingNamed DEF StoreTypes, WriterOK
<1>2. \A step : Goto(p, step) => pc'[p] = step
  BY <1>1 DEF Goto
<1>3. Written(p) \/ Refused(p) => pc'[p] = "idle"
  BY <1>1 DEF Written, Refused
<1>4. PutDone(p) => pc'[p] \in {"idle", "bind"}
  BY <1>2, <1>3 DEF PutDone
<1>5. CASE Begin(p)
  BY <1>2, <1>3, <1>5 DEF Begin, WriterGoes
<1>6. CASE PutChecks(p)
  <2>1. \/ store[Doing(p)] = "good" /\ PutDone(p)
        \/ Refused(p)
        \/ Goto(p, "put_open")
    BY <1>6 DEF PutChecks
  <2>2. pc[p] = "put" /\ store' = store
    BY <1>6 DEF PutChecks
  <2>3. QED
    BY <1>2, <1>3, <1>4, <2>1, <2>2 DEF WriterGoes
<1>7. CASE PutOpens(p)
  <2>1. \/ store[Doing(p)] = "good" /\ PutDone(p)
        \/ Refused(p)
        \/ Goto(p, "put_move")
    BY <1>7 DEF PutOpens, Opens
  <2>2. pc[p] = "put_open" /\ store' = store
    BY <1>7 DEF PutOpens
  <2>3. QED
    BY <1>2, <1>3, <1>4, <2>1, <2>2 DEF WriterGoes
<1>8. CASE PutMoves(p)
  <2>1. pc[p] = "put_move" /\ store' = [store EXCEPT ![Doing(p)] = "good"] /\ PutDone(p)
    BY <1>8 DEF PutMoves
  <2>2. store'[Doing(p)] = "good"
    BY <1>1, <2>1
  <2>3. QED
    BY <1>4, <2>1, <2>2 DEF WriterGoes
<1>9. CASE BindChecks(p)
  <2>1. \/ Written(p) \/ Refused(p)
        \/ catalog[IdOf(Doing(p))] = {} /\ Goto(p, "bind_open")
    BY <1>9 DEF BindChecks
  <2>2. QED
    BY <1>2, <1>3, <1>9, <2>1 DEF BindChecks, WriterGoes
<1>10. CASE BindOpens(p)
  <2>1. Written(p) \/ Refused(p) \/ Goto(p, "bind_move")
    BY <1>10 DEF BindOpens, Opens
  <2>2. QED
    BY <1>2, <1>3, <1>10, <2>1 DEF BindOpens, WriterGoes
<1>11. CASE BindMoves(p)
  BY <1>3, <1>11 DEF BindMoves, WriterGoes
<1>12. QED
  BY <1>5, <1>6, <1>7, <1>8, <1>9, <1>10, <1>11 DEF Step

LEMMA WriterStep ==
  ASSUME StoreTypes, WritersOK, NEW p \in Procs, Step(p)
  PROVE  WritersOK'
<1>1. WriterOK(p) /\ [Next]_vars
  BY DEF WritersOK, Next
<1>2. todo[p] # << >> /\ Outcome(p) /\ Doing(p) \in Names
  BY <1>1, StepOutcome, DoingNamed
<1>3. /\ Procs' = Procs /\ \A q \in Procs \ {p} : pc'[q] = pc[q] /\ todo'[q] = todo[q]
      /\ pc'[p] = "idle" \/ todo'[p] = todo[p]
      /\ DOMAIN pc = Procs
  BY <1>2, WritersMove DEF StoreTypes
<1>4. (\A n : Held(n) => Held(n)') /\ (\A n : Founded(n) => Founded(n)')
  BY <1>1, HeldStays
<1>7. WriterGoes(p)
  BY <1>1, StepLeads
<1>5. ASSUME NEW q \in Procs \ {p}
      PROVE  WriterOK(q)'
  <2>1. WriterOK(q) /\ ~WritesAlone(q)' /\ Doing(q)' = Doing(q)
    BY <1>3 DEF WritersOK, WritesAlone, Doing
  <2>2. QED
    BY <1>3, <1>4, <2>1 DEF WriterOK, Doing
<1>6. WriterOK(p)'
  <2>0. PICK n \in Names : n = Doing(p)
    BY <1>2
  <2>1. ASSUME todo'[p] = todo[p], Founded(n),
               pc'[p] \in Binding => Held(n)',
               pc'[p] \in {"bind_open", "bind_move"} /\ WritesAlone(p) => catalog'[IdOf(n)] = {}
        PROVE  WriterOK(p)'
    BY <1>2, <1>3, <1>4, <2>0, <2>1 DEF WriterOK, Doing, WritesAlone, IdOf, Records
  <2>2. CASE pc'[p] = "idle"
    BY <2>2 DEF WriterOK, Binding
  <2>3. CASE pc[p] = "idle" /\ pc'[p] = "put" /\ Valid(n)
    BY <1>2, <1>3, <2>0, <2>1, <2>3, ValidRests DEF Binding, WriterOK, Outcome
  <2>4. CASE pc[p] # "idle" /\ pc'[p] # "idle"
    <3>1. Founded(n) /\ todo'[p] = todo[p]
      BY <2>0, <2>4, <1>1, <1>3 DEF WriterOK, Doing
    <3>2. (pc[p] \in Binding => Held(n)') /\ (pc[p] \in {"bind_open", "bind_move"} /\ WritesAlone(p) => catalog[IdOf(n)] = {})
      BY <1>1, <1>4, <2>0 DEF WriterOK
    <3>3. pc'[p] \in {"put_open", "put_move"} \/ Held(n)'
      BY <2>0, <2>4, <1>2, <1>7, <3>2 DEF WriterGoes, Held, Binding, Names, Records
    <3>4. pc'[p] \in {"bind_open", "bind_move"} /\ WritesAlone(p) => catalog'[IdOf(n)] = {}
      BY <2>0, <2>4, <1>7, <3>2 DEF WriterGoes
    <3>5. pc'[p] \in {"put_open", "put_move"} => pc'[p] \notin Binding
      BY DEF Binding
    <3>6. QED
      BY <2>1, <3>1, <3>3, <3>4, <3>5
  <2>5. QED
    BY <1>7, <2>0, <2>2, <2>3, <2>4 DEF WriterGoes
<1>8. QED
  BY <1>3, <1>5, <1>6 DEF WritersOK

LEMMA StoreTypesStep ==
  ASSUME StoreTypes, WritersOK, [Next]_vars
  PROVE  StoreTypes'
<1>1. store' \in [Names -> {"absent", "good", "rotten"}] /\ catalog \in [Identities -> SUBSET Names]
      /\ "idle" \in StoreSteps
  BY HeldStays DEF StoreTypes, StoreSteps
<1>2. ASSUME NEW p \in Procs, Step(p)
      PROVE  StoreTypes'
  <2>1. todo[p] # << >> /\ Outcome(p) /\ plan' = plan /\ Doing(p) \in Names
    BY <1>2, StepOutcome, DoingNamed DEF WritersOK
  <2>2. todo' \in [Procs -> Seq(Names)] /\ Procs' = Procs /\ pc' \in [Procs -> StoreSteps]
    BY <2>1, WritersMove
  <2>3. catalog' \in [Identities -> SUBSET Names]
    BY <1>1, <1>2, <2>1, StepEffect
  <2>4. QED
    BY <1>1, <2>1, <2>2, <2>3 DEF StoreTypes, Names, Records, Identities
<1>3. ASSUME NEW p \in Procs, Crash(p)
      PROVE  StoreTypes'
  BY <1>1, <1>3 DEF StoreTypes, Crash, Goto, Procs, Names, Records, Identities
<1>4. CASE UNCHANGED <<plan, catalog, todo, pc>>
  BY <1>1, <1>4 DEF StoreTypes, Procs, Names, Records, Identities
<1>5. QED
  BY <1>2, <1>3, <1>4 DEF Next, Export, Issue, Rot, vars

LEMMA WritersStep ==
  ASSUME StoreTypes, WritersOK, [Next]_vars
  PROVE  WritersOK'
<1>1. (\A n : Held(n) => Held(n)') /\ (\A n : Founded(n) => Founded(n)')
  BY HeldStays
<1>2. ASSUME NEW p \in Procs, Crash(p)
      PROVE  WritersOK'
  <2>1. todo' = todo /\ catalog' = catalog /\ pc' = [pc EXCEPT ![p] = "idle"] /\ DOMAIN pc = Procs
    BY <1>2 DEF Crash, Goto, StoreTypes
  <2>2. \A q \in Procs : WriterOK(q) /\ (pc'[q] = "idle" \/ pc'[q] = pc[q])
    BY <2>1 DEF WritersOK
  <2>3. ASSUME NEW q \in Procs
        PROVE  WriterOK(q)'
    <3>1. CASE pc'[q] = "idle"
      BY <3>1 DEF WriterOK, Binding
    <3>2. CASE pc'[q] = pc[q]
      BY <1>1, <2>1, <2>2, <3>2 DEF WriterOK, Doing, WritesAlone, Procs, IdOf, Records
    <3>3. QED
      BY <2>2, <3>1, <3>2
  <2>4. QED
    BY <2>1, <2>3 DEF WritersOK, Procs
<1>3. ASSUME UNCHANGED <<catalog, todo, pc>>
      PROVE  WritersOK'
  <2>1. ASSUME NEW q \in Procs
        PROVE  WriterOK(q)'
    <3>1. WriterOK(q)
      BY DEF WritersOK
    <3>2. QED
      BY <1>1, <1>3, <3>1 DEF WriterOK, Doing, WritesAlone, Procs, IdOf, Records
  <2>2. QED
    BY <1>3, <2>1 DEF WritersOK, Procs
<1>4. QED
  BY <1>2, <1>3, WriterStep DEF Next, Export, Issue, Rot, vars

LEMMA CatalogStep ==
  ASSUME StoreTypes, WritersOK, CatalogOK, [Next]_vars
  PROVE  CatalogOK'
<1>1. (\A n : Held(n) => Held(n)') /\ (\A n : Founded(n) => Founded(n)')
  BY HeldStays
<1>2. CASE catalog' = catalog
  BY <1>1, <1>2 DEF CatalogOK, Identities, IdOf, Names, Records
<1>3. ASSUME NEW p \in Procs, Step(p), pc[p] = "bind_move",
             catalog' = [catalog EXCEPT ![IdOf(Doing(p))] = {Doing(p)}]
      PROVE  CatalogOK'
  <2>1. PICK n : n = Doing(p)
    OBVIOUS
  <2>2. Held(n) /\ Founded(n)
    BY <1>3, <2>1 DEF WritersOK, WriterOK, Binding, Doing
  <2>3. \A i \in Identities : catalog'[i] = IF i = IdOf(n) THEN {n} ELSE catalog[i]
    BY <1>3, <2>1 DEF StoreTypes
  <2>4. \A i \in Identities : \A m \in catalog'[i] : IdOf(m) = i /\ Held(m) /\ Founded(m)
    BY <2>2, <2>3 DEF CatalogOK
  <2>5. QED
    BY <1>1, <2>4 DEF CatalogOK, Identities, IdOf, Names, Records
<1>4. QED
  BY <1>2, <1>3, StepEffect DEF Next, Crash, Export, Issue, Rot, vars

LEMMA ExportsStep ==
  ASSUME StoreTypes, WritersOK, ExportsOK, [Next]_vars
  PROVE  ExportsOK'
<1>1. CASE exported' = exported
  BY <1>1 DEF ExportsOK, Rows, Of, Names, Records
<1>2. CASE Export
  BY <1>2 DEF Export, ExportsOK, Rows, Of, Names, Records
<1>3. QED
  BY <1>1, <1>2, StepOutcome DEF Next, Crash, Issue, Rot, vars, WritersOK

LEMMA IssuedStep ==
  ASSUME StoreTypes, WritersOK, IssuedOK, [Next]_vars
  PROVE  IssuedOK'
<1>1. \A n : Held(n) => Held(n)'
  BY HeldStays
<1>2. \A c : Earned(c) => Earned(c)'
  BY <1>1 DEF Earned, Names, Records
<1>3. CASE issued' = issued
  BY <1>2, <1>3 DEF IssuedOK
<1>4. CASE Issue
  <2>1. PICK n \in Of("qualification") :
          /\ Valid(n) /\ EligibleForPromotion(Records[n])
          /\ LET c == Records[Records[n].candidate] IN
             issued' = issued \cup {[component |-> c.id, payload |-> c.payload, by |-> n]}
    BY <1>4 DEF Issue
  <2>2. n \in Names /\ Records[n].kind = "qualification"
    BY DEF Of
  <2>3. QualificationJoins(Records[n])
    BY <2>1, <2>2 DEF Valid, Sound, Joins
  <2>4. Records[Records[n].candidate].payload \in RestsOn[n]
    BY <2>2 DEF RestsOn, Named
  <2>5. Held(Records[Records[n].candidate].payload)
    BY <2>1, <2>2, <2>4, ValidRests DEF Founded
  <2>6. QED
    BY <1>2, <2>1, <2>2, <2>3, <2>5 DEF IssuedOK, Earned
<1>5. QED
  BY <1>3, <1>4, StepOutcome DEF Next, Crash, Export, Rot, vars, WritersOK

LEMMA InitStoreInv == Init => StoreInv
<1> SUFFICES ASSUME Init PROVE StoreInv
  OBVIOUS
<1>1. StoreTypes
  <2>1. plan \in Plans /\ todo \in [Procs -> Seq(Names)] /\ Procs \subseteq Pids
    <3>1. plan \in Plans /\ todo = plan.todo /\ Procs = DOMAIN plan.todo
      BY DEF Init, Procs
    <3>2. QED
      BY <3>1, EvidenceStoreAssumption DEF Names, Records
  <2>2. pc \in [Procs -> StoreSteps] /\ store \in [Names -> {"absent", "good", "rotten"}]
    BY DEF Init, StoreSteps
  <2>3. catalog \in [Identities -> SUBSET Names]
    BY GivenAssumption DEF Init
  <2>4. QED
    BY <2>1, <2>2, <2>3 DEF StoreTypes
<1>2. WritersOK
  BY DEF Init, WritersOK, WriterOK, Binding, Procs
<1>3. \A n \in plan.given : Held(n) /\ Founded(n)
  BY GivenAssumption DEF Init, Held, Founded
<1>4. CatalogOK
  BY <1>3 DEF Init, CatalogOK
<1>5. ExportsOK /\ IssuedOK
  BY DEF Init, ExportsOK, IssuedOK
<1>6. QED
  BY <1>1, <1>2, <1>4, <1>5 DEF StoreInv

(* The invariant of the evidence store: what is cataloged, exported and    *)
(* issued, and what each writer has found before it writes.                *)
THEOREM StoreIsSound == StoreSpec => []StoreInv
<1>1. StoreInv /\ [Next]_vars => StoreInv'
  BY StoreTypesStep, WritersStep, CatalogStep, ExportsStep, IssuedStep DEF StoreInv
<1>2. QED
  BY <1>1, InitStoreInv, PTL DEF StoreSpec
-----------------------------------------------------------------------------
(* Who writes alone binds nothing anew.                                    *)
LEMMA NothingRebound ==
  ASSUME StoreInv, [Next]_vars, Cardinality(Procs) = 1, NEW i \in Identities, catalog[i] # {}
  PROVE  catalog'[i] = catalog[i]
<1>1. ASSUME NEW p \in Procs PROVE WritesAlone(p)
  <2>1. IsFiniteSet(Procs)
    BY EvidenceStoreAssumption, FS_Subset DEF StoreInv, StoreTypes
  <2>2. PICK q : Procs = {q}
    BY <2>1, FS_Singleton
  <2>3. QED
    BY <2>2 DEF WritesAlone
<1>2. CASE catalog' = catalog
  BY <1>2
<1>3. ASSUME NEW p \in Procs, pc[p] = "bind_move",
             catalog' = [catalog EXCEPT ![IdOf(Doing(p))] = {Doing(p)}]
      PROVE  catalog'[i] = catalog[i]
  <2>1. catalog[IdOf(Doing(p))] = {}
    BY <1>1, <1>3 DEF StoreInv, WritersOK, WriterOK
  <2>2. QED
    BY <1>3, <2>1 DEF StoreInv, StoreTypes
<1>4. QED
  BY <1>2, <1>3, StepEffect DEF Next, Crash, Export, Issue, Rot, vars

(* What was held out of a manifest was not exported from it for training.  *)
LEMMA HeldOutStays ==
  ASSUME ExportsOK, NEW n, NEW s, s \in DOMAIN Records[n].splits, Records[n].splits[s].role = "frozen_test",
         NEW d \in Members(Records[n].splits[s])
  PROVE  <<n, d>> \notin exported
<1>1. SUFFICES ASSUME <<n, d>> \in exported PROVE FALSE
  OBVIOUS
<1>2. PICK m \in Of("dataset") : <<n, d>> \in Rows[m]
  BY <1>1 DEF ExportsOK
<1>3. PICK e \in UNION {Members(Records[m].splits[t]) : t \in {u \in DOMAIN Records[m].splits : MayExport(m, u)}} :
        <<n, d>> = <<m, e>>
  BY <1>2 DEF Rows
<1>4. PICK t \in DOMAIN Records[n].splits : MayExport(n, t) /\ d \in Members(Records[n].splits[t])
  BY <1>3
<1>5. d \in Frozen(Records[n])
  BY DEF Frozen
<1>6. QED
  BY <1>4, <1>5 DEF MayExport

LEMMA EarnedIsEarned == StoreInv => IssuedIsEarned
<1> SUFFICES ASSUME StoreInv, NEW c \in issued
             PROVE  LET q == Records[c.by] IN
               /\ c.payload = Records[q.candidate].payload /\ store[c.payload] # "absent"
               /\ \A i \in 1..3 : q.stages[i].passed
               /\ \A i \in 1..2 : LET d == Records[q.stages[i].dataset] IN
                    d.splits[q.stages[i].split].role = <<"validation", "frozen_test">>[i]
               /\ \A d \in Members(Records[q.stages[2].dataset].splits[q.stages[2].split]) :
                    <<q.stages[2].dataset, d>> \notin exported
  BY DEF IssuedIsEarned
<1> DEFINE q == Records[c.by]
           kinds == <<"replay", "frozen_held_out", "shadow">>
<1>1. Earned(c) /\ ExportsOK
  BY DEF StoreInv, IssuedOK
<1>2. [i \in DOMAIN q.stages |-> q.stages[i].stage] = kinds /\ DatasetGate(q.stages[1]) /\ DatasetGate(q.stages[2])
  BY <1>1 DEF Earned, QualificationJoins
<1>3. DOMAIN q.stages = 1..3
  <2>1. DOMAIN [i \in DOMAIN q.stages |-> q.stages[i].stage] = DOMAIN kinds
    BY <1>2
  <2>2. QED
    BY <2>1
<1>4. q.stages[1].stage = "replay" /\ q.stages[2].stage = "frozen_held_out"
  <2>1. \A i \in 1..3 : [j \in DOMAIN q.stages |-> q.stages[j].stage][i] = q.stages[i].stage
    BY <1>3
  <2>2. \A i \in 1..3 : q.stages[i].stage = kinds[i]
    BY <1>2, <2>1
  <2>3. 1 \in 1..3 /\ 2 \in 1..3 /\ kinds[1] = "replay" /\ kinds[2] = "frozen_held_out"
    OBVIOUS
  <2>4. QED
    BY <2>2, <2>3
<1>5. Records[q.stages[1].dataset].splits[q.stages[1].split].role = "validation"
  BY <1>2, <1>4 DEF DatasetGate
<1>6. /\ Records[q.stages[2].dataset].splits[q.stages[2].split].role = "frozen_test"
      /\ q.stages[2].split \in DOMAIN Records[q.stages[2].dataset].splits
  BY <1>2, <1>4 DEF DatasetGate
<1>7. \A d \in Members(Records[q.stages[2].dataset].splits[q.stages[2].split]) :
        <<q.stages[2].dataset, d>> \notin exported
  BY <1>1, <1>6, HeldOutStays
<1>8. \A i \in 1..2 : Records[q.stages[i].dataset].splits[q.stages[i].split].role = <<"validation", "frozen_test">>[i]
  <2> DEFINE roles == <<"validation", "frozen_test">>
             Is(i) == Records[q.stages[i].dataset].splits[q.stages[i].split].role = roles[i]
  <2>1. roles[1] = "validation" /\ roles[2] = "frozen_test" /\ \A i \in 1..2 : i = 1 \/ i = 2
    OBVIOUS
  <2>2. Is(1) /\ Is(2)
    BY <1>5, <1>6, <2>1
  <2>3. \A i \in 1..2 : Is(i)
    <3> HIDE DEF Is
    <3>1. QED
      BY <2>1, <2>2
  <2>4. QED
    BY <2>3
<1>9. c.payload = Records[q.candidate].payload /\ store[c.payload] # "absent" /\ \A i \in 1..3 : q.stages[i].passed
  BY <1>1, <1>3 DEF Earned, Held, EligibleForPromotion
<1>10. QED
  BY <1>7, <1>8, <1>9

(* The catalog never names what the store has not held whole, one writer   *)
(* binds an identity to one content for good, and a component is issued    *)
(* for its own candidate, through gates that were passed on the kinds of   *)
(* split they ask for; what the manifest of its last test held out was not *)
(* exported from that manifest (another manifest may have exported it).    *)
(* For any records, plans of writers, crashes and rotting blobs.           *)
THEOREM RecordsAreKept == StoreSpec => RecordsStand
<1>1. StoreInv => CatalogIsGrounded
  BY DEF StoreInv, CatalogOK, CatalogIsGrounded, Held, Founded
<1>2. StoreInv /\ [Next]_vars =>
        [Cardinality(Procs) = 1 => \A i \in Identities : catalog[i] # {} => catalog'[i] = catalog[i]]_vars
  BY NothingRebound
<1>3. QED
  BY <1>1, <1>2, StoreIsSound, EarnedIsEarned, PTL DEF RecordsStand, BoundOnce, StoreSpec

-----------------------------------------------------------------------------
(***************************************************************************)
(* The custody of recordings.                                              *)
(***************************************************************************)

(* What a registry has opened and locked at each step.  It opens the       *)
(* native lock's file under the Gym's lock only; one that is closing keeps *)
(* it open for a moment longer.                                            *)
BothLocks == {"gym", "native"}
RegistryOK(r) ==
  LET it == registry[r] IN
  /\ it.verified <=> it.at = "held"
  /\ it.at = "closed" => it.open = {}
  /\ it.at = "closing" => it.open # {}
  /\ it.at = "opening" => it.open = {} \/ (it.open = {"gym"} /\ lockers.gym = r)
  /\ it.at = "locking" => it.open = {"gym"} \/ (it.open = BothLocks /\ lockers.gym = r)
  /\ it.at \in {"checking", "held"} =>
       it.open = BothLocks /\ lockers.gym = r /\ (it.early \/ lockers.native = "process")
  /\ it.at = "held" => it.early \/ capture = "attested"

(* Who has both locks while another has yet to close the native lock's     *)
(* file took them between the other's two closes.                          *)
HasBoth == {"checking", "held"}
TakenEarly ==
  \A q, r \in Registries :
    q # r /\ lockers.gym = r /\ registry[r].at \in HasBoth /\ "native" \in registry[q].open
      => registry[r].early

RegistrySteps == {"closed", "opening", "locking", "checking", "held", "closing"}
RegistryTypes == [at : RegistrySteps, open : SUBSET BothLocks, verified : BOOLEAN, early : BOOLEAN]
CustodyTypes ==
  /\ registry \in [Registries -> RegistryTypes]
  /\ lockers \in [gym : Registries \cup {"nobody"}, native : {"nobody", "process", "writer"}]
  /\ capture \in {"attested", "changed"}
RegistryInv == CustodyTypes /\ TakenEarly /\ \A r \in Registries : RegistryOK(r)

LEMMA Opened1 ==
  /\ Cardinality({}) = 0 /\ Cardinality({"gym"}) = 1 /\ Cardinality(BothLocks) = 2
  /\ Locks[1] = "gym" /\ Locks[2] = "native"
<1>1. Cardinality({}) = 0 /\ IsFiniteSet({"gym"}) /\ Cardinality({"gym"}) = 1
  BY FS_EmptySet, FS_Singleton
<1>2. BothLocks = {"gym"} \cup {"native"} /\ "native" \notin {"gym"}
  BY DEF BothLocks
<1>3. Cardinality(BothLocks) = 2
  BY <1>1, <1>2, FS_AddElement
<1>4. QED
  BY <1>1, <1>3 DEF Locks

(* A step of one registry that takes no lock from another, unless that one *)
(* is excused.                                                             *)
LEMMA OneRegistrySteps ==
  ASSUME RegistryInv, NEW r \in Registries, CustodyTypes', RegistryOK(r)', TakenEarly', capture' = capture,
         \A s \in Registries \ {r} : registry'[s] = registry[s],
         \A s \in Registries \ {r} : lockers.gym = s => lockers'.gym = s,
         \A s \in Registries \ {r} :
           lockers.gym = s /\ registry[s].at \in HasBoth /\ lockers.native = "process" =>
             lockers'.native = "process" \/ registry[s].early
  PROVE  RegistryInv'
<1>1. ASSUME NEW s \in Registries \ {r}
      PROVE  RegistryOK(s)'
  <2>1. RegistryOK(s) /\ registry'[s] = registry[s]
    BY DEF RegistryInv
  <2>2. QED
    BY <2>1 DEF RegistryOK, HasBoth
<1>2. QED
  BY <1>1 DEF RegistryInv

(* No file is opened and no lock goes to anybody else.                     *)
LEMMA StaysEarly ==
  ASSUME RegistryInv, NEW r \in Registries, \A s \in Registries \ {r} : registry'[s] = registry[s],
         registry'[r].early = registry[r].early,
         "native" \in registry'[r].open => "native" \in registry[r].open,
         registry'[r].at \in HasBoth => registry[r].at \in HasBoth,
         lockers'.gym \in {lockers.gym, "nobody"}
  PROVE  TakenEarly'
<1>1. \A q \in Registries : registry'[q].early = registry[q].early
                            /\ ("native" \in registry'[q].open => "native" \in registry[q].open)
                            /\ (registry'[q].at \in HasBoth => registry[q].at \in HasBoth)
  OBVIOUS
<1>2. QED
  BY <1>1, CustodyAssumption DEF RegistryInv, TakenEarly

LEMMA BeginsCloseKeeps ==
  ASSUME RegistryInv, NEW r \in Registries, BeginsClose(r)
  PROVE  RegistryInv'
<1>1. registry[r] \in RegistryTypes /\ registry \in [Registries -> RegistryTypes]
  BY DEF RegistryInv, CustodyTypes
<1>2. registry' = [registry EXCEPT ![r] = [registry[r] EXCEPT
                     !.at = IF registry[r].open = {} THEN "closed" ELSE "closing", !.verified = FALSE]]
  BY <1>1 DEF BeginsClose
<1>3. /\ registry'[r].at = IF registry[r].open = {} THEN "closed" ELSE "closing"
      /\ registry'[r].open = registry[r].open /\ registry'[r].early = registry[r].early
      /\ registry'[r].verified = FALSE /\ registry'[r] \in RegistryTypes
  BY <1>1, <1>2 DEF RegistryTypes, RegistrySteps
<1>4. UNCHANGED <<lockers, capture>>
  BY DEF BeginsClose
<1>5. CustodyTypes' /\ RegistryOK(r)'
  BY <1>1, <1>2, <1>3, <1>4 DEF RegistryInv, CustodyTypes, RegistryOK
<1>6. TakenEarly'
  <2>1. registry'[r].at \notin HasBoth /\ lockers'.gym \in {lockers.gym, "nobody"}
    BY <1>3, <1>4 DEF HasBoth
  <2>2. \A s \in Registries \ {r} : registry'[s] = registry[s]
    BY <1>1, <1>2
  <2>3. QED
    BY <1>3, <2>1, <2>2, StaysEarly
<1>7. QED
  BY <1>1, <1>2, <1>4, <1>5, <1>6, OneRegistrySteps

LEMMA ClosesLockKeeps ==
  ASSUME RegistryInv, NEW r \in Registries, ClosesLock(r)
  PROVE  RegistryInv'
<1>1. registry[r] \in RegistryTypes /\ registry \in [Registries -> RegistryTypes]
  BY DEF RegistryInv, CustodyTypes
<1>2. PICK lock \in registry[r].open :
        /\ lockers' = Released(lock, r)
        /\ registry' = [registry EXCEPT ![r] = [registry[r] EXCEPT !.open = registry[r].open \ {lock},
             !.at = IF registry[r].open \ {lock} = {} THEN "closed" ELSE "closing"]]
        /\ capture' = capture
  <2>1. registry[r].open # {} /\ registry[r].open \subseteq BothLocks
    BY <1>1 DEF ClosesLock, RegistryInv, RegistryOK, RegistryTypes
  <2>2. (IF Locks[1] \in registry[r].open THEN Locks[1] ELSE Locks[2]) \in registry[r].open
    BY <2>1, Opened1 DEF BothLocks
  <2>3. QED
    BY <1>1, <2>2 DEF ClosesLock
<1>3. /\ registry'[r].open = registry[r].open \ {lock} /\ registry'[r].early = registry[r].early
      /\ registry'[r].at = IF registry[r].open \ {lock} = {} THEN "closed" ELSE "closing"
      /\ registry'[r].verified = FALSE /\ registry'[r] \in RegistryTypes
  <2>1. registry[r].verified = FALSE
    BY <1>1 DEF ClosesLock, RegistryInv, RegistryOK, RegistryTypes
  <2>2. QED
    BY <1>1, <1>2, <2>1 DEF RegistryTypes, RegistrySteps
<1>4. lock \in BothLocks
  BY <1>1 DEF RegistryTypes
<1>5. /\ lockers' \in [gym : Registries \cup {"nobody"}, native : {"nobody", "process", "writer"}]
      /\ lockers'.gym \in {lockers.gym, "nobody"} /\ (lockers'.gym # lockers.gym => lockers.gym = r)
      /\ lockers'.native # lockers.native => lock = "native"
  BY <1>2, <1>4 DEF Released, Owner, RegistryInv, CustodyTypes, BothLocks
<1>6. CustodyTypes' /\ RegistryOK(r)'
  BY <1>1, <1>2, <1>3, <1>5 DEF RegistryInv, CustodyTypes, RegistryOK
<1>7. TakenEarly'
  <2>1. registry'[r].at \notin HasBoth
    BY <1>3 DEF HasBoth
  <2>2. \A s \in Registries \ {r} : registry'[s] = registry[s]
    BY <1>1, <1>2
  <2>3. QED
    BY <1>3, <1>5, <2>1, <2>2, StaysEarly
<1>8. \A s \in Registries \ {r} : lockers.gym = s => lockers'.gym = s
  BY <1>5
<1>9. \A s \in Registries \ {r} :
        lockers.gym = s /\ registry[s].at \in HasBoth /\ lockers'.native # lockers.native
          => registry[s].early
  BY <1>2, <1>5 DEF RegistryInv, TakenEarly
<1>10. QED
  BY <1>1, <1>2, <1>6, <1>7, <1>8, <1>9, OneRegistrySteps

LEMMA OpensLockKeeps ==
  ASSUME RegistryInv, NEW r \in Registries, OpensLock(r)
  PROVE  RegistryInv'
<1>1. /\ registry[r] \in RegistryTypes /\ registry \in [Registries -> RegistryTypes]
      /\ UNCHANGED <<lockers, capture>>
  BY DEF RegistryInv, CustodyTypes, OpensLock
<1>2. registry[r].open = {} \/ (registry[r].open = {"gym"} /\ lockers.gym = r)
  BY DEF OpensLock, RegistryInv, RegistryOK
<1>3. PICK lock \in BothLocks :
        /\ registry' = [registry EXCEPT ![r] = [registry[r] EXCEPT !.open = @ \cup {lock}, !.at = "locking"]]
        /\ lock = IF registry[r].open = {} THEN "gym" ELSE "native"
  <2>1. CASE registry[r].open = {}
    <3>1. Cardinality(registry[r].open) + 1 = 1
      BY <2>1, Opened1
    <3>2. registry' = [registry EXCEPT ![r].open = @ \cup {Locks[1]}, ![r].at = "locking"]
      BY <3>1 DEF OpensLock
    <3>3. QED
      BY <1>1, <2>1, <3>2, Opened1 DEF BothLocks
  <2>2. CASE registry[r].open = {"gym"}
    <3>1. Cardinality(registry[r].open) + 1 = 2
      BY <2>2, Opened1
    <3>2. registry' = [registry EXCEPT ![r].open = @ \cup {Locks[2]}, ![r].at = "locking"]
      BY <3>1 DEF OpensLock
    <3>3. QED
      BY <1>1, <2>2, <3>2, Opened1 DEF BothLocks
  <2>3. QED
    BY <1>2, <2>1, <2>2
<1>4. /\ registry'[r].open = registry[r].open \cup {lock} /\ registry'[r].at = "locking"
      /\ registry'[r].early = registry[r].early /\ registry'[r].verified = registry[r].verified
      /\ registry'[r] \in RegistryTypes
  BY <1>1, <1>3 DEF RegistryTypes, RegistrySteps
<1>5. CustodyTypes' /\ RegistryOK(r)'
  BY <1>1, <1>2, <1>3, <1>4 DEF OpensLock, RegistryInv, CustodyTypes, RegistryOK, BothLocks
<1>6. TakenEarly'
  <2>1. CASE lock = "gym"
    BY <1>1, <1>3, <1>4, <2>1, StaysEarly DEF HasBoth
  <2>2. CASE lock = "native"
    <3>1. registry'[r].at \notin HasBoth
      BY <1>4 DEF HasBoth
    <3>2. lockers'.gym = r
      BY <1>1, <1>2, <1>3, <2>2
    <3>3. QED
      BY <3>1, <3>2 DEF TakenEarly
  <2>3. QED
    BY <1>3, <2>1, <2>2 DEF BothLocks
<1>7. QED
  BY <1>1, <1>3, <1>5, <1>6, OneRegistrySteps

LEMMA TakesLockKeeps ==
  ASSUME RegistryInv, NEW r \in Registries, TakesLock(r)
  PROVE  RegistryInv'
<1>1. registry[r] \in RegistryTypes /\ registry \in [Registries -> RegistryTypes]
  BY DEF RegistryInv, CustodyTypes
<1>2. CASE BeginsClose(r)
  BY <1>2, BeginsCloseKeeps
<1>3. CASE ~BeginsClose(r) /\ registry[r].open = {"gym"}
  <2>1. /\ lockers.gym \in {"nobody", r} /\ lockers' = [lockers EXCEPT !.gym = r] /\ capture' = capture
        /\ registry' = [registry EXCEPT ![r] = [registry[r] EXCEPT !.at = "opening"]]
    <3>1. Locks[Cardinality(registry[r].open)] = "gym" /\ Locks[2] = "native"
      BY <1>3, Opened1
    <3>2. /\ lockers.gym \in {"nobody", r} /\ lockers' = [lockers EXCEPT !.gym = r] /\ capture' = capture
          /\ registry' = [registry EXCEPT ![r].at = "opening", ![r].early = @]
      BY <1>3, <3>1 DEF TakesLock, CanLock, Owner
    <3>3. QED
      BY <1>1, <3>2 DEF RegistryTypes
  <2>2. /\ registry'[r].open = {"gym"} /\ registry'[r].at = "opening"
        /\ registry'[r].verified = registry[r].verified /\ registry'[r] \in RegistryTypes
    BY <1>1, <1>3, <2>1 DEF RegistryTypes, RegistrySteps
  <2>3. lockers'.gym = r /\ lockers'.native = lockers.native
        /\ lockers' \in [gym : Registries \cup {"nobody"}, native : {"nobody", "process", "writer"}]
    BY <2>1 DEF RegistryInv, CustodyTypes
  <2>4. CustodyTypes' /\ RegistryOK(r)'
    BY <1>1, <2>1, <2>2, <2>3 DEF TakesLock, RegistryInv, CustodyTypes, RegistryOK
  <2>5. TakenEarly'
    BY <2>2, <2>3 DEF TakenEarly, HasBoth
  <2>6. QED
    BY <1>1, <2>1, <2>3, <2>4, <2>5, CustodyAssumption, OneRegistrySteps
<1>4. CASE ~BeginsClose(r) /\ registry[r].open = BothLocks /\ lockers.gym = r
  <2> DEFINE early == \E q \in Registries \ {r} : HalfClosed(q)
  <2>1. /\ lockers' = [lockers EXCEPT !.native = "process"] /\ capture' = capture
        /\ registry' = [registry EXCEPT ![r] = [registry[r] EXCEPT !.at = "checking", !.early = early]]
    <3>1. Locks[Cardinality(registry[r].open)] = "native" /\ Locks[2] = "native"
      BY <1>4, Opened1
    <3>2. /\ lockers' = [lockers EXCEPT !.native = "process"] /\ capture' = capture
          /\ registry' = [registry EXCEPT ![r].at = "checking", ![r].early = early]
      BY <1>4, <3>1 DEF TakesLock, Owner
    <3> HIDE DEF early
    <3>3. QED
      BY <1>1, <3>2 DEF RegistryTypes
  <2>2. /\ registry'[r].open = BothLocks /\ registry'[r].at = "checking" /\ registry'[r].early = early
        /\ registry'[r].verified = registry[r].verified /\ registry'[r] \in RegistryTypes
    <3>1. early \in BOOLEAN
      OBVIOUS
    <3> HIDE DEF early
    <3>2. QED
      BY <1>1, <1>4, <2>1, <3>1 DEF RegistryTypes, RegistrySteps
  <2>3. lockers'.gym = r /\ lockers'.native = "process"
        /\ lockers' \in [gym : Registries \cup {"nobody"}, native : {"nobody", "process", "writer"}]
    BY <1>4, <2>1 DEF RegistryInv, CustodyTypes
  <2>4. CustodyTypes' /\ RegistryOK(r)'
    <3> HIDE DEF early
    <3>1. QED
      BY <1>1, <2>1, <2>2, <2>3 DEF TakesLock, RegistryInv, CustodyTypes, RegistryOK
  <2>5. ASSUME NEW q \in Registries, q # r, "native" \in registry'[q].open
        PROVE  registry'[r].early
    <3>1. registry[q].at = "closing" /\ "native" \in registry[q].open
      <4>1. registry'[q] = registry[q] /\ registry[q] \in RegistryTypes /\ lockers.gym # q /\ RegistryOK(q)
        BY <1>1, <1>4, <2>1, <2>5 DEF RegistryInv
      <4>2. QED
        BY <2>5, <4>1 DEF RegistryOK, RegistryTypes, RegistrySteps
    <3>2. HalfClosed(q)
      BY <3>1 DEF HalfClosed
    <3>3. QED
      BY <2>2, <2>5, <3>2
  <2>6. TakenEarly'
    BY <2>3, <2>5 DEF TakenEarly
  <2>7. QED
    BY <1>1, <1>4, <2>1, <2>3, <2>4, <2>6, OneRegistrySteps
<1>5. QED
  BY <1>2, <1>3, <1>4 DEF TakesLock, RegistryInv, RegistryOK

LEMMA RegistryStep ==
  ASSUME RegistryInv, [RegistryNext]_registryVars
  PROVE  RegistryInv'
<1>1. ASSUME NEW r \in Registries, ReadsReceipt(r)
      PROVE  RegistryInv'
  <2>1. /\ registry[r] \in RegistryTypes /\ registry \in [Registries -> RegistryTypes] /\ registry[r].at = "closed"
        /\ registry' = [registry EXCEPT ![r] = [registry[r] EXCEPT !.at = "opening"]] /\ UNCHANGED <<lockers, capture>>
    BY <1>1 DEF RegistryInv, CustodyTypes, ReadsReceipt
  <2>2. /\ registry'[r].open = registry[r].open /\ registry'[r].at = "opening"
        /\ registry'[r].early = registry[r].early /\ registry'[r].verified = registry[r].verified
        /\ registry'[r] \in RegistryTypes
    BY <2>1 DEF RegistryTypes, RegistrySteps
  <2>3. CustodyTypes' /\ RegistryOK(r)'
    BY <2>1, <2>2 DEF RegistryInv, CustodyTypes, RegistryOK
  <2>4. TakenEarly'
    BY <2>1, <2>2, StaysEarly DEF HasBoth
  <2>5. QED
    BY <2>1, <2>3, <2>4, OneRegistrySteps
<1>2. ASSUME NEW r \in Registries, Checks(r)
      PROVE  RegistryInv'
  <2>1. CASE BeginsClose(r)
    BY <2>1, BeginsCloseKeeps
  <2>2. CASE ~BeginsClose(r)
    <3>1. /\ registry[r] \in RegistryTypes /\ registry \in [Registries -> RegistryTypes]
          /\ registry[r].at = "checking" /\ capture = "attested" /\ UNCHANGED <<lockers, capture>>
          /\ registry' = [registry EXCEPT ![r] = [registry[r] EXCEPT !.at = "held", !.verified = TRUE]]
      BY <1>2, <2>2 DEF RegistryInv, CustodyTypes, Checks
    <3>2. /\ registry'[r].open = registry[r].open /\ registry'[r].at = "held"
          /\ registry'[r].early = registry[r].early /\ registry'[r].verified = TRUE
          /\ registry'[r] \in RegistryTypes
      BY <3>1 DEF RegistryTypes, RegistrySteps
    <3>3. CustodyTypes' /\ RegistryOK(r)'
      BY <3>1, <3>2 DEF RegistryInv, CustodyTypes, RegistryOK
    <3>4. TakenEarly'
      BY <3>1, <3>2, StaysEarly DEF HasBoth
    <3>5. QED
      BY <3>1, <3>3, <3>4, OneRegistrySteps
  <2>3. QED
    BY <2>1, <2>2
<1>3. ASSUME NEW r \in Registries, VerifiesAgain(r) \/ StopsRegistry(r)
      PROVE  RegistryInv'
  BY <1>3, BeginsCloseKeeps DEF VerifiesAgain, StopsRegistry
<1>4. ASSUME WriterLocks \/ WriterWrites \/ WriterUnlocks
      PROVE  RegistryInv'
  <2>1. registry' = registry /\ lockers'.gym = lockers.gym
        /\ (lockers.native = "process" => lockers' = lockers /\ capture' = capture)
    BY <1>4 DEF WriterLocks, WriterWrites, WriterUnlocks, RegistryInv, CustodyTypes
  <2>2. CustodyTypes'
    BY <1>4 DEF WriterLocks, WriterWrites, WriterUnlocks, RegistryInv, CustodyTypes
  <2>3. TakenEarly'
    BY <2>1 DEF RegistryInv, TakenEarly
  <2>4. \A r \in Registries : RegistryOK(r)'
    BY <2>1 DEF RegistryInv, RegistryOK
  <2>5. QED
    BY <2>2, <2>3, <2>4 DEF RegistryInv
<1>5. CASE UNCHANGED registryVars
  BY <1>5 DEF registryVars, RegistryInv, CustodyTypes, TakenEarly, RegistryOK
<1>6. QED
  BY <1>1, <1>2, <1>3, <1>4, <1>5, OpensLockKeeps, TakesLockKeeps, ClosesLockKeeps DEF RegistryNext

-----------------------------------------------------------------------------
(* The inventory.  A stamp that a file has lost never comes back: who had  *)
(* it when it was read, and has it at the second look, had it in between.  *)
ReadFiles == {walk.files[i] : i \in 1..Len(walk.files)}
StampedFiles == Places \X (Nat \ {0})
WalkTypes ==
  /\ tree \in [Places -> 0..stamps] /\ stamps \in Nat \ {0}
  /\ walk.files \in Seq(StampedFiles) /\ walk.read \subseteq StampedFiles /\ walk.dirs \subseteq Dirs
  /\ \A f \in ReadFiles \cup walk.read : f[2] <= stamps
SecondLook ==
  walk.at \in {"again", "made"} =>
    /\ \A f \in ReadFiles : tree[f[1]] = f[2] => walk.then[f[1]] = f[2]
    /\ walk.dirs = {} => \A f \in ReadFiles \ walk.read : walk.then[f[1]] = f[2]
    /\ walk.at = "made" => walk.dirs = {} /\ walk.read = {}
WalkSteps == {"idle", "walking", "again", "made", "failed"}
WalkShape ==
  walk \in [at : WalkSteps, dirs : SUBSET Dirs, here : SUBSET Dirs, todo : SUBSET Places,
            found : SUBSET Places, read : SUBSET StampedFiles, files : Seq(StampedFiles), then : {walk.then}]
WalkInv == WalkTypes /\ WalkShape /\ SecondLook

LEMMA NoWalkOK ==
  ASSUME NEW at \in {"idle", "failed", "walking"}, NEW dirs \in SUBSET Dirs,
         walk' = [at |-> at, dirs |-> dirs, here |-> {}, todo |-> {}, found |-> {}, read |-> {},
          files |-> << >>, then |-> << >>],
         tree' \in [Places -> 0..stamps'], stamps' \in Nat \ {0}
  PROVE  WalkInv'
<1>1. walk' = [at |-> at, dirs |-> dirs, here |-> {}, todo |-> {}, found |-> {}, read |-> {},
          files |-> << >>, then |-> << >>]
  OBVIOUS
<1>2. << >> \in Seq(StampedFiles) /\ Len(<< >>) = 0 /\ 1..0 = {}
  BY EmptySeq
<1>3. ReadFiles' = {}
  <2>1. walk'.files = << >>
    BY ONLY <1>1
  <2>2. Len(walk'.files) = 0
    BY ONLY <2>1, <1>2
  <2>3. 1..Len(walk'.files) = {}
    BY ONLY <2>2
  <2>4. QED
    BY ONLY <2>3 DEF ReadFiles
<1>4. WalkTypes'
  <2>1. tree' \in [Places -> 0..stamps'] /\ stamps' \in Nat \ {0}
    OBVIOUS
  <2>2. walk'.files = << >> /\ walk'.read = {} /\ walk'.dirs = dirs
    BY ONLY <1>1
  <2>3. walk'.files \in Seq(StampedFiles) /\ walk'.read \subseteq StampedFiles /\ walk'.dirs \subseteq Dirs
    BY <1>2, <2>2
  <2>4. \A f \in ReadFiles' \cup walk'.read : f[2] <= stamps'
    BY <1>3, <2>2
  <2>5. QED
    BY <2>1, <2>3, <2>4 DEF WalkTypes, StampedFiles, Dirs
<1>5. WalkShape'
  <2> DEFINE S == Seq(StampedFiles)
  <2>1. << >> \in S
    BY <1>2
  <2> HIDE DEF S
  <2>2. walk' \in [at : WalkSteps, dirs : SUBSET Dirs, here : SUBSET Dirs, todo : SUBSET Places,
                   found : SUBSET Places, read : SUBSET StampedFiles, files : S, then : {walk'.then}]
    BY ONLY <1>1, <2>1, at \in {"idle", "failed", "walking"}, dirs \in SUBSET Dirs DEF WalkSteps
  <2>3. QED
    BY <2>2 DEF S, WalkShape, WalkSteps, StampedFiles, Dirs
<1>6. SecondLook'
  BY <1>1, <1>3 DEF SecondLook
<1>7. QED
  BY <1>4, <1>5, <1>6 DEF WalkInv

LEMMA WalkFails ==
  ASSUME WalkInv, walk' = [NoWalk EXCEPT !.at = "failed"], UNCHANGED <<tree, stamps>>
  PROVE  WalkInv'
<1>1. walk' = [at |-> "failed", dirs |-> {}, here |-> {}, todo |-> {}, found |-> {}, read |-> {},
                 files |-> << >>, then |-> << >>] /\ {} \in SUBSET Dirs
  BY DEF NoWalk
<1>2. tree' \in [Places -> 0..stamps'] /\ stamps' \in Nat \ {0}
  BY DEF WalkInv, WalkTypes
<1>3. QED
  BY <1>1, <1>2, NoWalkOK

LEMMA InventoryStep ==
  ASSUME WalkInv, [InventoryNext]_treeVars
  PROVE  WalkInv'
<1> USE DEF WalkInv, WalkTypes, WalkShape
<1>0. Dirs' = Dirs /\ StampedFiles' = StampedFiles
  BY DEF Dirs, StampedFiles
<1>1. CASE Changes
  <2>1. tree' \in [Places -> 0..stamps'] /\ stamps' \in Nat \ {0} /\ walk' = walk
    BY <1>1 DEF Changes
  <2>2. \A f \in ReadFiles : f[1] \in Places /\ f[2] # 0 /\ f[2] # stamps + 1
    BY DEF ReadFiles, StampedFiles
  <2>3. \A f \in ReadFiles : tree'[f[1]] = f[2] => tree[f[1]] = f[2]
    BY <1>1, <2>2 DEF Changes
  <2>4. SecondLook'
    <3>1. ReadFiles' = ReadFiles
      BY <2>1 DEF ReadFiles
    <3>2. QED
      BY <2>1, <2>3, <3>1 DEF SecondLook
  <2>5. QED
    BY <1>0, <1>1, <2>1, <2>4 DEF Changes, ReadFiles, StampedFiles, Dirs
<1>2. CASE BeginsWalk
  <2>1. walk' = [at |-> "walking", dirs |-> Dirs, here |-> {}, todo |-> {}, found |-> {}, read |-> {},
                 files |-> << >>, then |-> << >>]
    BY <1>2 DEF BeginsWalk, NoWalk
  <2>2. QED
    BY <1>2, <2>1, NoWalkOK DEF BeginsWalk
<1>3. CASE ListsDirectory
  <2>1. PICK d \in walk.dirs : walk' = [walk EXCEPT !.dirs = @ \ {d}, !.here = {d}, !.todo = In(d)]
    BY <1>3 DEF ListsDirectory
  <2>2. walk'.at = "walking" /\ walk'.files = walk.files /\ walk'.read = walk.read /\ walk'.dirs \subseteq Dirs
        /\ UNCHANGED <<tree, stamps>>
    BY <1>3, <2>1 DEF ListsDirectory, AtRest
  <2>3. WalkShape'
    <3>1. In(d) \subseteq Places
      BY DEF In
    <3>2. QED
      BY <1>0, <2>1, <3>1
  <2>4. ReadFiles' = ReadFiles
    BY <2>2 DEF ReadFiles
  <2>5. SecondLook'
    BY <2>2 DEF SecondLook
  <2>6. QED
    BY <1>0, <2>2, <2>3, <2>4, <2>5
<1>11. CASE LooksAtFile
  <2>1. PICK p \in Met :
       walk' = IF tree[p] # 0
                 THEN [walk EXCEPT !.todo = @ \ {p}, !.found = @ \cup {p}, !.read = {<<p, tree[p]>>}]
                 ELSE [NoWalk EXCEPT !.at = "failed"]
    BY <1>11 DEF LooksAtFile
  <2>2. p \in Places
    BY <2>1 DEF Met, In
  <2>3. CASE tree[p] = 0
    BY <1>11, <2>1, <2>3, WalkFails DEF LooksAtFile
  <2>4. CASE tree[p] # 0
    <3>1. walk' = [walk EXCEPT !.todo = @ \ {p}, !.found = @ \cup {p}, !.read = {<<p, tree[p]>>}]
      BY <2>1, <2>4
    <3>2. tree[p] \in Nat \ {0} /\ tree[p] <= stamps /\ <<p, tree[p]>> \in StampedFiles
      BY <2>2, <2>4 DEF StampedFiles
    <3>3. walk'.at = "walking" /\ walk'.files = walk.files /\ walk'.dirs = walk.dirs
          /\ walk'.read = {<<p, tree[p]>>} /\ UNCHANGED <<tree, stamps>>
      BY <1>11, <3>1 DEF LooksAtFile
    <3>4. WalkShape'
      BY <1>0, <2>2, <3>1, <3>2
    <3>5. ReadFiles' = ReadFiles
      BY <3>3 DEF ReadFiles
    <3>6. SecondLook'
      BY <3>3 DEF SecondLook
    <3>7. QED
      BY <1>0, <3>2, <3>3, <3>4, <3>5, <3>6
  <2>5. QED
    BY <2>3, <2>4
<1>4. CASE ReadsFile
  <2>1. PICK f \in walk.read :
       walk' = IF SameStamp(f)
                 THEN [walk EXCEPT !.read = {}, !.files = Append(@, f)]
                 ELSE [NoWalk EXCEPT !.at = "failed"]
    BY <1>4 DEF ReadsFile
  <2>2. CASE ~SameStamp(f)
    BY <1>4, <2>1, <2>2, WalkFails DEF ReadsFile
  <2>3. CASE SameStamp(f)
    <3>0. walk' = [walk EXCEPT !.read = {}, !.files = Append(@, f)] /\ Append(walk.files, f) \in Seq(StampedFiles)
      BY <2>1, <2>3
    <3>1. walk'.files = Append(walk.files, f) /\ walk'.read = {} /\ walk'.at = "walking"
          /\ walk'.dirs = walk.dirs /\ UNCHANGED <<tree, stamps>>
      BY <1>4, <3>0 DEF ReadsFile
    <3>4. WalkShape'
      BY <1>0, <3>0
    <3>2. \A g \in ReadFiles' : g \in ReadFiles \/ g = f
      BY <3>1 DEF ReadFiles
    <3>3. QED
      BY <1>0, <3>0, <3>1, <3>2, <3>4 DEF SecondLook
  <2>4. QED
    BY <2>2, <2>3
<1>5. CASE EndsWalk
  <2>1. walk' = [walk EXCEPT !.at = "again", !.dirs = Dirs, !.here = {}, !.then = tree] /\ UNCHANGED <<tree, stamps>>
    BY <1>5 DEF EndsWalk
  <2>2. ReadFiles' = ReadFiles /\ WalkShape'
    BY <1>0, <2>1 DEF ReadFiles, WalkSteps
  <2>3. Dirs = {} => ReadFiles = {}
    <3>1. \A f \in ReadFiles : f[1] \in Places
      BY DEF ReadFiles, StampedFiles
    <3>2. \A p \in Places : p[1] \in Dirs
      BY DEF Dirs
    <3>3. QED
      BY <3>1, <3>2
  <2>4. SecondLook'
    BY <2>1, <2>2, <2>3 DEF SecondLook
  <2>5. QED
    BY <1>0, <2>1, <2>2, <2>4
<1>6. CASE ListsAgain
  <2>1. PICK d \in walk.dirs :
       walk' = IF In(d) = {p \in walk.found : p[1] = d}
                 THEN [walk EXCEPT !.dirs = @ \ {d},
                         !.read = IF walk.dirs = {d} THEN ReadFiles ELSE {}]
                 ELSE [NoWalk EXCEPT !.at = "failed"]
    BY <1>6 DEF ListsAgain, ReadFiles
  <2>2. CASE walk' = [NoWalk EXCEPT !.at = "failed"]
    BY <1>6, <2>2, WalkFails DEF ListsAgain
  <2>3. CASE walk' = [walk EXCEPT !.dirs = @ \ {d}, !.read = IF walk.dirs = {d} THEN ReadFiles ELSE {}]
    <3>1. /\ walk'.dirs = walk.dirs \ {d} /\ walk'.read = IF walk.dirs = {d} THEN ReadFiles ELSE {}
          /\ walk'.at = "again" /\ walk'.files = walk.files /\ walk'.then = walk.then
      BY <1>6, <2>3 DEF ListsAgain
    <3>2. ReadFiles \subseteq StampedFiles /\ ReadFiles' = ReadFiles
      BY <3>1 DEF ReadFiles
    <3>3. WalkShape'
      BY <1>0, <2>3, <3>2
    <3>4. UNCHANGED <<tree, stamps>>
      BY <1>6 DEF ListsAgain
    <3>5. SecondLook'
      BY <1>6, <3>1, <3>2, <3>4 DEF SecondLook, ListsAgain
    <3>6. walk'.files \in Seq(StampedFiles) /\ walk'.read \subseteq ReadFiles
      BY <3>1
    <3>7. QED
      BY <1>0, <3>1, <3>2, <3>3, <3>4, <3>5, <3>6
  <2>4. QED
    BY <2>1, <2>2, <2>3
<1>7. CASE LooksAgain
  <2>1. PICK f \in walk.read :
       walk' = IF SameStamp(f) THEN [walk EXCEPT !.read = @ \ {f}] ELSE [NoWalk EXCEPT !.at = "failed"]
    BY <1>7 DEF LooksAgain
  <2>2. CASE ~SameStamp(f)
    BY <1>7, <2>1, <2>2, WalkFails DEF LooksAgain
  <2>3. CASE SameStamp(f)
    <3>1. walk'.read = walk.read \ {f} /\ walk'.at = "again" /\ walk'.files = walk.files /\ walk'.then = walk.then
          /\ walk'.dirs = {} /\ walk.dirs = {} /\ UNCHANGED <<tree, stamps>>
      BY <1>7, <2>1, <2>3 DEF LooksAgain
    <3>2. ReadFiles' = ReadFiles /\ WalkShape'
      BY <1>0, <1>7, <2>1, <2>3, <3>1 DEF ReadFiles
    <3>3. tree[f[1]] = f[2]
      BY <2>3 DEF SameStamp
    <3>4. SecondLook'
      BY <1>7, <3>1, <3>2, <3>3 DEF SecondLook, LooksAgain
    <3>5. QED
      BY <1>0, <3>1, <3>2, <3>4
  <2>4. QED
    BY <2>2, <2>3
<1>8. CASE EndsInventory
  <2>1. walk' = [walk EXCEPT !.at = "made"] /\ UNCHANGED <<tree, stamps>>
        /\ walk.at = "again" /\ walk.dirs = {} /\ walk.read = {}
    BY <1>8 DEF EndsInventory
  <2>2. ReadFiles' = ReadFiles /\ WalkShape'
    BY <1>0, <2>1 DEF ReadFiles, WalkSteps
  <2>3. SecondLook'
    BY <2>1, <2>2 DEF SecondLook
  <2>4. QED
    BY <1>0, <2>1, <2>2, <2>3
<1>9. CASE UNCHANGED treeVars
  BY <1>0, <1>9 DEF treeVars, SecondLook, ReadFiles
<1>10. QED
  BY <1>1, <1>2, <1>3, <1>4, <1>5, <1>6, <1>7, <1>8, <1>9, <1>11 DEF InventoryNext

CustodyInv == RegistryInv /\ WalkInv

LEMMA InitCustodyInv == CustodyInit => CustodyInv
<1> SUFFICES ASSUME CustodyInit PROVE CustodyInv
  OBVIOUS
<1>1. RegistryInv
  BY CustodyAssumption DEF CustodyInit, NoRegistry, RegistryInv, CustodyTypes, TakenEarly, RegistryOK,
     RegistryTypes, RegistrySteps, BothLocks
<1>2. walk = [at |-> "idle", dirs |-> {}, here |-> {}, todo |-> {}, found |-> {}, read |-> {},
                 files |-> << >>, then |-> << >>]
  BY DEF CustodyInit, NoWalk
<1>3. ReadFiles = {} /\ << >> \in Seq(StampedFiles)
  <2>1. walk.files = << >> /\ << >> \in Seq(StampedFiles) /\ Len(<< >>) = 0 /\ 1..0 = {}
    BY <1>2, EmptySeq
  <2>2. QED
    BY <2>1 DEF ReadFiles
<1>4. WalkShape
  <2> DEFINE S == Seq(StampedFiles)
  <2>1. << >> \in S
    BY <1>3
  <2> HIDE DEF S
  <2>2. walk \in [at : WalkSteps, dirs : SUBSET Dirs, here : SUBSET Dirs, todo : SUBSET Places,
                  found : SUBSET Places, read : SUBSET StampedFiles, files : S, then : {walk.then}]
    BY ONLY <1>2, <2>1 DEF WalkSteps
  <2>3. QED
    BY <2>2 DEF S, WalkShape
<1>5. tree \in [Places -> 0..stamps] /\ stamps \in Nat \ {0}
  BY DEF CustodyInit
<1>6. WalkTypes /\ SecondLook
  BY <1>2, <1>3, <1>5 DEF WalkTypes, SecondLook
<1>7. QED
  BY <1>1, <1>4, <1>6 DEF CustodyInv, WalkInv

(* A registry that vouches for a capture has the Gym's lock of it; it has  *)
(* the native lock too, and the capture is as it was attested, unless it   *)
(* took both between two closes of another, the second of which loses it   *)
(* the native one.  The files of an inventory were there together, each  *)
(* as it was read.  For any registries, trees and changes.                 *)
THEOREM CustodyIsSound == CustodySpec => [](AcknowledgedIsHeld /\ InventoryIsOneTree)
<1>1. CustodyInv /\ [CustodyNext]_custodyVars => CustodyInv'
  <2> SUFFICES ASSUME CustodyInv, [CustodyNext]_custodyVars PROVE CustodyInv'
    OBVIOUS
  <2>1. [RegistryNext]_registryVars /\ [InventoryNext]_treeVars
    BY DEF CustodyNext, custodyVars, registryVars, treeVars
  <2>2. QED
    BY <2>1, RegistryStep, InventoryStep DEF CustodyInv
<1>2. CustodyInv => AcknowledgedIsHeld /\ InventoryIsOneTree
  <2> SUFFICES ASSUME CustodyInv PROVE AcknowledgedIsHeld /\ InventoryIsOneTree
    OBVIOUS
  <2>1. AcknowledgedIsHeld
    BY DEF CustodyInv, RegistryInv, RegistryOK, AcknowledgedIsHeld
  <2>2. InventoryIsOneTree
    BY DEF CustodyInv, WalkInv, SecondLook, ReadFiles, InventoryIsOneTree
  <2>3. QED
    BY <2>1, <2>2
<1>3. QED
  BY <1>1, <1>2, InitCustodyInv, PTL DEF CustodySpec

-----------------------------------------------------------------------------
(***************************************************************************)
(* The heartbeat of the recorder.                                          *)
(***************************************************************************)

(* The heartbeat.  What a status says of a boot stays so while it lasts.   *)
ReporterSteps == {"rest", "scanned", "asking", "told", "built", "sending", "taken", "showing"}
Reports == [boot : Nat, drain : Nat, pending : Int, complete : BOOLEAN]
RuntimeStates == [boot : Nat \ {0}, games : {0, 1}, pending : {0, 1}, drain : Nat, quiet : BOOLEAN, drains : Nat]
Statuses == [boot : Nat, games : {0, 1}, drain : Nat, quiet : BOOLEAN]
HealthTypes ==
  /\ runtime \in RuntimeStates
  /\ proof \in [boot : Nat, pending : {0, 1}, age : Int] /\ own \in {0, 1}
  /\ reporter \in [at : ReporterSteps, status : Statuses,
                   report : SUBSET Reports]
  /\ stopping \in BOOLEAN /\ shown \subseteq Reports /\ late \in {0, 1}

\* What was reported of a boot and of a drain, and of one that was complete.  A name
\* that was given to a drain is given to no other.
Said(boot, drain, complete) ==
  /\ boot <= runtime.boot /\ drain <= runtime.drains
  /\ complete => drain # 0
  /\ complete /\ boot = runtime.boot /\ drain = runtime.drain => runtime.quiet /\ runtime.games = 0
ToldOf(it) == [boot |-> it.boot, games |-> it.games, drain |-> it.drain, quiet |-> it.quiet]
StatusComplete(status) == status.drain # 0 /\ status.quiet /\ status.games = 0
SaidOK ==
  /\ runtime.drain <= runtime.drains /\ (runtime.quiet => runtime.drain # 0)
  /\ Said(reporter.status.boot, reporter.status.drain, StatusComplete(reporter.status))
  /\ \A r \in reporter.report \cup shown : Said(r.boot, r.drain, r.complete)
LateOK == late = 1 => stopping /\ reporter.at \notin {"asking", "sending"}
HealthInv == HealthTypes /\ SaidOK /\ LateOK

(* What the runtime does to itself.                                        *)
LEMMA RuntimeSteps ==
  ASSUME HealthTypes, SaidOK, [HealthNext]_healthVars
  PROVE  /\ runtime' \in RuntimeStates /\ runtime'.drain <= runtime'.drains
         /\ runtime'.boot >= runtime.boot /\ runtime'.drains >= runtime.drains
         /\ runtime'.quiet => runtime'.drain # 0
         /\ \A d \in Nat \ {0} :
              d <= runtime.drains /\ d = runtime'.drain /\ runtime'.boot = runtime.boot =>
                d = runtime.drain /\ (runtime.quiet /\ runtime.games = 0 => runtime'.quiet /\ runtime'.games = 0)
<1>0. /\ runtime \in RuntimeStates /\ runtime.drain <= runtime.drains /\ (runtime.quiet => runtime.drain # 0)
      /\ runtime.boot \in Nat /\ runtime.drain \in Nat /\ runtime.drains \in Nat
  BY DEF HealthTypes, SaidOK, RuntimeStates
<1>1. CASE runtime' = runtime
  <2>1. runtime'.boot = runtime.boot /\ runtime'.drains = runtime.drains /\ runtime'.drain = runtime.drain
        /\ (runtime'.quiet <=> runtime.quiet) /\ runtime'.games = runtime.games
    BY <1>1
  <2>2. runtime' \in RuntimeStates /\ runtime'.drain <= runtime'.drains
    BY <1>0, <1>1
  <2>3. runtime'.boot >= runtime.boot /\ runtime'.drains >= runtime.drains
    BY ONLY <1>0, <2>1
  <2>4. runtime'.quiet => runtime'.drain # 0
    BY <1>0, <1>1
  <2>5. QED
    BY ONLY <2>1, <2>2, <2>3, <2>4
<1>2. CASE Drains
  <2>1. /\ runtime' = [runtime EXCEPT !.drain = runtime.drains + 1, !.drains = @ + 1] /\ runtime.drain = 0
    BY <1>2 DEF Drains
  <2>2. runtime'.drain = runtime.drains + 1 /\ runtime'.drains = runtime.drains + 1 /\ runtime'.boot = runtime.boot
        /\ runtime'.quiet = runtime.quiet
    BY <1>0, <2>1 DEF RuntimeStates
  <2>4. runtime' \in RuntimeStates
    <3>1. PICK n \in Nat : n = runtime.drains + 1
      BY <1>0
    <3>2. runtime' = [runtime EXCEPT !.drain = n, !.drains = n]
      BY <2>1, <3>1
    <3>3. QED
      BY <1>0, <3>2 DEF RuntimeStates
  <2>3. QED
    BY <1>0, <2>1, <2>2, <2>4
<1>3. CASE DrainIsAcknowledged \/ Resumes
  <2>1. CASE DrainIsAcknowledged
    <3>1. runtime' = [runtime EXCEPT !.quiet = TRUE] /\ runtime.drain # 0
      BY <2>1 DEF DrainIsAcknowledged
    <3>2. runtime'.drain = runtime.drain /\ runtime'.drains = runtime.drains /\ runtime'.boot = runtime.boot
          /\ runtime'.quiet = TRUE /\ runtime'.games = runtime.games /\ runtime' \in RuntimeStates
      BY <1>0, <3>1 DEF RuntimeStates
    <3>3. QED
      BY <1>0, <3>1, <3>2
  <2>2. CASE Resumes
    <3>1. runtime' = [runtime EXCEPT !.drain = 0, !.quiet = FALSE]
      BY <2>2 DEF Resumes
    <3>2. runtime'.drain = 0 /\ runtime'.drains = runtime.drains /\ runtime'.boot = runtime.boot
          /\ runtime'.quiet = FALSE /\ runtime' \in RuntimeStates
      BY <1>0, <3>1 DEF RuntimeStates
    <3>3. QED
      BY <1>0, <3>2
  <2>3. QED
    BY <1>3, <2>1, <2>2
<1>4. CASE GameStarts \/ GameWrites \/ GameLeaves \/ RowLands
  <2>1. /\ runtime'.drain = runtime.drain /\ runtime'.drains = runtime.drains /\ runtime'.boot = runtime.boot
        /\ (runtime'.quiet <=> runtime.quiet) /\ runtime' \in RuntimeStates
        /\ runtime.quiet /\ runtime.games = 0 => runtime'.games = 0
    BY <1>0, <1>4 DEF GameStarts, GameWrites, GameLeaves, RowLands, RuntimeStates
  <2>2. /\ runtime'.drain <= runtime'.drains /\ runtime'.boot >= runtime.boot /\ runtime'.drains >= runtime.drains
        /\ runtime'.quiet => runtime'.drain # 0
    BY <1>0, <2>1
  <2>3. QED
    BY ONLY <2>1, <2>2
<1>5. CASE Boots
  <2>1. runtime' = [runtime EXCEPT !.boot = @ + 1, !.games = 1, !.pending = 0, !.drain = 0, !.quiet = FALSE]
    BY <1>5 DEF Boots
  <2>2. runtime'.drain = 0 /\ runtime'.drains = runtime.drains /\ runtime'.boot = runtime.boot + 1
        /\ runtime'.quiet = FALSE
    BY <1>0, <2>1 DEF RuntimeStates
  <2>3. runtime' \in RuntimeStates
    <3>1. PICK n \in Nat \ {0} : n = runtime.boot + 1
      BY <1>0
    <3>2. runtime' = [runtime EXCEPT !.boot = n, !.games = 1, !.pending = 0, !.drain = 0, !.quiet = FALSE]
      BY <2>1, <3>1
    <3>3. QED
      BY <1>0, <3>2 DEF RuntimeStates
  <2>4. QED
    BY <1>0, <2>2, <2>3
<1>6. QED
  BY <1>1, <1>2, <1>3, <1>4, <1>5 DEF HealthNext, Runtime, ProofIsMade, Ages, Beat, Scans, Looks, IsTold, Builds,
     IsTaken, Shows, Fails, RequestsStop, OfReporter, healthVars

LEMMA SaidStays ==
  ASSUME HealthTypes, SaidOK, [HealthNext]_healthVars, NEW boot \in Nat, NEW drain \in Nat,
         NEW complete \in BOOLEAN, Said(boot, drain, complete)
  PROVE  Said(boot, drain, complete)'
<1>1. runtime \in RuntimeStates /\ runtime' \in RuntimeStates
  BY RuntimeSteps DEF HealthTypes
<1>2. boot <= runtime'.boot /\ drain <= runtime'.drains
  BY <1>1, RuntimeSteps DEF Said, RuntimeStates
<1>3. ASSUME complete, boot = runtime'.boot, drain = runtime'.drain
      PROVE  runtime'.quiet /\ runtime'.games = 0
  <2>1. boot = runtime.boot /\ drain # 0 /\ drain <= runtime.drains
    BY <1>1, <1>3, RuntimeSteps DEF Said, RuntimeStates
  <2>2. drain = runtime.drain
    BY <1>3, <2>1, RuntimeSteps
  <2>3. QED
    BY <1>3, <2>1, <2>2, RuntimeSteps DEF Said
<1>4. QED
  BY <1>2, <1>3 DEF Said

LEMMA HealthStep ==
  ASSUME HealthInv, [HealthNext]_healthVars
  PROVE  HealthInv'
<1> USE DEF HealthTypes
<1>1. HealthTypes /\ SaidOK /\ LateOK
  BY DEF HealthInv
(* What is told of the native runtime is added to what was told before.    *)
<1>2. ASSUME HealthTypes', LateOK',
             \/ reporter'.status = reporter.status \/ reporter'.status = NoStatus
             \/ reporter'.status = ToldOf(runtime'),
             \A r \in reporter'.report \cup shown' :
               r \in reporter.report \cup shown \/ Said(r.boot, r.drain, r.complete)
      PROVE  HealthInv'
  <2>1. ASSUME NEW r \in reporter'.report \cup shown'
        PROVE  Said(r.boot, r.drain, r.complete)'
    <3>1. r \in Reports /\ Said(r.boot, r.drain, r.complete)
      BY <1>1, <1>2 DEF SaidOK
    <3>2. r.boot \in Nat /\ r.drain \in Nat /\ r.complete \in BOOLEAN
      BY <3>1 DEF Reports
    <3>3. QED
      BY <1>1, <3>1, <3>2, SaidStays
  <2>2. Said(reporter.status.boot, reporter.status.drain, StatusComplete(reporter.status))'
    <3>1. CASE reporter'.status = reporter.status
      <4>1. PICK b \in Nat, d \in Nat, c \in BOOLEAN :
              b = reporter.status.boot /\ d = reporter.status.drain /\ c = StatusComplete(reporter.status)
        BY <1>1 DEF StatusComplete, Statuses
      <4>2. Said(b, d, c)
        BY <1>1, <4>1 DEF SaidOK
      <4>3. Said(b, d, c)'
        BY <1>1, <4>2, SaidStays
      <4>4. StatusComplete(reporter.status)' <=> StatusComplete(reporter.status)
        BY <3>1 DEF StatusComplete
      <4>5. QED
        BY <3>1, <4>1, <4>3, <4>4 DEF Said
    <3>2. CASE reporter'.status = NoStatus
      BY <1>2, <3>2 DEF Said, NoStatus, StatusComplete, RuntimeStates
    <3>3. CASE reporter'.status = ToldOf(runtime')
      <4>1. runtime' \in RuntimeStates /\ runtime'.drain <= runtime'.drains
        BY <1>1, RuntimeSteps
      <4>2. QED
        BY <3>3, <4>1 DEF Said, StatusComplete, ToldOf, RuntimeStates
    <3>4. QED
      BY <1>2, <3>1, <3>2, <3>3
  <2>3. runtime'.drain <= runtime'.drains /\ (runtime'.quiet => runtime'.drain # 0)
    BY <1>1, RuntimeSteps
  <2>4. QED
    BY <1>2, <2>1, <2>2, <2>3 DEF HealthInv, SaidOK
(* A step of the reporter to another place, or to rest.                    *)
<1>14. ASSUME NEW at \in ReporterSteps, reporter' = [reporter EXCEPT !.at = at], OfReporter,
              own' = own, shown' = shown, late' \in {0, 1}, late' = 1 => stopping /\ at \notin {"asking", "sending"}
       PROVE  HealthInv'
  <2>1. reporter' \in [at : ReporterSteps, status : Statuses,
                       report : SUBSET Reports]
    BY <1>1, <1>14
  <2>2. HealthTypes' /\ LateOK'
    BY <1>1, <1>14, <2>1 DEF OfReporter, LateOK, ReporterSteps, Reports
  <2>3. QED
    BY <1>1, <1>2, <1>14, <2>2
<1>15. ASSUME reporter' = Rests, OfReporter, own' = own, shown' \subseteq reporter.report \cup shown, late' \in {0, 1},
              late' = 1 => stopping
       PROVE  HealthInv'
  <2>1. reporter' \in [at : ReporterSteps, status : Statuses,
                       report : SUBSET Reports] /\ reporter'.at = "rest" /\ reporter'.status = NoStatus
        /\ reporter'.report = {}
    BY <1>15 DEF Rests, NoStatus, Statuses, ReporterSteps
  <2>2. HealthTypes' /\ LateOK'
    BY <1>1, <1>15, <2>1 DEF OfReporter, LateOK, ReporterSteps, Reports
  <2>3. QED
    BY <1>1, <1>2, <1>15, <2>1, <2>2
<1>3. CASE Runtime
  <2>1. UNCHANGED <<reporter, stopping, shown, late>>
    BY <1>3 DEF Runtime
  <2>2. runtime' \in RuntimeStates /\ proof' \in [boot : Nat, pending : {0, 1}, age : Int] /\ own' \in {0, 1}
    <3>1. runtime' \in RuntimeStates
      BY <1>1, RuntimeSteps
    <3>2. CASE Drains \/ DrainIsAcknowledged \/ Resumes \/ GameStarts \/ GameWrites \/ GameLeaves \/ Boots
      BY <1>1, <3>1, <3>2 DEF Drains, DrainIsAcknowledged, Resumes, GameStarts, GameWrites, GameLeaves, Boots
    <3>3. CASE RowLands
      BY <1>1, <3>1, <3>3 DEF RowLands
    <3>4. CASE ProofIsMade
      BY <1>1, <3>4 DEF ProofIsMade, RuntimeStates
    <3>5. CASE Ages
      BY <1>1, <3>5 DEF Ages
    <3>6. QED
      BY <1>3, <3>2, <3>3, <3>4, <3>5 DEF Runtime
  <2>3. HealthTypes'
    BY <1>1, <2>1, <2>2 DEF ReporterSteps, Reports
  <2>4. QED
    BY <1>1, <1>2, <2>1, <2>3 DEF LateOK
<1>4. CASE RequestsStop
  BY <1>1, <1>2, <1>4 DEF RequestsStop, LateOK
<1>5. CASE UNCHANGED healthVars
  BY <1>1, <1>2, <1>5 DEF healthVars, LateOK
<1>6. CASE Scans
  BY <1>1, <1>2, <1>6 DEF Scans, AtPoint, Goes, OfReporter, LateOK, ReporterSteps
<1>7. CASE Looks
  <2>1. UNCHANGED <<own, shown, late>> /\ OfReporter /\ (late = 1 => stopping)
    BY <1>1, <1>7 DEF Looks, LateOK
  <2>2. (stopping /\ reporter' = Rests) \/ (~stopping /\ \E at \in ReporterSteps : reporter' = [reporter EXCEPT !.at = at])
    BY <1>7 DEF Looks, LooksForStop, Goes, ReporterSteps
  <2>3. QED
    BY <1>1, <1>14, <1>15, <2>1, <2>2
<1>8. CASE IsTold
  <2>1. reporter' = [reporter EXCEPT !.at = "told", !.status =
                    ToldOf(runtime)]
        /\ OfReporter /\ own' = own /\ shown' = shown
    BY <1>8 DEF IsTold, ToldOf
  <2>2. late' \in {0, 1} /\ (late' = 1 => stopping)
    BY <1>1, <1>8 DEF IsTold, AtPoint, Exchanges, LateOK
  <2>3. reporter' \in [at : ReporterSteps, status : Statuses,
                       report : SUBSET Reports]
    <3>1. ToldOf(runtime) \in Statuses
      BY <1>1 DEF ToldOf, Statuses, RuntimeStates
    <3>2. QED
      BY <1>1, <2>1, <3>1 DEF ReporterSteps
  <2>4. HealthTypes' /\ LateOK'
    BY <1>1, <2>1, <2>2, <2>3 DEF OfReporter, LateOK, ReporterSteps, Reports
  <2>5. QED
    BY <1>1, <1>2, <2>1, <2>4 DEF OfReporter
<1>9. CASE Builds
  <2>1. CASE stopping \/ ~GoodProof
    BY <1>1, <1>2, <1>9, <2>1 DEF Builds, AtPoint, Rests, NoStatus, Statuses, OfReporter, LateOK, ReporterSteps
  <2>2. CASE ~(stopping \/ ~GoodProof)
    <3>1. reporter' = [reporter EXCEPT !.at = "built", !.report = {Report}]
      BY <1>9, <2>2 DEF Builds
    <3>2. Report \in Reports
      BY <1>1 DEF Report, Reports, Statuses
    <3>3. Said(Report.boot, Report.drain, Report.complete)
      BY <1>1, <2>2 DEF Report, GoodProof, SaidOK, Said, StatusComplete
    <3>4. HealthTypes' /\ LateOK'
      <4>1. reporter' \in [at : ReporterSteps, status : Statuses,
                           report : SUBSET Reports] /\ reporter'.at = "built"
        BY <1>1, <3>1, <3>2 DEF ReporterSteps
      <4>2. UNCHANGED <<own, shown, late>> /\ OfReporter /\ ~stopping
        BY <1>9, <2>2 DEF Builds
      <4>3. QED
        BY <1>1, <4>1, <4>2 DEF OfReporter, LateOK, ReporterSteps, Reports
    <3>5. reporter'.report = {Report} /\ reporter'.status = reporter.status /\ shown' = shown
      BY <1>1, <1>9, <3>1 DEF Builds
    <3>6. QED
      BY <1>1, <1>2, <3>3, <3>4, <3>5
  <2>3. QED
    BY <2>1, <2>2
<1>10. CASE IsTaken
  <2>1. late' \in {0, 1} /\ (late' = 1 => stopping)
    BY <1>1, <1>10 DEF IsTaken, AtPoint, Exchanges, LateOK
  <2>2. OfReporter /\ own' = own /\ shown' = shown
        /\ (reporter' = Rests \/ reporter' = [reporter EXCEPT !.at = "taken"]) /\ "taken" \in ReporterSteps
    BY <1>10 DEF IsTaken, Goes, ReporterSteps
  <2>3. QED
    BY <1>14, <1>15, <2>1, <2>2
<1>11. CASE Shows
  BY <1>1, <1>2, <1>11 DEF Shows, AtPoint, Rests, NoStatus, Statuses, OfReporter, LateOK, ReporterSteps
<1>12. CASE Fails
  BY <1>1, <1>2, <1>12 DEF Fails, AtPoint, Rests, NoStatus, Statuses, OfReporter, LateOK, ReporterSteps
<1>13. QED
  BY <1>3, <1>4, <1>5, <1>6, <1>7, <1>8, <1>9, <1>10, <1>11, <1>12 DEF HealthNext, Beat

(* A heartbeat that can be read was taken by the boot it is of; one that   *)
(* says a drain is complete names that drain, and stays true for as long   *)
(* as it lasts: no game is played until it is resumed or another boot      *)
(* begins.  A stop lets at most one more message be exchanged.  For any    *)
(* number of ticks, boots, drains, resumptions and games.                  *)
THEOREM HeartbeatsSound == HealthSpec => []HeartbeatsAreSound
<1>1. HealthInit => HealthInv
  <2> SUFFICES ASSUME HealthInit PROVE HealthInv
    OBVIOUS
  <2>1. HealthTypes
    <3>1. /\ runtime \in RuntimeStates
          /\ proof \in [boot : Nat, pending : {0, 1}, age : Int] /\ own \in {0, 1}
      BY DEF HealthInit, RuntimeStates
    <3>2. reporter \in [at : ReporterSteps, status : Statuses,
                        report : SUBSET Reports]
      BY DEF HealthInit, NoStatus, Statuses, ReporterSteps
    <3>3. stopping \in BOOLEAN /\ shown \subseteq Reports /\ late \in {0, 1}
      BY DEF HealthInit
    <3>4. QED
      BY <3>1, <3>2, <3>3 DEF HealthTypes
  <2>2. SaidOK
    BY DEF HealthInit, SaidOK, Said, NoStatus, StatusComplete
  <2>3. LateOK
    BY DEF HealthInit, LateOK
  <2>4. QED
    BY <2>1, <2>2, <2>3 DEF HealthInv
<1>2. HealthInv => HeartbeatsAreSound
  BY DEF HealthInv, HealthTypes, SaidOK, Said, HeartbeatsAreSound, Disposition
<1>3. QED
  BY <1>1, <1>2, HealthStep, PTL DEF HealthSpec

-----------------------------------------------------------------------------
(***************************************************************************)
(* The qualification of a runtime.                                         *)
(***************************************************************************)

QaSteps == {"none", "drain", "begin", "stop", "halt", "quiet", "select", "start", "commit", "resume", "held"}
QaPhases == {"none", "intent", "selected", "completed", "rolled-back-closed", "operator-review"}
QaIds == {"previous", "candidate"}

QaTypes ==
  /\ qaFiles \in [id : QaIds, sequence : {1, 2}, profile : QaIds] /\ qaPhase \in QaPhases
  /\ qaUsed \in BOOLEAN /\ qaOpened \in BOOLEAN /\ qaInventory \in Nat
  /\ qaContext \subseteq [runtime : QaIds, inventory : Nat]
  /\ qaRun \in [QaUnits -> QaIds \cup {"nothing"}]
  /\ qaNative \in [accepting : BOOLEAN, drained : BOOLEAN, games : {0, 1}, healthy : BOOLEAN]
  /\ qaJob \in [at : QaSteps, back : BOOLEAN, recovery : BOOLEAN, latched : Nat]

(* A transaction is opened for the first time of its authority.            *)
Unopened == qaJob.at \in {"drain", "begin"} => qaPhase = "none" /\ ~qaUsed
(* From the drain to the resumption the server admits nobody.              *)
Shut == qaJob.at \notin {"none", "drain", "held"} => ~qaNative.accepting
(* What may have admitted a game is touched by nobody any more.            *)
Admitted == qaOpened => qaJob.at \in {"none", "held"} /\ QaPossiblyAdmitted
(* Files are changed at rest.                                              *)
QaResting == qaJob.at = "select" => QaDown /\ qaInventory = qaJob.latched
(* What was selected is what is started, looked at and opened.             *)
Started ==
  qaJob.at \in {"start", "commit", "resume"} =>
    /\ qaFiles = [id |-> QaTarget, sequence |-> 2, profile |-> QaTarget]
    /\ qaPhase = IF qaJob.at = "resume" THEN "completed" ELSE "selected"
(* Only a rollback recovers, and what it restored stays the previous.      *)
Recovered ==
  /\ qaJob.recovery => qaJob.back /\ qaJob.at \notin {"drain", "begin", "resume", "held"}
  /\ qaPhase = "rolled-back-closed" =>
       /\ qaFiles = [id |-> "previous", sequence |-> 2, profile |-> "previous"]
       /\ qaJob.at # "none" => qaJob.recovery
QaInv == QaTypes /\ Unopened /\ Shut /\ Admitted /\ QaResting /\ Started /\ Recovered /\ QaServesSelected

-----------------------------------------------------------------------------
(* How a step that fails leaves the job.                                   *)
Ends == qaJob' = NoQaJob
Turns ==
  /\ qaJob' = [qaJob EXCEPT !.at = "stop", !.back = TRUE]
  /\ ~qaJob.recovery /\ ~qaJob.back /\ qaJob.at \notin {"drain", "begin", "resume"}
Holds ==
  /\ qaJob' = [qaJob EXCEPT !.at = "held"]
  /\ ~qaJob.recovery /\ qaJob.at \notin {"drain", "begin"}
Failed == Ends \/ Turns \/ Holds

LEMMA FailsTo ==
  ASSUME NEW ok, QaFails(ok)
  PROVE  Failed
BY DEF QaFails, QaHandled, Failed, Ends, Turns, Holds

LEMMA DoneTo ==
  ASSUME NEW at, QaDone(at)
  PROVE  qaJob' = [qaJob EXCEPT !.at = at] \/ Failed
BY FailsTo DEF QaDone, QaGoes

LEMMA FailsWritingTo ==
  ASSUME NEW ok, NEW fs, QaFailsWriting(ok, fs)
  PROVE  Failed
BY FailsTo DEF QaFailsWriting

LEMMA RecordedTo ==
  ASSUME NEW at, QaRecorded(at)
  PROVE  qaJob' = [qaJob EXCEPT !.at = at] \/ Failed
BY FailsWritingTo DEF QaRecorded, QaGoes

LEMMA FailedTypes ==
  ASSUME QaTypes, Failed
  PROVE  qaJob' \in [at : QaSteps, back : BOOLEAN, recovery : BOOLEAN, latched : Nat]
<1>1. qaJob \in [at : QaSteps, back : BOOLEAN, recovery : BOOLEAN, latched : Nat]
  BY DEF QaTypes
<1>2. CASE Ends
  BY <1>2 DEF Ends, NoQaJob, QaSteps
<1>3. CASE Turns
  BY <1>1, <1>3 DEF Turns, QaSteps
<1>4. CASE Holds
  BY <1>1, <1>4 DEF Holds, QaSteps
<1>5. QED
  BY <1>2, <1>3, <1>4 DEF Failed

(* The fields of a failed job.                                             *)
LEMMA FailedFields ==
  ASSUME QaTypes, Failed
  PROVE  /\ qaJob'.at \in {"none", "stop", "held"} /\ ~qaJob'.recovery
         /\ qaJob.recovery => qaJob'.at = "none"
<1>1. CASE Ends
  BY <1>1 DEF Ends, NoQaJob
<1>2. CASE Turns
  <2>1. qaJob'.at = "stop" /\ qaJob'.recovery = qaJob.recovery /\ ~qaJob.recovery
    BY <1>2 DEF Turns, QaTypes
  <2>2. QED
    BY <2>1
<1>3. CASE Holds
  <2>1. qaJob'.at = "held" /\ qaJob'.recovery = qaJob.recovery /\ ~qaJob.recovery
    BY <1>3 DEF Holds, QaTypes
  <2>2. QED
    BY <2>1
<1>4. QED
  BY <1>1, <1>2, <1>3 DEF Failed

(* A failed step of a controller after which nothing is admitted.          *)
LEMMA FailedKeeps ==
  ASSUME QaInv, Failed, QaTypes', ~qaNative'.accepting, qaJob.at \notin {"none", "held"},
         qaOpened' = qaOpened,
         qaPhase' = "rolled-back-closed" => /\ qaFiles' = [id |-> "previous", sequence |-> 2, profile |-> "previous"]
                                            /\ qaJob'.at = "none"
  PROVE  QaInv'
<1>1. qaJob'.at \in {"none", "stop", "held"} /\ ~qaJob'.recovery
  BY FailedFields DEF QaInv
<1>2. ~qaOpened'
  BY DEF QaInv, Admitted
<1>3. Unopened' /\ Shut' /\ Admitted' /\ QaResting' /\ Started'
  BY <1>1, <1>2 DEF Unopened, Shut, Admitted, QaResting, Started
<1>4. Recovered'
  BY <1>1 DEF Recovered
<1>5. QaServesSelected'
  BY <1>1 DEF QaServesSelected
<1>6. QED
  BY <1>3, <1>4, <1>5 DEF QaInv

(* The job goes on, and admits nobody.                                     *)
QaMovesTo(at) ==
  qaJob' \in {[qaJob EXCEPT !.at = at], [qaJob EXCEPT !.at = at, !.latched = qaInventory]}

LEMMA QaMovesToFields ==
  ASSUME QaTypes, NEW at \in QaSteps, QaMovesTo(at)
  PROVE  /\ qaJob'.at = at /\ qaJob'.back = qaJob.back /\ qaJob'.recovery = qaJob.recovery
         /\ qaJob' \in [at : QaSteps, back : BOOLEAN, recovery : BOOLEAN, latched : Nat]
BY DEF QaTypes, QaMovesTo

LEMMA GoesOnKeeps ==
  ASSUME QaInv, NEW at \in QaSteps, QaMovesTo(at), QaTypes',
         ~qaNative'.accepting, qaJob.at \notin {"none", "held"}, at \notin {"none", "held"}, qaOpened' = qaOpened,
         at = "begin" => qaJob.at = "drain" /\ UNCHANGED <<qaPhase, qaUsed>>,
         at # "drain",
         QaResting',
         at \in {"start", "commit", "resume"} =>
           /\ qaFiles' = [id |-> QaTarget, sequence |-> 2, profile |-> QaTarget]
           /\ qaPhase' = IF at = "resume" THEN "completed" ELSE "selected",
         qaJob.recovery => at \notin {"begin", "resume"},
         qaPhase' = "rolled-back-closed" => UNCHANGED <<qaFiles, qaPhase>>
  PROVE  QaInv'
<1>1. qaJob'.at = at /\ qaJob'.back = qaJob.back /\ qaJob'.recovery = qaJob.recovery
  BY QaMovesToFields DEF QaInv
<1>2. QaTarget' = QaTarget /\ ~qaOpened'
  BY <1>1 DEF QaTarget, QaInv, Admitted
<1>3. Unopened' /\ Shut' /\ Admitted'
  BY <1>1, <1>2 DEF QaInv, Unopened, Shut, Admitted
<1>4. Started'
  BY <1>1, <1>2 DEF Started
<1>5. Recovered'
  BY <1>1 DEF QaInv, Recovered
<1>6. QaServesSelected'
  BY <1>1 DEF QaServesSelected
<1>7. QED
  BY <1>3, <1>4, <1>5, <1>6 DEF QaInv

(* A step before the selection, that leaves phase and files alone.         *)
LEMMA StepKeeps ==
  ASSUME QaInv, NEW at \in {"halt", "quiet", "select"}, QaMovesTo(at) \/ Failed,
         qaJob.at \in {"stop", "halt", "quiet"}, UNCHANGED <<qaFiles, qaPhase, qaUsed, qaOpened, qaInventory>>,
         qaContext' \subseteq [runtime : QaIds, inventory : Nat], ~qaNative'.accepting,
         qaRun' \in [QaUnits -> QaIds \cup {"nothing"}],
         qaNative' \in [accepting : BOOLEAN, drained : BOOLEAN, games : {0, 1}, healthy : BOOLEAN],
         qaJob'.at = "select" => QaDown' /\ qaInventory' = qaJob'.latched
  PROVE  QaInv'
<1>1. QaTypes /\ (qaPhase = "rolled-back-closed" => qaFiles = [id |-> "previous", sequence |-> 2, profile |-> "previous"])
  BY DEF QaInv, Recovered
<1>2. CASE QaMovesTo(at)
  <2>1. QaTypes'
    BY <1>1, <1>2, QaMovesToFields DEF QaTypes, QaSteps
  <2>2. QaResting'
    BY DEF QaResting
  <2>3. QED
    BY <1>2, <2>1, <2>2, GoesOnKeeps DEF QaSteps
<1>3. CASE Failed
  <2>1. QaTypes'
    BY <1>1, <1>3, FailedTypes DEF QaTypes
  <2>2. qaPhase = "rolled-back-closed" => qaJob'.at = "none"
    BY <1>1, <1>3, FailedFields DEF QaInv, Recovered
  <2>3. QED
    BY <1>1, <1>3, <2>1, <2>2, FailedKeeps
<1>4. QED
  BY <1>2, <1>3

LEMMA StopsUnits ==
  ASSUME QaInv, QaStop \/ QaHalt \/ QaQuiet
  PROVE  QaInv'
<1>1. QaTypes /\ ~qaNative.accepting
  BY DEF QaInv, Shut, QaStop, QaHalt, QaQuiet
<1>2. CASE QaStop
  <2>1. UNCHANGED <<qaFiles, qaPhase, qaUsed, qaBank, qaRun, qaNative, qaInventory, qaAttempts, qaExpired, qaOpened>>
        /\ qaJob.at = "stop"
    BY <1>2 DEF QaStop, qaGuest, qaRest
  <2>2. /\ qaContext' \in {qaContext, {[runtime |-> qaFiles.id, inventory |-> qaInventory]}}
        /\ qaJob' = [qaJob EXCEPT !.at = "halt", !.latched = qaInventory] \/ Failed
    BY <1>2, FailsWritingTo DEF QaStop
  <2>3. qaContext' \subseteq [runtime : QaIds, inventory : Nat] /\ (QaMovesTo("halt") \/ Failed)
    BY <1>1, <2>2 DEF QaTypes, QaMovesTo
  <2>4. qaJob'.at # "select"
    BY <1>1, <2>3, QaMovesToFields, FailedFields DEF QaSteps
  <2>5. QED
    BY <1>1, <2>1, <2>3, <2>4, StepKeeps DEF QaTypes
<1>3. CASE QaHalt
  <2>1. UNCHANGED <<qaFiles, qaPhase, qaUsed, qaBank, qaContext, qaTorn, qaInventory, qaAttempts, qaExpired, qaOpened>>
        /\ qaJob.at = "halt"
    BY <1>3 DEF QaHalt, qaDisk, qaRest
  <2>2. PICK stopped \in {{}, {"native"}, QaUnits} :
          /\ qaRun' = QaWithout(stopped)
          /\ qaNative' = IF stopped = {} THEN qaNative ELSE NoServer
          /\ QaMovesTo("quiet") \/ Failed
    BY <1>3, FailsTo, DoneTo DEF QaHalt, QaMovesTo
  <2>3. qaRun' \in [QaUnits -> QaIds \cup {"nothing"}]
    BY <1>1, <2>2 DEF QaTypes, QaWithout
  <2>4. qaNative' \in [accepting : BOOLEAN, drained : BOOLEAN, games : {0, 1}, healthy : BOOLEAN] /\ ~qaNative'.accepting
    BY <1>1, <2>2 DEF QaTypes, NoServer, ClosedServer
  <2>5. qaJob'.at # "select"
    BY <1>1, <2>2, QaMovesToFields, FailedFields DEF QaSteps
  <2>6. QED
    BY <1>1, <2>1, <2>2, <2>3, <2>4, <2>5, StepKeeps DEF QaTypes
<1>4. CASE QaQuiet
  <2>1. UNCHANGED <<qaFiles, qaPhase, qaUsed, qaBank, qaContext, qaRun, qaNative, qaInventory, qaAttempts, qaExpired, qaOpened>>
        /\ qaJob.at = "quiet"
    BY <1>4 DEF QaQuiet, qaGuest, qaRest
  <2>2. (QaDown /\ qaInventory = qaJob.latched /\ qaJob' = [qaJob EXCEPT !.at = "select"]) \/ Failed
    BY <1>4, FailsWritingTo, DoneTo DEF QaQuiet
  <2>3. qaJob' = [qaJob EXCEPT !.at = "select"] => QaMovesTo("select") /\ qaJob'.latched = qaJob.latched
    BY <1>1 DEF QaMovesTo, QaTypes
  <2>4. qaJob'.at = "select" => QaDown' /\ qaInventory' = qaJob'.latched
    BY <1>1, <2>1, <2>2, <2>3, FailedFields DEF QaDown
  <2>5. QED
    BY <1>1, <2>1, <2>2, <2>3, <2>4, StepKeeps DEF QaTypes
<1>5. QED
  BY <1>2, <1>3, <1>4

LEMMA Begins ==
  ASSUME QaInv, QaPromoteStarts \/ QaDrain \/ QaBegin
  PROVE  QaInv'
<1>1. QaTypes
  BY DEF QaInv
<1>2. CASE QaPromoteStarts
  <2>1. UNCHANGED <<qaFiles, qaPhase, qaUsed, qaBank, qaContext, qaTorn, qaRun, qaNative, qaInventory, qaExpired, qaOpened>>
    BY <1>2 DEF QaPromoteStarts, qaDisk, qaGuest
  <2>2. qaJob'.at = "drain" /\ ~qaJob'.recovery
        /\ qaJob' \in [at : QaSteps, back : BOOLEAN, recovery : BOOLEAN, latched : Nat]
    BY <1>2 DEF QaPromoteStarts, NoQaJob, QaSteps
  <2>3. qaPhase = "none" /\ ~qaUsed /\ ~qaOpened
    BY <1>2 DEF QaPromoteStarts, QaInv, Admitted, QaPossiblyAdmitted
  <2>4. QaTypes'
    BY <1>1, <2>1, <2>2 DEF QaTypes
  <2>5. Unopened' /\ Shut' /\ Admitted' /\ QaResting' /\ Started' /\ Recovered'
    BY <2>1, <2>2, <2>3 DEF Unopened, Shut, Admitted, QaResting, Started, Recovered
  <2>6. QaServesSelected'
    BY <2>1, <2>2, <2>3 DEF QaInv, QaServesSelected
  <2>7. QED
    BY <2>4, <2>5, <2>6 DEF QaInv
<1>3. CASE QaDrain
  <2>1. UNCHANGED <<qaFiles, qaPhase, qaUsed, qaBank, qaContext, qaRun, qaInventory, qaAttempts, qaExpired, qaOpened>>
        /\ qaJob.at = "drain"
    BY <1>3 DEF QaDrain, qaRest
  <2>2. qaPhase = "none" /\ ~qaUsed
    BY <2>1 DEF QaInv, Unopened
  <2>3. \/ /\ \E drained \in BOOLEAN : qaNative' = [qaNative EXCEPT !.accepting = FALSE, !.drained = drained]
           /\ QaMovesTo("begin") \/ Failed
        \/ qaNative' = qaNative /\ Failed
    BY <1>3, FailsTo, RecordedTo, FailsWritingTo DEF QaDrain, QaMovesTo
  <2>4. qaNative' \in [accepting : BOOLEAN, drained : BOOLEAN, games : {0, 1}, healthy : BOOLEAN]
        /\ (qaNative'.accepting => qaNative.accepting)
    BY <1>1, <2>3 DEF QaTypes
  <2>5. CASE QaMovesTo("begin") /\ ~qaNative'.accepting
    <3>1. QaTypes'
      BY <1>1, <2>1, <2>4, <2>5, QaMovesToFields DEF QaTypes, QaSteps
    <3>2. QaResting'
      BY <1>1, <2>5, QaMovesToFields DEF QaResting, QaSteps
    <3>3. qaJob.recovery = FALSE
      BY <1>1, <2>1 DEF QaInv, Recovered, QaTypes
    <3>4. QED
      BY <2>1, <2>2, <2>5, <3>1, <3>2, <3>3, GoesOnKeeps DEF QaSteps
  <2>6. CASE Failed
    <3>1. QaTypes'
      BY <1>1, <2>1, <2>4, <2>6, FailedTypes DEF QaTypes
    <3>2. Ends
      BY <2>1, <2>6 DEF Failed, Turns, Holds
    <3>3. qaJob'.at = "none" /\ ~qaJob'.recovery
      BY <3>2 DEF Ends, NoQaJob
    <3>4. Unopened' /\ Shut' /\ Admitted' /\ QaResting' /\ Started' /\ Recovered'
      BY <2>1, <2>2, <3>3 DEF QaInv, Unopened, Shut, Admitted, QaResting, Started, Recovered
    <3>5. QaServesSelected'
      BY <2>1, <2>2, <2>4, <3>3 DEF QaInv, QaServesSelected
    <3>6. QED
      BY <3>1, <3>4, <3>5 DEF QaInv
  <2>7. QED
    BY <1>1, <2>3, <2>5, <2>6 DEF QaTypes
<1>4. CASE QaBegin
  <2>1. UNCHANGED <<qaFiles, qaContext, qaRun, qaNative, qaInventory, qaAttempts, qaExpired, qaOpened>>
        /\ qaJob.at = "begin" /\ ~qaNative.accepting
    BY <1>4 DEF QaBegin, qaGuest, qaRest, QaInv, Shut
  <2>2. qaUsed' \in BOOLEAN /\ qaPhase' \in {"intent", "none"} /\ (QaMovesTo("stop") \/ Failed)
    <3>1. qaPhase = "none"
      BY <2>1 DEF QaInv, Unopened
    <3>2. PICK k \in 0..3 :
            /\ qaUsed' = (k >= 1) /\ qaPhase' = IF k = 3 THEN "intent" ELSE qaPhase
            /\ IF k = 3 THEN QaRecorded("stop")
               ELSE QaFailsWriting(~qaExpired, {<<"used", "bank", "transaction">>[k + 1]})
      BY <1>4 DEF QaBegin
    <3>3. QaMovesTo("stop") \/ Failed
      BY <3>2, RecordedTo, FailsWritingTo DEF QaMovesTo
    <3>4. qaUsed' \in BOOLEAN
      <4>1. (k >= 1) \in BOOLEAN
        OBVIOUS
      <4>2. QED
        BY <3>2, <4>1, Zenon
    <3>5. QED
      BY <3>1, <3>2, <3>3, <3>4
  <2>3. CASE QaMovesTo("stop")
    <3>1. QaTypes'
      BY <1>1, <2>1, <2>2, <2>3, QaMovesToFields DEF QaTypes, QaSteps, QaPhases
    <3>2. QaResting'
      BY <1>1, <2>3, QaMovesToFields DEF QaResting, QaSteps
    <3>3. QED
      BY <2>1, <2>2, <2>3, <3>1, <3>2, GoesOnKeeps DEF QaSteps
  <2>4. CASE Failed
    <3>1. QaTypes'
      BY <1>1, <2>1, <2>2, <2>4, FailedTypes DEF QaTypes, QaPhases
    <3>2. QED
      BY <2>1, <2>2, <2>4, <3>1, FailedKeeps
  <2>5. QED
    BY <2>2, <2>3, <2>4
<1>5. QED
  BY <1>2, <1>3, <1>4

LEMMA SelectsFiles ==
  ASSUME QaInv, QaSelect
  PROVE  QaInv'
<1>1. QaTypes /\ qaJob.at = "select" /\ ~qaNative.accepting /\ UNCHANGED <<qaUsed, qaBank, qaContext, qaRun, qaNative, qaInventory, qaOpened>>
  BY DEF QaInv, QaSelect, qaGuest, qaRest, Shut
<1>2. PICK k \in 0..3 :
       /\ qaFiles' = [id |-> IF k >= 2 THEN QaTarget ELSE qaFiles.id,
                      sequence |-> IF k >= 2 THEN 2 ELSE qaFiles.sequence,
                      profile |-> IF k >= 1 THEN QaTarget ELSE qaFiles.profile]
       /\ qaPhase' = IF k = 3 THEN "selected" ELSE qaPhase
       /\ (k = 3 /\ QaMovesTo("start")) \/ Failed
  BY DoneTo, FailsWritingTo DEF QaSelect, QaMovesTo
<1>3. QaTarget \in QaIds /\ (qaJob.back => QaTarget = "previous")
  BY DEF QaTarget, QaIds
<1>4. qaFiles' \in [id : QaIds, sequence : {1, 2}, profile : QaIds] /\ qaPhase' \in QaPhases
  BY <1>1, <1>2, <1>3 DEF QaTypes, QaPhases
<1>5. CASE k = 3 /\ QaMovesTo("start")
  <2>1. QaTypes'
    BY <1>1, <1>4, <1>5, QaMovesToFields DEF QaTypes, QaSteps
  <2>2. qaFiles' = [id |-> QaTarget, sequence |-> 2, profile |-> QaTarget] /\ qaPhase' = "selected"
    BY <1>2, <1>5
  <2>3. QaResting'
    BY <1>1, <1>5, QaMovesToFields DEF QaResting, QaSteps
  <2>4. QED
    BY <1>1, <1>5, <2>1, <2>2, <2>3, GoesOnKeeps DEF QaSteps
<1>6. CASE Failed
  <2>1. QaTypes'
    BY <1>1, <1>4, <1>6, FailedTypes DEF QaTypes
  <2>2. ASSUME qaPhase' = "rolled-back-closed"
        PROVE  qaFiles' = [id |-> "previous", sequence |-> 2, profile |-> "previous"] /\ qaJob'.at = "none"
    <3>1. qaPhase = "rolled-back-closed"
      BY <1>2, <2>2
    <3>2. qaFiles = [id |-> "previous", sequence |-> 2, profile |-> "previous"] /\ qaJob.recovery /\ qaJob.back
      BY <1>1, <3>1 DEF QaInv, Recovered
    <3>3. QED
      BY <1>1, <1>2, <1>3, <1>6, <3>2, FailedFields
  <2>3. QED
    BY <1>1, <1>6, <2>1, <2>2, FailedKeeps
<1>7. QED
  BY <1>2, <1>5, <1>6

LEMMA StartsCommits ==
  ASSUME QaInv, QaStart \/ QaCommit
  PROVE  QaInv'
<1>1. QaTypes
  BY DEF QaInv
<1>2. CASE QaStart
  <2>1. /\ UNCHANGED <<qaFiles, qaPhase, qaUsed, qaBank, qaContext, qaInventory, qaOpened>>
        /\ qaJob.at = "start" /\ ~qaNative.accepting
        /\ qaFiles = [id |-> QaTarget, sequence |-> 2, profile |-> QaTarget] /\ qaPhase = "selected"
    BY <1>2 DEF QaInv, QaStart, qaRest, Shut, Started
  <2>2. PICK started \in {{}, {"recorder"}, QaUnits} :
       /\ qaRun' = [u \in QaUnits |-> IF u \in started THEN qaFiles.profile ELSE qaRun[u]]
       /\ IF started = QaUnits
          THEN \E drained, healthy \in BOOLEAN :
                 qaNative' = [ClosedServer EXCEPT !.drained = drained, !.healthy = healthy]
          ELSE qaNative' = qaNative
       /\ QaMovesTo("commit") \/ Failed
    BY <1>2, DoneTo, FailsWritingTo DEF QaStart, QaMovesTo
  <2>3. qaRun' \in [QaUnits -> QaIds \cup {"nothing"}]
    BY <1>1, <2>2 DEF QaTypes
  <2>4. qaNative' \in [accepting : BOOLEAN, drained : BOOLEAN, games : {0, 1}, healthy : BOOLEAN] /\ ~qaNative'.accepting
    BY <1>1, <2>1, <2>2 DEF QaTypes, ClosedServer
  <2>5. CASE QaMovesTo("commit")
    <3>1. QaTypes'
      BY <1>1, <2>1, <2>3, <2>4, <2>5, QaMovesToFields DEF QaTypes, QaSteps
    <3>2. QaResting'
      BY <1>1, <2>5, QaMovesToFields DEF QaResting, QaSteps
    <3>3. QED
      BY <2>1, <2>4, <2>5, <3>1, <3>2, GoesOnKeeps DEF QaSteps
  <2>6. CASE Failed
    <3>1. QaTypes'
      BY <1>1, <2>1, <2>3, <2>4, <2>6, FailedTypes DEF QaTypes
    <3>2. QED
      BY <2>1, <2>4, <2>6, <3>1, FailedKeeps
  <2>7. QED
    BY <2>2, <2>5, <2>6
<1>3. CASE QaCommit
  <2>1. /\ UNCHANGED <<qaFiles, qaUsed, qaBank, qaContext, qaRun, qaNative, qaInventory, qaOpened>>
        /\ qaJob.at = "commit" /\ ~qaNative.accepting
        /\ qaFiles = [id |-> QaTarget, sequence |-> 2, profile |-> QaTarget] /\ qaPhase = "selected"
    BY <1>3 DEF QaInv, QaCommit, qaGuest, qaRest, Shut, Started
  <2>2. \/ qaPhase' = "rolled-back-closed" /\ qaJob.recovery /\ Ends
        \/ qaPhase' = "completed" /\ ~qaJob.recovery /\ (QaMovesTo("resume") \/ Failed)
        \/ qaPhase' = qaPhase /\ Failed
    BY <1>3, RecordedTo, FailsWritingTo DEF QaCommit, Ends, QaMovesTo
  <2>3. CASE QaMovesTo("resume") /\ qaPhase' = "completed" /\ ~qaJob.recovery
    <3>1. QaTypes'
      BY <1>1, <2>1, <2>3, QaMovesToFields DEF QaTypes, QaSteps, QaPhases
    <3>2. QaResting'
      BY <1>1, <2>3, QaMovesToFields DEF QaResting, QaSteps
    <3>3. QED
      BY <2>1, <2>3, <3>1, <3>2, GoesOnKeeps DEF QaSteps
  <2>4. CASE Failed /\ qaPhase' \in {"completed", "selected"}
    <3>1. QaTypes'
      BY <1>1, <2>1, <2>4, FailedTypes DEF QaTypes, QaPhases
    <3>2. QED
      BY <2>1, <2>4, <3>1, FailedKeeps
  <2>5. CASE Ends /\ qaPhase' = "rolled-back-closed" /\ qaJob.recovery
    <3>1. QaTypes' /\ Failed
      BY <1>1, <2>1, <2>5, FailedTypes DEF QaTypes, QaPhases, Failed
    <3>2. qaFiles' = [id |-> "previous", sequence |-> 2, profile |-> "previous"]
      BY <2>1, <2>5 DEF QaInv, Recovered, QaTarget
    <3>3. qaJob'.at = "none"
      BY <2>5 DEF Ends, NoQaJob
    <3>4. QED
      BY <2>1, <3>1, <3>2, <3>3, FailedKeeps
  <2>6. QED
    BY <2>1, <2>2, <2>3, <2>4, <2>5
<1>4. QED
  BY <1>2, <1>3

LEMMA QaResumes ==
  ASSUME QaInv, QaResume \/ QaHeld \/ QaRecoverStarts
  PROVE  QaInv'
<1>1. QaTypes
  BY DEF QaInv
<1>2. CASE QaResume
  <2>1. /\ UNCHANGED <<qaFiles, qaPhase, qaUsed, qaBank, qaContext, qaRun, qaInventory>>
        /\ qaJob.at = "resume" /\ ~qaNative.accepting /\ ~qaOpened /\ ~qaJob.recovery
        /\ qaFiles = [id |-> QaTarget, sequence |-> 2, profile |-> QaTarget] /\ qaPhase = "completed"
    BY <1>2 DEF QaInv, QaResume, Shut, Started, Admitted, Recovered
  <2>2. \/ /\ qaRun["native"] = QaTarget /\ qaOpened' = TRUE
           /\ qaNative' = [qaNative EXCEPT !.accepting = TRUE, !.drained = FALSE]
        \/ qaNative' = qaNative /\ qaOpened' = qaOpened
    BY <1>2 DEF QaResume
  <2>3. Failed
    BY <1>2, FailsTo, FailsWritingTo DEF QaResume, Failed, Ends
  <2>4. qaNative' \in [accepting : BOOLEAN, drained : BOOLEAN, games : {0, 1}, healthy : BOOLEAN] /\ qaOpened' \in BOOLEAN
    BY <1>1, <2>1, <2>2 DEF QaTypes
  <2>5. QaTypes'
    BY <1>1, <2>1, <2>3, <2>4, FailedTypes DEF QaTypes
  <2>6. qaJob'.at \in {"none", "held"} /\ ~qaJob'.recovery
    BY <1>1, <2>1, <2>3, FailedFields DEF Failed, Turns, Ends, Holds, NoQaJob, QaTypes
  <2>7. Unopened' /\ Shut' /\ Admitted' /\ QaResting' /\ Started' /\ Recovered'
    BY <2>1, <2>6 DEF Unopened, Shut, Admitted, QaPossiblyAdmitted, QaResting, Started, Recovered
  <2>8. QaServesSelected'
    BY <2>1, <2>2 DEF QaServesSelected
  <2>9. QED
    BY <2>5, <2>7, <2>8 DEF QaInv
<1>3. CASE QaHeld
  <2>1. /\ UNCHANGED <<qaFiles, qaUsed, qaBank, qaContext, qaRun, qaNative, qaInventory, qaOpened>>
        /\ qaJob.at = "held" /\ Ends /\ qaPhase' \in {qaPhase, "operator-review"} /\ ~qaJob.recovery
    BY <1>3 DEF QaInv, QaHeld, qaGuest, qaRest, Ends, Recovered
  <2>2. QaTypes'
    BY <1>1, <2>1, FailedTypes DEF QaTypes, QaPhases, Failed
  <2>3. qaJob'.at = "none" /\ ~qaJob'.recovery /\ qaPhase # "rolled-back-closed"
    BY <2>1 DEF Ends, NoQaJob, QaInv, Recovered
  <2>4. Unopened' /\ Shut' /\ Admitted' /\ QaResting' /\ Started' /\ Recovered'
    BY <2>1, <2>3 DEF QaInv, Unopened, Shut, Admitted, QaPossiblyAdmitted, QaResting, Started, Recovered
  <2>5. QaServesSelected'
    BY <2>1, <2>3 DEF QaInv, QaServesSelected
  <2>6. QED
    BY <2>2, <2>4, <2>5 DEF QaInv
<1>4. CASE QaRecoverStarts
  <2>1. /\ UNCHANGED <<qaFiles, qaPhase, qaUsed, qaBank, qaContext, qaRun, qaNative, qaInventory, qaOpened>>
        /\ qaPhase # "none" /\ ~QaPossiblyAdmitted
    BY <1>4 DEF QaRecoverStarts, QaHost, qaDisk, qaGuest
  <2>2. /\ qaJob' \in [at : {"quiet", "stop"}, back : BOOLEAN, recovery : BOOLEAN, latched : Nat]
        /\ qaJob'.back /\ qaJob'.recovery
    <3>1. CASE qaJob' = [NoQaJob EXCEPT !.at = "stop", !.back = TRUE, !.recovery = TRUE]
      BY <3>1 DEF NoQaJob
    <3>2. CASE \E c \in qaContext :
                 qaJob' = [at |-> "quiet", back |-> TRUE, recovery |-> TRUE, latched |-> c.inventory]
      BY <1>1, <3>2 DEF QaTypes
    <3>3. QED
      BY <1>4, <3>1, <3>2 DEF QaRecoverStarts
  <2>3. QaTypes'
    BY <1>1, <2>1, <2>2 DEF QaTypes, QaSteps
  <2>4. ~qaNative.accepting /\ ~qaOpened
    BY <2>1 DEF QaInv, QaServesSelected, Admitted, QaPossiblyAdmitted
  <2>5. qaJob'.at \in {"quiet", "stop"}
    BY <2>2
  <2>6. Unopened' /\ Shut' /\ Admitted' /\ QaResting' /\ Started' /\ Recovered'
    BY <2>1, <2>2, <2>4, <2>5 DEF QaInv, Unopened, Shut, Admitted, QaResting, Started, Recovered
  <2>7. QaServesSelected'
    BY <2>1, <2>4, <2>5 DEF QaInv, QaServesSelected
  <2>8. QED
    BY <2>3, <2>6, <2>7 DEF QaInv
<1>5. QED
  BY <1>2, <1>3, <1>4

LEMMA GuestSteps ==
  ASSUME QaInv, QaGameStarts \/ QaGameEnds \/ QaLateWrite \/ QaUnitsFail \/ QaExpires \/ UNCHANGED qaVars
  PROVE  QaInv'
<1>1. QaTypes
  BY DEF QaInv
<1>2. UNCHANGED <<qaFiles, qaPhase, qaUsed, qaBank, qaContext, qaTorn, qaJob, qaOpened>>
  BY DEF QaGameStarts, QaGameEnds, QaLateWrite, QaUnitsFail, QaExpires, QaGuestStep, qaVars, qaDisk, qaRest
<1>3. \/ qaInventory' = qaInventory + 1 /\ qaRun' = qaRun /\ ~(QaDown /\ ~qaNative.accepting)
      \/ qaInventory' = qaInventory
  BY DEF QaGameStarts, QaGameEnds, QaLateWrite, QaUnitsFail, QaExpires, qaVars, qaGuest
<1>4. /\ qaNative' \in [accepting : BOOLEAN, drained : BOOLEAN, games : {0, 1}, healthy : BOOLEAN]
      /\ qaNative'.accepting => qaNative.accepting /\ qaRun'["native"] = qaRun["native"]
      /\ qaRun' \in [QaUnits -> QaIds \cup {"nothing"}]
      /\ QaDown => QaDown'
  <2>1. CASE QaGameStarts
    BY <1>1, <2>1 DEF QaTypes, QaGameStarts, QaDown
  <2>2. CASE QaGameEnds
    BY <1>1, <2>2 DEF QaTypes, QaGameEnds, QaDown
  <2>3. CASE QaLateWrite \/ QaExpires \/ UNCHANGED qaVars
    BY <1>1, <2>3 DEF QaTypes, QaLateWrite, QaExpires, qaVars, qaGuest, QaDown
  <2>4. CASE QaUnitsFail
    <3>1. PICK gone \in {{"native"}, {"recorder"}, QaUnits} :
            /\ qaRun' = QaWithout(gone)
            /\ qaNative' = IF "native" \in gone THEN NoServer ELSE [qaNative EXCEPT !.healthy = FALSE]
      BY <2>4 DEF QaUnitsFail
    <3>2. qaNative' \in [accepting : BOOLEAN, drained : BOOLEAN, games : {0, 1}, healthy : BOOLEAN]
          /\ (qaNative'.accepting => qaNative.accepting /\ "native" \notin gone)
      BY <1>1, <3>1 DEF QaTypes, NoServer, ClosedServer
    <3>3. QED
      BY <1>1, <3>1, <3>2 DEF QaTypes, QaWithout, QaDown, QaUnits
  <2>5. QED
    BY <2>1, <2>2, <2>3, <2>4
<1>5. QaTypes'
  BY <1>1, <1>2, <1>3, <1>4 DEF QaTypes
<1>6. Unopened' /\ Shut' /\ Admitted' /\ Started' /\ Recovered'
  BY <1>2, <1>4 DEF QaInv, Unopened, Shut, Admitted, QaPossiblyAdmitted, Started, QaTarget, Recovered
<1>7. QaResting'
  BY <1>2, <1>3, <1>4 DEF QaInv, QaResting, Shut
<1>8. QaServesSelected'
  BY <1>2, <1>4 DEF QaInv, QaServesSelected
<1>9. QED
  BY <1>5, <1>6, <1>7, <1>8 DEF QaInv

LEMMA QaInvStep ==
  ASSUME QaInv, [QaNext]_qaVars
  PROVE  QaInv'
BY Begins, StopsUnits, SelectsFiles, StartsCommits, QaResumes, GuestSteps DEF QaNext

LEMMA InitQaInv == QaInit => QaInv
<1> SUFFICES ASSUME QaInit PROVE QaInv
  OBVIOUS
<1>1. QaTypes
  BY DEF QaInit, QaTypes, QaIds, QaPhases, QaSteps, NoQaJob, ClosedServer
<1>2. qaJob.at = "none" /\ ~qaJob.recovery /\ qaPhase = "none" /\ ~qaOpened
      /\ qaFiles.id = "previous" /\ qaFiles.profile = "previous" /\ qaRun["native"] = "previous"
  BY DEF QaInit, NoQaJob, QaUnits
<1>3. Unopened /\ Shut /\ Admitted /\ QaResting /\ Started /\ Recovered /\ QaServesSelected
  BY <1>2 DEF Unopened, Shut, Admitted, QaResting, Started, Recovered, QaServesSelected
<1>4. QED
  BY <1>1, <1>3 DEF QaInv

(* Files are changed at rest, and one authority opens one transaction.     *)
LEMMA FilesAtRest ==
  ASSUME QaInv, [QaNext]_qaVars
  PROVE  /\ qaFiles' # qaFiles => QaDown /\ ~qaOpened /\ qaInventory = qaJob.latched
         /\ qaPhase = "intent" \/ qaPhase' # "intent" \/ (qaPhase = "none" /\ ~qaUsed /\ qaUsed')
<1>1. qaFiles' # qaFiles => QaSelect
  BY DEF QaNext, qaVars, qaDisk, QaPromoteStarts, QaDrain, QaBegin, QaStop, QaHalt, QaQuiet, QaStart, QaCommit,
     QaResume, QaHeld, QaRecoverStarts, QaGameStarts, QaGameEnds, QaLateWrite, QaUnitsFail, QaExpires, QaGuestStep
<1>2. QaSelect => QaDown /\ ~qaOpened /\ qaInventory = qaJob.latched
  BY DEF QaSelect, QaInv, QaResting, Admitted
<1>3. qaPhase' = qaPhase \/ qaPhase' # "intent" \/ QaBegin
  BY DEF QaNext, qaVars, qaDisk, QaPromoteStarts, QaDrain, QaSelect, QaStop, QaHalt, QaQuiet, QaStart, QaCommit,
     QaResume, QaHeld, QaRecoverStarts, QaGameStarts, QaGameEnds, QaLateWrite, QaUnitsFail, QaExpires, QaGuestStep
<1>4. QaBegin => qaPhase = "none" /\ ~qaUsed /\ (qaPhase' = "intent" => qaUsed')
  <2> SUFFICES ASSUME QaBegin PROVE qaPhase = "none" /\ ~qaUsed /\ (qaPhase' = "intent" => qaUsed')
    OBVIOUS
  <2>1. qaPhase = "none" /\ ~qaUsed
    BY DEF QaBegin, QaInv, Unopened
  <2>2. PICK k \in 0..3 : qaUsed' = (k >= 1) /\ qaPhase' = IF k = 3 THEN "intent" ELSE qaPhase
    BY DEF QaBegin
  <2>3. CASE k = 3
    <3>1. k >= 1
      BY <2>3
    <3>2. QED
      BY <2>1, <2>2, <3>1, Zenon
  <2>4. CASE k # 3
    BY <2>1, <2>2, <2>4
  <2>5. QED
    BY <2>3, <2>4
<1>5. QED
  BY <1>1, <1>2, <1>3, <1>4

(* Games are admitted by the selected runtime only, and its files change   *)
(* at rest only and never after a game can have been admitted: for any     *)
(* number of attempts, errors, crashes and late writes.                    *)
THEOREM QaIsSound == QaSpec => []QaServesSelected /\ QaKeepsAdmitted
<1>1. QaInv => QaServesSelected
  BY DEF QaInv
<1>2. QaInv /\ [QaNext]_qaVars =>
        [/\ qaFiles' # qaFiles => QaDown /\ ~qaOpened /\ qaInventory = qaJob.latched
         /\ qaPhase = "intent" \/ qaPhase' # "intent" \/ (qaPhase = "none" /\ ~qaUsed /\ qaUsed')]_qaVars
  BY FilesAtRest
<1>3. QED
  BY <1>1, <1>2, InitQaInv, QaInvStep, PTL DEF QaSpec, QaKeepsAdmitted

-----------------------------------------------------------------------------
(***************************************************************************)
(* The stores together.                                                    *)
(***************************************************************************)

(* Each of them has its own variables, and a step of another leaves them   *)
(* alone: what holds of each by itself holds of all together.              *)
LEMMA EachByItself ==
  MCSpec => /\ StoreSpec /\ LibrarySpec /\ ImprovementSpec
            /\ CustodySpec /\ HealthSpec /\ QaSpec
<1>1. MCInit => Init /\ LibraryInit /\ ImprovementInit /\ CustodyInit /\ HealthInit /\ QaInit
  BY DEF MCInit
<1>2. [MCNext]_<<vars, libraryVars, improvementVars, custodyVars, healthVars, qaVars>>
        => /\ [Next]_vars /\ [LibraryNext]_libraryVars /\ [ImprovementNext]_improvementVars
           /\ [CustodyNext]_custodyVars /\ [HealthNext]_healthVars /\ [QaNext]_qaVars
  BY DEF MCNext
<1>3. QED
  BY <1>1, <1>2, PTL DEF MCSpec, StoreSpec, LibrarySpec, ImprovementSpec, CustodySpec, HealthSpec, QaSpec

(* What a custodian says of the recordings is so, and the runtime that is  *)
(* qualified is the one selected, with its files changed at rest only: for *)
(* any registries, trees, ticks, boots, attempts, crashes and errors.      *)
THEOREM CustodyIsKept == MCSpec => CustodyHolds
BY EachByItself, CustodyIsSound, HeartbeatsSound, QaIsSound, PTL DEF CustodyHolds
=============================================================================
