------------------------------ MODULE CardLibrary ------------------------------
(***************************************************************************)
(* The card library on disk (catalog_loader.py, catalog_refresh.py,        *)
(* catalog_access.py, engine_coverage.py): loaders, run again and again    *)
(* by a schedule, turn what the provider publishes into immutable          *)
(* snapshots under one lock and point current.json at the newest; readers  *)
(* page through the snapshot they pinned while it is replaced; operators   *)
(* publish which of its cards an engine has.  A loader may die at any      *)
(* step, its disk may refuse, and the host may lose power: what was        *)
(* written to a directory but not synchronized is then there or not.       *)
(*                                                                         *)
(* A snapshot is named by the digest of its sources and the schema.        *)
(***************************************************************************)
EXTENDS CardSnapshot

CONSTANTS
  Loaders,      \* loader processes
  Readers,      \* sessions of the catalog's clients
  Queries,      \* [sort, minimum, name, covered]: what readers search for
  Exports,      \* registry exports: sets of names
  Libraries,    \* [revisions, loaders, readers]: what the provider serves in turn, and who runs
  MaxStops,     \* bound on dying loaders and power losses
  MaxRefusals   \* bound on refusals of the disk and of the provider

\* A behaviour serves revisions of the feed, to loaders and readers that there are.
ASSUME CardLibraryAssumption ==
  /\ MaxStops \in Nat /\ MaxRefusals \in Nat /\ DOMAIN Feed = 1..Len(Feed) /\ None \notin Loaders
  /\ \A l \in Libraries :
       /\ l.revisions \in Seq(DOMAIN Feed) /\ l.revisions # << >>
       /\ l.loaders \subseteq Loaders /\ l.readers \subseteq Readers

VARIABLES
  library,      \* the member of Libraries of this behaviour
  feed,         \* the place of the revision the provider serves (external)
  loader,       \* loader -> [at, want]
  holder,       \* the loader that has .catalog-import.lock, or None
  files,        \* entries of snapshots/: [snap, part, of]
  synced,       \* those that are on disk for good
  current,      \* current.json: a snapshot or None
  currentSynced,
  coverage,     \* engine-coverage/: [snap, names]
  session,      \* reader -> [snap, query, cursor] with what it has read: [of, cards, done]
  stops, refusals

disks == <<files, synced, current, currentSynced, coverage>>
libraryVars == <<library, feed, loader, holder, disks, session, stops, refusals>>

Snap(r) == Feed[r].bytes
\* The contents of a snapshot are those of any revision with its bytes.
Content(s) == Loaded[CHOOSE r \in DOMAIN Feed : Snap(r) = s]
Entry(r, part) == [snap |-> Snap(r), part |-> part, of |-> r]
Has(dir, s, part) == \E e \in dir : e.snap = s /\ e.part = part

Resting == [at |-> "idle", want |-> None]
NoSession == [snap |-> None, query |-> None, cursor |-> None, of |-> None, cards |-> << >>, done |-> FALSE]

LibraryInit ==
  /\ library \in Libraries
  /\ feed = 1 /\ loader = [p \in Loaders |-> Resting] /\ holder = None
  /\ files = {} /\ current = None
  /\ synced = files /\ currentSynced = current
  /\ coverage = {} /\ session = [c \in Readers |-> NoSession]
  /\ stops = 0 /\ refusals = 0

Served == library.revisions[feed]
Announce ==
  /\ feed < Len(library.revisions) /\ feed' = feed + 1
  /\ UNCHANGED <<library, loader, holder, disks, session, stops, refusals>>

-----------------------------------------------------------------------------
(* A loader: check, lock, check again, compare, download, load, publish.   *)

GoesTo(p, at) == loader' = [loader EXCEPT ![p].at = at]
Free(p) == loader' = [loader EXCEPT ![p] = Resting] /\ holder' = IF holder = p THEN None ELSE holder

\* check_layout: snapshots that nothing points at are for an operator to look at.
LayoutOk == current # None \/ files = {}

Start(p) ==
  /\ loader[p].at = "idle" /\ LayoutOk
  /\ GoesTo(p, "checked")
  /\ UNCHANGED <<library, feed, holder, disks, session, stops, refusals>>

\* The lock is not waited for; the layout is looked at again under it.
Lock(p) ==
  /\ loader[p].at = "checked"
  /\ IF holder = None /\ LayoutOk
     THEN holder' = p /\ GoesTo(p, "locked")
     ELSE Free(p)
  /\ UNCHANGED <<library, feed, disks, session, stops, refusals>>

\* _current_sources: the pointer must name a snapshot with both of its files.
CurrentReads == current # None => Has(files, current, "db") /\ Has(files, current, "meta")
\* _changed: another URL, or size, of any data set.
Changed(r) == current = None \/ [snap |-> current, part |-> "meta", of |-> r] \notin files

\* The loader's own command does not compare; a refresh does.
Compare(p) ==
  /\ loader[p].at = "locked"
  /\ \E refreshes \in BOOLEAN :
       IF refreshes /\ ~(CurrentReads /\ Changed(Served)) THEN Free(p)
       ELSE loader' = [loader EXCEPT ![p] = [at |-> "wanted", want |-> Served]] /\ UNCHANGED holder
  /\ UNCHANGED <<library, feed, disks, session, stops, refusals>>

\* Three downloads by stamped URLs, checked by size; then the load, in staging/.
Prepare(p) ==
  /\ loader[p].at = "wanted"
  /\ LET r == loader[p].want IN
     IF (\E part \in {"db", "meta"} : Has(files, Snap(r), part)) \/ ~Loads(r)
     THEN Free(p)
     ELSE GoesTo(p, "staged") /\ UNCHANGED holder
  /\ UNCHANGED <<library, feed, disks, session, stops, refusals>>

Link(p, from, part, to) ==
  /\ loader[p].at = from
  /\ files' = files \cup {Entry(loader[p].want, part)} /\ GoesTo(p, to)
  /\ UNCHANGED <<library, feed, holder, synced, current, currentSynced, coverage, session, stops, refusals>>
LinkDatabase(p) == Link(p, "staged", "db", "db")
LinkMetadata(p) == Link(p, "db", "meta", "linked")

\* Variant: the directory is left to the system.
NotSynced(p) ==
  /\ loader[p].at = "linked" /\ GoesTo(p, "synced")
  /\ UNCHANGED <<library, feed, holder, disks, session, stops, refusals>>
SyncSnapshots(p) ==
  /\ loader[p].at = "linked" /\ synced' = files /\ GoesTo(p, "synced")
  /\ UNCHANGED <<library, feed, holder, files, current, currentSynced, coverage, session, stops, refusals>>

Replace(p) ==
  /\ loader[p].at = "synced" /\ current' = Snap(loader[p].want) /\ GoesTo(p, "replaced")
  /\ UNCHANGED <<library, feed, holder, files, synced, currentSynced, coverage, session, stops, refusals>>

SyncPointer(p) ==
  /\ loader[p].at = "replaced" /\ currentSynced' = current /\ Free(p)
  /\ UNCHANGED <<library, feed, files, synced, current, coverage, session, stops, refusals>>

Load(p) ==
  \/ Start(p) \/ Lock(p) \/ Compare(p) \/ Prepare(p)
  \/ LinkDatabase(p) \/ LinkMetadata(p) \/ SyncSnapshots(p) \/ Replace(p) \/ SyncPointer(p)

\* What this publication linked is taken back.
Undoes(p) == files' = files \ {Entry(loader[p].want, part) : part \in {"db", "meta"}}

\* The provider or the disk refuses a step.  A synchronization that fails after the
\* pointer was replaced is reported, and nothing is taken back.
Refuse(p) ==
  /\ refusals < MaxRefusals /\ refusals' = refusals + 1
  /\ loader[p].at \in {"locked", "wanted", "staged", "db", "linked", "synced", "replaced"}
  /\ IF loader[p].at \in {"db", "linked", "synced"} THEN Undoes(p) ELSE UNCHANGED files
  /\ Free(p)
  /\ UNCHANGED <<library, feed, synced, current, currentSynced, coverage, session, stops>>

Die(p) ==
  /\ stops < MaxStops /\ stops' = stops + 1
  /\ loader[p].at # "idle" /\ Free(p)
  /\ UNCHANGED <<library, feed, disks, session, refusals>>

\* Each entry that was not synchronized is there afterwards or is not.
PowerLoss ==
  /\ library.loaders # {} /\ stops < MaxStops /\ stops' = stops + 1
  /\ \E kept \in SUBSET ((files \ synced) \cup (synced \ files)) :
       files' = (files \cap synced) \cup kept
  /\ synced' = files' /\ current' \in {current, currentSynced} /\ currentSynced' = current'
  /\ coverage' \in SUBSET coverage
  /\ loader' = [p \in Loaders |-> Resting] /\ holder' = None
  /\ UNCHANGED <<library, feed, session, refusals>>

-----------------------------------------------------------------------------
(* Readers, and the engine's registry.                                     *)

Covered(c) == session[c].query.covered

\* catalog_status: the current snapshot; later calls name it.  A reader may do so in
\* the middle of a search and go on with the cursor it has.
Status(c) ==
  /\ current # None /\ Has(files, current, "db")
  /\ session' = [session EXCEPT ![c].snap = current]
  /\ session' # session
  /\ UNCHANGED <<library, feed, loader, holder, disks, stops, refusals>>

\* A search may be among the cards of one coverage artifact.
Ask(c) ==
  /\ session[c].snap # None /\ session[c].query = None
  /\ \E q \in Queries, e \in coverage \cup {None} :
       /\ q.covered <=> e # None
       /\ session' = [session EXCEPT ![c].query = [q EXCEPT !.covered = e]]
  /\ UNCHANGED <<library, feed, loader, holder, disks, stops, refusals>>

\* load_evidence: the artifact is there and of this very snapshot.
EvidenceLoads(c) == Covered(c) = None \/ (Covered(c) \in coverage /\ Covered(c).snap = session[c].snap)
Allowed(c) ==
  LET db == Content(session[c].snap) IN
  IF Covered(c) = None THEN DOMAIN db.cards ELSE Present(db, Covered(c).names)

\* _cursor_decode: a cursor is of one snapshot and one query.
CursorFits(c) ==
  session[c].cursor # None =>
    session[c].cursor.snap = session[c].snap /\ session[c].cursor.query = session[c].query

\* A page, of any size.  A refusal ends the search.
Search(c) ==
  /\ session[c].query # None /\ ~session[c].done
  /\ LET s == session[c]
         at == IF s.cursor = None THEN None ELSE s.cursor.at
     IN  IF ~(Has(files, s.snap, "db") /\ EvidenceLoads(c) /\ CursorFits(c))
         THEN session' = [session EXCEPT ![c] = [NoSession EXCEPT !.snap = s.snap]]
         ELSE \E limit \in 1..2 :
              LET page == Page(Content(s.snap), Allowed(c), s.query, limit, at) IN
              session' = [session EXCEPT ![c].cards = @ \o page.cards,
                            ![c].of = IF s.cursor = None THEN s.snap ELSE @,
                            ![c].done = page.next = None,
                            ![c].cursor = IF page.next = None THEN None
                              ELSE [snap |-> s.snap, query |-> s.query, at |-> page.next]]
  /\ UNCHANGED <<library, feed, loader, holder, disks, stops, refusals>>

Close(c) ==
  /\ session[c].done /\ session' = [session EXCEPT ![c] = [NoSession EXCEPT !.snap = session[c].snap]]
  /\ UNCHANGED <<library, feed, loader, holder, disks, stops, refusals>>

Read(c) == Status(c) \/ Ask(c) \/ Search(c) \/ Close(c)

\* publish_evidence: a flushed file is linked under its digest.
Publish ==
  /\ library.readers # {}
  /\ \E names \in Exports :
       /\ current # None /\ Has(files, current, "db")
       /\ coverage' = coverage \cup {[snap |-> current, names |-> names]}
  /\ coverage' # coverage
  /\ UNCHANGED <<library, feed, loader, holder, files, synced, current, currentSynced, session, stops, refusals>>

LibraryNext ==
  \/ Announce \/ PowerLoss \/ Publish
  \/ \E p \in library.loaders : Load(p) \/ Refuse(p) \/ Die(p)
  \/ \E c \in library.readers : Read(c)

LibrarySpec == LibraryInit /\ [][LibraryNext]_libraryVars

-----------------------------------------------------------------------------
(* Properties. *)

\* Whatever dies, is refused or loses power, and whenever: the selected snapshot has
\* both of its files, of one publication, and a snapshot a reader has pinned stays.
SelectedIsKept ==
  /\ current # None => \E r \in DOMAIN Feed :
       Snap(r) = current /\ {Entry(r, "db"), Entry(r, "meta")} \subseteq files
  /\ \A c \in Readers : session[c].snap # None => Has(files, session[c].snap, "db")

\* The card of an identity, from the rows themselves: that of its best printing.
BestRow(rows, oid) ==
  CHOOSE row \in Range(rows) :
    /\ \E card \in CardData(row) : card.oid = oid
    /\ \A other \in Range(rows) :
         (\E card \in CardData(other) : card.oid = oid) => ~Before(Rank(other), Rank(row))
CardsOf(rows) ==
  UNION {{card \in CardData(row) : row = BestRow(rows, card.oid)} : row \in Range(rows)}
Looked(c) == CHOOSE r \in DOMAIN Feed : Snap(r) = session[c].of
Wanted(c) ==
  LET s == session[c]
      db == Content(s.of)
  IN  {card \in CardsOf(Feed[Looked(c)].rows) :
        /\ Selects(db, s.query, card)
        /\ Covered(c) # None => Presence(db, Covered(c).names, card.oid) = "present"}

\* The pages of a search, of whatever sizes, together list each card it is for once and
\* in order, all from one snapshot, although others are published, lost and undone
\* between them; and the card of an identity is its best printing, in whatever order
\* the provider listed them.
PagesAreWhole ==
  \A c \in Readers : LET s == session[c] IN s.of # None =>
    /\ \A i, j \in DOMAIN s.cards : i < j => SortsBefore(s.query.sort, s.cards[i], s.cards[j])
    /\ Range(s.cards) \subseteq Wanted(c)
    /\ \A card \in Wanted(c) \ Range(s.cards) :
         ~s.done /\ SortsBefore(s.query.sort, s.cards[Len(s.cards)], card)

\* No name of an engine's registry makes two cards present, nor one card by a name
\* that is another's.
CoverageIsUnambiguous ==
  \A e \in coverage : LET db == Content(e.snap) IN
    \A k \in Present(db, e.names) : \A n \in FoundBy(db, e.names, k) :
      /\ Holders(db, n) \subseteq {k}
      /\ \A l \in Present(db, e.names) \ {k} : n \notin FoundBy(db, e.names, l)

\* What readers are told is whole and unambiguous.
ReadersAreServed == PagesAreWhole /\ CoverageIsUnambiguous
=============================================================================
