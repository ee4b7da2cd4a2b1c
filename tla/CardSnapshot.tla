------------------------------ MODULE CardSnapshot ------------------------------
(***************************************************************************)
(* What a card catalog snapshot holds and answers: the load of the three   *)
(* public data sets (catalog_loader.py), the paged search of an immutable  *)
(* snapshot (card_catalog.py), and the join of an engine's registry export *)
(* with the snapshot's cards (engine_coverage.py).  No state.              *)
(*                                                                         *)
(* A name is the tuple of its parts: <<1>> is a card or a face, <<1, 3>>   *)
(* the card whose two faces are <<1>> and <<3>>.                           *)
(***************************************************************************)
EXTENDS Integers, Sequences, FiniteSets, FiniteSetsExt, SequencesExt, Functions, TLC

CONSTANTS
  Feed,         \* revision -> [bytes, rows, rulings, tags]: what the provider publishes
  None          \* null

-----------------------------------------------------------------------------
(* One row of default_cards.                                               *)

Before(a, b) ==                              \* lexicographic
  \E i \in 1..Len(b) :
    /\ \A j \in 1..(i - 1) : j <= Len(a) /\ a[j] = b[j]
    /\ i > Len(a) \/ a[i] < b[i]

\* English first, then paper, then the newest, then the least id.
Rank(row) == <<IF row.en THEN 0 ELSE 1, IF row.digital THEN 1 ELSE 0, -row.day, row.id>>

Reversible(row) == row.layout = "reversible"
Plain(row) == [oid |-> row.oid, name |-> row.name, edhrec |-> row.edhrec,
               printing |-> row.id, layout |-> row.layout]
FaceCard(row, i) == [Plain(row) EXCEPT !.oid = row.faces[i].oid, !.name = row.faces[i].name,
                                       !.edhrec = row.faces[i].edhrec]
\* Faces may share an identity; the first stands for it.
FirstFaces(row) ==
  {i \in DOMAIN row.faces : \A j \in 1..(i - 1) : row.faces[j].oid # row.faces[i].oid}
CardData(row) ==
  IF Reversible(row) THEN {FaceCard(row, i) : i \in FirstFaces(row)} ELSE {Plain(row)}
FaceData(row) ==
  [i \in DOMAIN row.faces |->
    [name |-> row.faces[i].name, oid |-> IF Reversible(row) THEN row.faces[i].oid ELSE None]]

-----------------------------------------------------------------------------
(* The load.  A table is a function on oracle ids.                         *)

NoRows == << >>
Empty == [cards |-> NoRows, faces |-> NoRows, ranks |-> NoRows, printings |-> {}, ok |-> TRUE]

Put(table, key, value) == (key :> value) @@ table

\* The better printing replaces the card, and its faces those that were there.
AddCard(db, row, card) ==
  IF card.oid \notin DOMAIN db.ranks \/ Before(Rank(row), db.ranks[card.oid])
  THEN [db EXCEPT !.cards = Put(@, card.oid, card), !.ranks = Put(@, card.oid, Rank(row)),
                  !.faces = Put(@, card.oid, FaceData(row))]
  ELSE db

AddRow(db, row) ==
  IF row.id \in db.printings THEN [db EXCEPT !.ok = FALSE]
  ELSE FoldSet(LAMBDA card, acc : AddCard(acc, row, card),
               [db EXCEPT !.printings = @ \cup {row.id}], CardData(row))

Loaded == FoldLeft(LAMBDA dbs, revision : Append(dbs, FoldLeft(AddRow, Empty, revision.rows)), << >>, Feed)

\* Rulings and tags are of cards that were loaded; no data set is empty.
Loads(r) ==
  /\ Loaded[r].ok /\ Feed[r].rows # << >> /\ Feed[r].rulings # {} /\ Feed[r].tags # {}
  /\ Feed[r].rulings \cup UNION {t.members : t \in Feed[r].tags} \subseteq DOMAIN Loaded[r].cards

-----------------------------------------------------------------------------
(* Search: a page at a time, from where the cursor says.                   *)

NameKey(card) == Append(card.name, 0) \o <<card.oid>>
Unranked(card) == card.edhrec = None
\* ORDER BY: a rank sort puts the unranked last.
SortsBefore(sort, a, b) ==
  IF sort = "name" THEN Before(NameKey(a), NameKey(b))
  ELSE \/ ~Unranked(a) /\ Unranked(b)
       \/ ~Unranked(a) /\ ~Unranked(b) /\ a.edhrec < b.edhrec
       \/ a.edhrec = b.edhrec /\ Before(NameKey(a), NameKey(b))

\* Variant: a ranked cursor goes on among the ranked.
AfterRanked(sort, at, card) ==
  CASE sort = "name" -> Before(NameKey(at), NameKey(card))
    [] sort # "name" /\ Unranked(at) -> Unranked(card) /\ Before(NameKey(at), NameKey(card))
    [] OTHER ->
         /\ ~Unranked(card)
         /\ \/ card.edhrec > at.edhrec
            \/ card.edhrec = at.edhrec /\ Before(NameKey(at), NameKey(card))
\* The WHERE clause of a cursor.
After(sort, at, card) ==
  CASE sort = "name" -> Before(NameKey(at), NameKey(card))
    [] sort # "name" /\ Unranked(at) -> Unranked(card) /\ Before(NameKey(at), NameKey(card))
    [] OTHER ->
         \/ Unranked(card)
         \/ ~Unranked(card) /\ card.edhrec > at.edhrec
         \/ card.edhrec = at.edhrec /\ Before(NameKey(at), NameKey(card))

\* Its own faces, not those of the other card on a reversible one.
OwnFaces(db, oid) == {i \in DOMAIN db.faces[oid] : db.faces[oid][i].oid \in {None, oid}}
OwnNames(db, oid) == {db.faces[oid][i].name : i \in OwnFaces(db, oid)}

\* WHERE: the rank filter leaves out the unranked, the name is the card's or a face's.
Selects(db, query, card) ==
  /\ query.minimum # None => ~Unranked(card) /\ card.edhrec >= query.minimum
  /\ query.name # None => query.name \in {card.name} \cup OwnNames(db, card.oid)

FirstOf(cards, sort, n) ==
  LET sorted == SetToSortSeq(cards, LAMBDA a, b : SortsBefore(sort, a, b))
  IN  SubSeq(sorted, 1, IF n < Len(sorted) THEN n ELSE Len(sorted))

\* LIMIT limit + 1: the extra row says whether there is more.
Page(db, allowed, query, limit, at) ==
  LET found == {c \in Range(db.cards) : /\ c.oid \in allowed /\ Selects(db, query, c)
                                        /\ at # None => After(query.sort, at, c)}
      rows == FirstOf(found, query.sort, limit + 1)
  IN  IF Len(rows) > limit
      THEN [cards |-> SubSeq(rows, 1, limit), next |-> rows[limit]]
      ELSE [cards |-> rows, next |-> None]

-----------------------------------------------------------------------------
(* Engine coverage: which cards a registry export names.                   *)

Holders(db, name) == {k \in DOMAIN db.cards : db.cards[k].name = name}
\* A front face stands for a card only by an explicit layout of two faces of its own.
HasFront(db, k) ==
  LET f == db.faces[k] IN
  /\ db.cards[k].layout \in {"transform", "modal_dfc"} /\ Len(f) = 2
  /\ OwnFaces(db, k) = 1..2 /\ db.cards[k].name = f[1].name \o f[2].name
Fronts(db, name) == {k \in DOMAIN db.cards : HasFront(db, k) /\ db.faces[k][1].name = name}

Presence(db, names, k) ==
  LET name == db.cards[k].name
      fronts == {n \in OwnNames(db, k) \cap names : k \in Fronts(db, n)}
  IN  CASE name \in names -> IF Holders(db, name) = {k} THEN "present" ELSE "unknown"
        [] name \notin names /\ fronts # {} ->
             IF \E n \in fronts : Holders(db, n) = {} /\ Fronts(db, n) = {k}
             THEN "present" ELSE "unknown"
        [] OTHER -> IF OwnNames(db, k) \cap names # {} THEN "unknown" ELSE "absent"

Present(db, names) == {k \in DOMAIN db.cards : Presence(db, names, k) = "present"}
\* The names by which a present card is found.
FoundBy(db, names, k) ==
  IF db.cards[k].name \in names THEN {db.cards[k].name}
  ELSE {n \in OwnNames(db, k) \cap names : k \in Fronts(db, n)}
=============================================================================
