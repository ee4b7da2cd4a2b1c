------------------------ MODULE NativeCapture_proofs ------------------------
(***************************************************************************)
(* Proofs about NativeCapture for any number of games and callbacks, any   *)
(* storage limit, and any number of faults and restarts.                   *)
(***************************************************************************)
EXTENDS NativeCapture, FiniteSetTheorems, SequenceTheorems, TLAPS

(***************************************************************************)
(* The inductive invariant.  Of the disk: a journal holds the engine's     *)
(* rows so far, each of them, and is sealed and published in that order.   *)
(***************************************************************************)
Closed(src) == src # <<>> /\ src[Len(src)] \in ClosingKinds

Imported(s, src) ==
  /\ NativeCount(s) <= Len(src)
  /\ \A i \in SourceRows(s, "native") :
       Ordinal(s, i) <= Len(src) /\ s[i].native = src[Ordinal(s, i)]
  /\ \A n \in 1..NativeCount(s) : HasNative(s, src[n])

Whole(s, src) == Closed(src) /\ NativeCount(s) = Len(src)

Finished(s, src) ==
  /\ Sealed(s) /\ HasNative(s, "terminal")
  /\ \A c \in Callbacks : Has(s, "started", c) => Has(s, "finished", c)

DiskOK(s, src, exists, whole, published) ==
  /\ ~exists => s = <<>>
  /\ NothingAfterTerminalIn(s)
  /\ Imported(s, src)
  /\ Sealed(s) => Whole(s, src)
  /\ whole => Finished(s, src)
  /\ published => Sealed(s)

(* Of the process: a living scanner's cursor is what is durable, a journal *)
(* that did not fail knows all its rows, and a finalizer works on a whole  *)
(* journal whose choices had their grace.                                  *)
CursorOK(m, s, scanner) == scanner /\ m.cursor # 0 => m.cursor = NativeCount(s)

MemOK(m, s, src, published) ==
  /\ m.held /\ ~m.failed => m.knows = Len(s)
  /\ m.finalizer # "none" => m.held /\ Whole(s, src)
  /\ m.finalizer = "publish" => Sealed(s)
  /\ m.finalizer = "done" => published
  /\ m.finalizer \in {"raw", "seal"} /\ ~m.failed => Pending(s) = {} \/ m.grace = "passed"

VerifiedOK(m, published) == published /\ ~m.held /\ m.finalizer = "none"

GameInv(g) ==
  /\ DiskOK(rows[g], source[g], created[g], complete[g], manifest[g])
  /\ CursorOK(mem[g], rows[g], proc.scanner)
  /\ MemOK(mem[g], rows[g], source[g], manifest[g])
  /\ g \in proc.verified => VerifiedOK(mem[g], manifest[g])

CaptureInv ==
  /\ TypeOK
  /\ proc.at > 0 => proc.scanner
  /\ ~proc.up => proc.scanner /\ mem = [g \in Games |-> FreshMem]
  /\ \A g \in Games : GameInv(g)

-----------------------------------------------------------------------------
(***************************************************************************)
(* What rows mean after more of them are appended.                         *)
(***************************************************************************)
Grows(s, t) ==
  /\ s \in Seq(Row) /\ t \in Seq(Row) /\ Len(s) <= Len(t)
  /\ \A i \in 1..Len(s) : t[i] = s[i]

AppendsFirst(s, w, k, t) == t = s \o SubSeq(w, 1, k)

LEMMA Growth ==
  ASSUME NEW s \in Seq(Row), NEW w \in Seq(Row), NEW k \in 0..Len(w), NEW t,
         AppendsFirst(s, w, k, t)
  PROVE  /\ Grows(s, t) /\ Len(t) = Len(s) + k
         /\ \A i \in (Len(s) + 1)..Len(t) : i - Len(s) \in 1..k /\ t[i] = w[i - Len(s)]
<1> DEFINE u == SubSeq(w, 1, k)
<1>1. u \in Seq(Row) /\ Len(u) = k /\ \A j \in 1..k : u[j] = w[j]
  OBVIOUS
<1>2. t = s \o u
  BY DEF AppendsFirst
<1> HIDE DEF u
<1>3. /\ t \in Seq(Row) /\ Len(t) = Len(s) + k /\ Len(s) \in Nat /\ k \in Nat
      /\ \A i \in 1..(Len(s) + k) : t[i] = IF i <= Len(s) THEN s[i] ELSE u[i - Len(s)]
  <2>1. /\ s \o u \in Seq(Row) /\ Len(s \o u) = Len(s) + Len(u)
        /\ \A i \in 1..(Len(s) + Len(u)) :
             (s \o u)[i] = IF i <= Len(s) THEN s[i] ELSE u[i - Len(s)]
    BY <1>1, ConcatProperties
  <2>2. Len(s) \in Nat /\ k \in Nat
    OBVIOUS
  <2>3. QED
    BY <1>1, <1>2, <2>1, <2>2
<1>4. \A i \in 1..Len(s) : t[i] = s[i]
  BY <1>3
<1>5. ASSUME NEW i \in (Len(s) + 1)..Len(t)
      PROVE  i - Len(s) \in 1..k /\ t[i] = w[i - Len(s)]
  BY <1>1, <1>3
<1>6. QED
  BY <1>3, <1>4, <1>5 DEF Grows

LEMMA NativesAreFinite ==
  ASSUME NEW s \in Seq(Row), NEW i
  PROVE  /\ IsFiniteSet(SourceRows(s, "native")) /\ NativeCount(s) \in Nat
         /\ IsFiniteSet({j \in SourceRows(s, "native") : j <= i}) /\ Ordinal(s, i) \in Nat
<1>1. IsFiniteSet(1..Len(s))
  BY FS_Interval
<1>2. SourceRows(s, "native") \subseteq 1..Len(s)
  BY DEF SourceRows
<1>3. {j \in SourceRows(s, "native") : j <= i} \subseteq 1..Len(s)
  BY <1>2
<1>4. QED
  BY <1>1, <1>2, <1>3, FS_Subset, FS_CardinalityType DEF NativeCount, SourceCount, Ordinal

(* How many numbers an interval has, next to those of a set below it.      *)
LEMMA CountAbove ==
  ASSUME NEW S \in SUBSET Nat, IsFiniteSet(S), NEW a \in Nat, NEW b \in Nat, a <= b,
         \A j \in S : j <= a
  PROVE  Cardinality(S \cup ((a + 1)..b)) = Cardinality(S) + (b - a)
<1>1. IsFiniteSet((a + 1)..b) /\ Cardinality((a + 1)..b) = b - a
  <2>1. a + 1 \in Int /\ b \in Int
    OBVIOUS
  <2>2. /\ IsFiniteSet((a + 1)..b)
        /\ Cardinality((a + 1)..b) = IF a + 1 > b THEN 0 ELSE b - (a + 1) + 1
    BY ONLY <2>1, FS_Interval
  <2>3. QED
    BY <2>2
<1>2. S \cap ((a + 1)..b) = {}
  OBVIOUS
<1>3. Cardinality(S \cap ((a + 1)..b)) = 0
  BY <1>2, FS_EmptySet
<1>4. Cardinality(S) \in Nat
  BY FS_CardinalityType
<1>5. Cardinality(S \cup ((a + 1)..b)) =
        Cardinality(S) + Cardinality((a + 1)..b) - Cardinality(S \cap ((a + 1)..b))
  BY <1>1, FS_Union
<1>6. QED
  BY <1>1, <1>3, <1>4, <1>5

(* Rows of which those after the a-th, and no other new ones, come from    *)
(* the engine: they are counted on from where the journal was.             *)
LEMMA AppendedNatives ==
  ASSUME NEW s, NEW t, Grows(s, t), NEW a \in Len(s)..Len(t),
         \A i \in (Len(s) + 1)..a : SourceOf(t[i]) # "native",
         \A i \in (a + 1)..Len(t) : SourceOf(t[i]) = "native"
  PROVE  /\ SourceRows(t, "native") = SourceRows(s, "native") \cup ((a + 1)..Len(t))
         /\ NativeCount(t) = NativeCount(s) + (Len(t) - a)
         /\ \A i \in SourceRows(s, "native") : Ordinal(t, i) = Ordinal(s, i)
         /\ \A i \in (a + 1)..Len(t) : Ordinal(t, i) = NativeCount(s) + (i - a)
<1> DEFINE S == SourceRows(s, "native")
<1>0. s \in Seq(Row) /\ t \in Seq(Row) /\ Len(s) \in Nat /\ Len(t) \in Nat /\ a \in Nat
  BY DEF Grows
<1>1. SourceRows(t, "native") = S \cup ((a + 1)..Len(t))
  <2>1. DOMAIN s = 1..Len(s) /\ DOMAIN t = 1..Len(t)
    BY <1>0
  <2>2. ASSUME NEW i \in 1..Len(t)
        PROVE  SourceOf(t[i]) = "native" <=> i \in S \/ i \in (a + 1)..Len(t)
    <3>1. CASE i <= Len(s)
      BY <1>0, <2>1, <3>1 DEF Grows, SourceRows
    <3>2. CASE ~(i <= Len(s))
      BY <1>0, <2>1, <3>2 DEF SourceRows
    <3>3. QED
      BY <3>1, <3>2
  <2>3. S \subseteq 1..Len(t) /\ (a + 1)..Len(t) \subseteq 1..Len(t)
    BY <1>0, <2>1 DEF SourceRows
  <2>4. SourceRows(t, "native") = {i \in 1..Len(t) : SourceOf(t[i]) = "native"}
    BY <2>1 DEF SourceRows
  <2>5. QED
    BY <2>2, <2>3, <2>4
<1>2. /\ S \in SUBSET Nat /\ IsFiniteSet(S)
      /\ \A j \in S : j <= Len(s) /\ j <= a
  <2>1. S \subseteq 1..Len(s)
    BY <1>0 DEF SourceRows
  <2>2. IsFiniteSet(S)
    BY <1>0, NativesAreFinite
  <2>3. QED
    BY <1>0, <2>1, <2>2
<1> HIDE DEF S
<1>3. NativeCount(t) = NativeCount(s) + (Len(t) - a)
  BY <1>0, <1>1, <1>2, CountAbove DEF NativeCount, SourceCount, S
<1>4. ASSUME NEW i \in S
      PROVE  Ordinal(t, i) = Ordinal(s, i)
  <2>1. {j \in SourceRows(t, "native") : j <= i} = {j \in S : j <= i}
    BY <1>0, <1>1, <1>2
  <2>2. QED
    BY <2>1 DEF Ordinal, S
<1>5. ASSUME NEW i \in (a + 1)..Len(t)
      PROVE  Ordinal(t, i) = NativeCount(s) + (i - a)
  <2>1. {j \in SourceRows(t, "native") : j <= i} = S \cup ((a + 1)..i)
    <3>1. \A j \in S : j <= i
      BY <1>0, <1>2
    <3>2. {j \in (a + 1)..Len(t) : j <= i} = (a + 1)..i
      BY <1>0
    <3>3. QED
      BY <1>1, <3>1, <3>2
  <2>2. i \in Nat /\ a <= i
    BY <1>0
  <2>3. Cardinality(S \cup ((a + 1)..i)) = Cardinality(S) + (i - a)
    BY <1>0, <1>2, <2>2, CountAbove
  <2>4. QED
    BY <2>1, <2>3 DEF Ordinal, NativeCount, SourceCount, S
<1>6. QED
  BY <1>1, <1>3, <1>4, <1>5 DEF S

LEMMA RowFields ==
  ASSUME NEW r \in Row
  PROVE  SourceOf(r) = "native" <=> r.kind = "native"
BY DEF Row, SourceOf, CallbackKinds, PlainKinds

(* The new rows up to the a-th do not come from the engine, those after it *)
(* are the next ones the engine wrote.                                     *)
NextOnes(s, t, a, src) ==
  /\ \A i \in (Len(s) + 1)..a : t[i].kind # "native"
  /\ NativeCount(s) + (Len(t) - a) <= Len(src)
  /\ \A i \in (a + 1)..Len(t) :
       t[i].kind = "native" /\ t[i].native = src[NativeCount(s) + (i - a)]

LEMMA ImportedGrows ==
  ASSUME NEW s, NEW t, Grows(s, t), NEW a \in Len(s)..Len(t),
         NEW src \in Seq(NativeKinds), Imported(s, src), NextOnes(s, t, a, src)
  PROVE  Imported(t, src) /\ NativeCount(t) = NativeCount(s) + (Len(t) - a)
<1>0. /\ s \in Seq(Row) /\ t \in Seq(Row) /\ Len(s) \in Nat /\ Len(t) \in Nat /\ a \in Nat
      /\ DOMAIN s = 1..Len(s) /\ DOMAIN t = 1..Len(t) /\ Len(src) \in Nat
  BY DEF Grows
<1>1. \A i \in 1..Len(t) : SourceOf(t[i]) = "native" <=> t[i].kind = "native"
  BY <1>0, RowFields
<1>2. /\ \A i \in (Len(s) + 1)..a : SourceOf(t[i]) # "native"
      /\ \A i \in (a + 1)..Len(t) : SourceOf(t[i]) = "native"
  <2>1. /\ \A i \in (Len(s) + 1)..a : t[i].kind # "native"
        /\ \A i \in (a + 1)..Len(t) : t[i].kind = "native"
    BY DEF NextOnes
  <2>2. (Len(s) + 1)..a \subseteq 1..Len(t) /\ (a + 1)..Len(t) \subseteq 1..Len(t)
    BY <1>0
  <2>3. QED
    BY <1>1, <2>1, <2>2
<1>3. /\ SourceRows(t, "native") = SourceRows(s, "native") \cup ((a + 1)..Len(t))
      /\ NativeCount(t) = NativeCount(s) + (Len(t) - a)
      /\ \A i \in SourceRows(s, "native") : Ordinal(t, i) = Ordinal(s, i)
      /\ \A i \in (a + 1)..Len(t) : Ordinal(t, i) = NativeCount(s) + (i - a)
  BY <1>2, AppendedNatives
<1>4. NativeCount(s) \in Nat
  BY <1>0, NativesAreFinite
<1>5. ASSUME NEW i \in SourceRows(t, "native")
      PROVE  Ordinal(t, i) <= Len(src) /\ t[i].native = src[Ordinal(t, i)]
  <2>1. CASE i \in SourceRows(s, "native")
    <3>1. i \in 1..Len(s)
      BY <1>0, <2>1 DEF SourceRows
    <3>2. QED
      BY <1>3, <2>1, <3>1 DEF Imported, Grows
  <2>2. CASE i \in (a + 1)..Len(t)
    BY <1>0, <1>3, <1>4, <2>2 DEF NextOnes
  <2>3. QED
    BY <1>3, <2>1, <2>2
<1>6. ASSUME NEW n \in 1..NativeCount(t)
      PROVE  HasNative(t, src[n])
  <2>1. CASE n \in 1..NativeCount(s)
    <3>1. PICK i \in DOMAIN s : s[i].kind = "native" /\ s[i].native = src[n]
      BY <2>1 DEF Imported, HasNative
    <3>2. i \in DOMAIN t /\ t[i] = s[i]
      BY <1>0 DEF Grows
    <3>3. QED
      BY <3>1, <3>2 DEF HasNative
  <2>2. CASE n > NativeCount(s)
    <3> DEFINE i == n - NativeCount(s) + a
    <3>1. i \in (a + 1)..Len(t) /\ NativeCount(s) + (i - a) = n
      BY <1>0, <1>3, <1>4, <2>2
    <3>2. i \in DOMAIN t
      BY <1>0, <3>1
    <3>3. t[i].kind = "native" /\ t[i].native = src[n]
      BY <3>1 DEF NextOnes
    <3>4. QED
      BY <3>2, <3>3 DEF HasNative
  <2>3. QED
    BY <1>3, <1>4, <2>1, <2>2
<1>7. QED
  BY <1>3, <1>4, <1>5, <1>6 DEF Imported, NextOnes

(* Rows of other kinds say nothing about the engine.                       *)
LEMMA ImportedStays ==
  ASSUME NEW s, NEW t, Grows(s, t), NEW src \in Seq(NativeKinds), Imported(s, src),
         \A i \in (Len(s) + 1)..Len(t) : t[i].kind # "native"
  PROVE  Imported(t, src) /\ NativeCount(t) = NativeCount(s)
<1>1. s \in Seq(Row) /\ t \in Seq(Row) /\ Len(t) \in Len(s)..Len(t) /\ Len(src) \in Nat
  BY DEF Grows
<1>2. NativeCount(s) \in Nat /\ NativeCount(s) <= Len(src)
  BY <1>1, NativesAreFinite DEF Imported
<1>3. (Len(t) + 1)..Len(t) = {} /\ NativeCount(s) + (Len(t) - Len(t)) = NativeCount(s)
  BY <1>1, <1>2
<1>4. NextOnes(s, t, Len(t), src)
  BY <1>1, <1>2, <1>3 DEF NextOnes
<1>5. QED
  BY <1>1, <1>2, <1>3, <1>4, ImportedGrows

(* What the engine adds to its file changes nothing that was imported.     *)
LEMMA SourceGrows ==
  ASSUME NEW s \in Seq(Row), NEW src \in Seq(NativeKinds), NEW k \in NativeKinds,
         Imported(s, src)
  PROVE  Imported(s, Append(src, k))
<1>1. /\ Append(src, k) \in Seq(NativeKinds) /\ Len(Append(src, k)) = Len(src) + 1
      /\ Len(src) \in Nat /\ \A n \in 1..Len(src) : Append(src, k)[n] = src[n]
  OBVIOUS
<1>2. NativeCount(s) \in Nat
  BY NativesAreFinite
<1>3. ASSUME NEW i \in SourceRows(s, "native")
      PROVE  Ordinal(s, i) \in 1..Len(src)
  <2>1. {j \in SourceRows(s, "native") : j <= i} # {}
    BY <1>3 DEF SourceRows
  <2>2. Cardinality({j \in SourceRows(s, "native") : j <= i}) # 0
    BY <2>1, NativesAreFinite, FS_EmptySet
  <2>3. Ordinal(s, i) \in Nat /\ Ordinal(s, i) <= Len(src) /\ Ordinal(s, i) # 0
    BY <2>2, NativesAreFinite DEF Imported, Ordinal
  <2>4. QED
    BY <1>1, <2>3
<1>4. QED
  BY <1>1, <1>2, <1>3 DEF Imported

LEMMA UnsealedGrowth ==
  ASSUME NEW s, NEW t, Grows(s, t), ~Sealed(s), NothingAfterTerminalIn(s),
         \A i \in (Len(s) + 1)..Len(t) : t[i].kind # "terminal"
  PROVE  ~Sealed(t) /\ NothingAfterTerminalIn(t)
<1>0. /\ s \in Seq(Row) /\ t \in Seq(Row) /\ Len(s) \in Nat /\ Len(t) \in Nat
      /\ DOMAIN s = 1..Len(s) /\ DOMAIN t = 1..Len(t)
      /\ s = <<>> <=> Len(s) = 0
  BY DEF Grows
<1>1. \A i \in 1..Len(s) : s[i].kind # "terminal"
  BY <1>0 DEF Sealed, NothingAfterTerminalIn
<1>2. ASSUME NEW i \in 1..Len(t)
      PROVE  t[i].kind # "terminal"
  BY <1>0, <1>1 DEF Grows
<1>3. QED
  BY <1>0, <1>2 DEF Sealed, NothingAfterTerminalIn

LEMMA SealGrowth ==
  ASSUME NEW s, NEW t, Grows(s, t), Len(t) = Len(s) + 1, ~Sealed(s),
         NothingAfterTerminalIn(s), t[Len(t)].kind = "terminal"
  PROVE  Sealed(t) /\ NothingAfterTerminalIn(t)
<1>0. /\ s \in Seq(Row) /\ t \in Seq(Row) /\ Len(s) \in Nat /\ Len(t) \in Nat
      /\ DOMAIN s = 1..Len(s) /\ DOMAIN t = 1..Len(t)
      /\ s = <<>> <=> Len(s) = 0 /\ t # <<>>
  BY DEF Grows
<1>1. \A i \in 1..Len(s) : s[i].kind # "terminal"
  BY <1>0 DEF Sealed, NothingAfterTerminalIn
<1>2. ASSUME NEW i \in 1..Len(t), i # Len(t)
      PROVE  t[i].kind # "terminal"
  BY <1>0, <1>1, <1>2 DEF Grows
<1>3. QED
  BY <1>0, <1>2 DEF Sealed, NothingAfterTerminalIn

(* No choice starts or completes.                                          *)
LEMMA QuietGrowth ==
  ASSUME NEW s, NEW t, Grows(s, t),
         \A i \in (Len(s) + 1)..Len(t) : t[i].kind \notin {"started", "finished"}
  PROVE  /\ Pending(t) = Pending(s)
         /\ \A c \in Callbacks, k \in {"started", "finished"} : Has(t, k, c) <=> Has(s, k, c)
<1>0. /\ s \in Seq(Row) /\ t \in Seq(Row) /\ Len(s) \in Nat /\ Len(t) \in Nat
      /\ DOMAIN s = 1..Len(s) /\ DOMAIN t = 1..Len(t) /\ Len(s) <= Len(t)
      /\ \A i \in 1..Len(s) : t[i] = s[i]
  BY DEF Grows
<1>1. \A i \in 1..Len(t) : i \in 1..Len(s) \/ i \in (Len(s) + 1)..Len(t)
  BY <1>0
<1>2. 1..Len(s) \subseteq 1..Len(t)
  BY <1>0
<1>3. ASSUME NEW c \in Callbacks, NEW k \in {"started", "finished"}
      PROVE  Has(t, k, c) <=> Has(s, k, c)
  BY <1>0, <1>1, <1>2 DEF Has
<1>4. ASSUME NEW c \in Callbacks
      PROVE  PendingAt(t, c) <=> PendingAt(s, c)
  <2>1. ASSUME PendingAt(s, c) PROVE PendingAt(t, c)
    BY <1>0, <1>1, <1>2, <2>1 DEF PendingAt
  <2>2. ASSUME PendingAt(t, c) PROVE PendingAt(s, c)
    BY <1>0, <1>1, <1>2, <2>2 DEF PendingAt
  <2>3. QED
    BY <2>1, <2>2
<1>5. QED
  BY <1>3, <1>4 DEF Pending

-----------------------------------------------------------------------------
(***************************************************************************)
(* Appending a list of rows, which may end early.                          *)
(***************************************************************************)
BoundsSet ==
  [games : 0..NumGames, callbacks : SUBSET Callbacks, recorded : SUBSET Recorded,
   source : Nat, rows : Nat, kinds : SUBSET {"failed", "crashed"},
   faults : Nat, boots : Nat]

(* k of the rows became durable.                                           *)
Wrote(g, new, e, k) ==
  /\ Grows(rows[g], rows'[g]) /\ Len(rows'[g]) = Len(rows[g]) + k
  /\ \A i \in (Len(rows[g]) + 1)..Len(rows'[g]) :
       i - Len(rows[g]) \in 1..k /\ rows'[g][i] = new[i - Len(rows[g])]
  /\ k = e.n \/ (k = e.n + 1 /\ e.out \in {"failed", "crashed"})
  /\ e.n \in 0..Len(new) /\ (e.out = "done" <=> e.n = Len(new))
  /\ e.out \in {"done", "refused", "missed", "failed", "cancelled", "crashed"}
  /\ k > 0 \/ created[g] => created'[g]
  /\ \A h \in Games \ {g} : rows'[h] = rows[h] /\ created'[h] = created[h]
  /\ rows' \in [Games -> Seq(Row)] /\ created' \in [Games -> BOOLEAN]
  /\ tail' \in [Games -> {"none", "torn"}]
  /\ bounds' \in BoundsSet /\ bounds'.games = bounds.games

LEMMA FaultStep ==
  ASSUME bounds \in BoundsSet, NEW kind, MayFail(kind), Faulted
  PROVE  bounds' \in BoundsSet /\ bounds'.games = bounds.games
BY DEF MayFail, Faulted, BoundsSet

LEMMA WriteStep ==
  ASSUME TypeOK, NEW g \in Games, NEW new \in Seq(Row), NEW limit,
         NEW e \in Endings(g, new, limit), Write(g, new, e)
  PROVE  \E k \in 0..Len(new) : Wrote(g, new, e, k)
<1> DEFINE k == IF e.left = "row" THEN e.n + 1 ELSE e.n
<1>1. /\ e.out \in {"done", "refused", "missed", "failed", "cancelled", "crashed"}
      /\ e.n \in 0..Len(new) /\ e.left \in {"nothing", "file", "part", "row"}
      /\ e.out = "done" <=> e.n = Len(new)
      /\ e.out \notin {"failed", "crashed"} => e.left = "nothing"
      /\ e.out \in {"failed", "crashed"} => MayFail(e.out)
      /\ e.out = "missed" => MayFail("failed")
  BY DEF Endings
<1>2. k \in 0..Len(new) /\ (k = e.n \/ (k = e.n + 1 /\ e.out \in {"failed", "crashed"}))
  BY <1>1
<1>3. /\ rows \in [Games -> Seq(Row)] /\ created \in [Games -> BOOLEAN]
      /\ tail \in [Games -> {"none", "torn"}] /\ bounds \in BoundsSet
  BY DEF TypeOK, BoundsSet
<1>4. /\ AppendsFirst(rows[g], new, k, rows'[g])
      /\ \A h \in Games \ {g} : rows'[h] = rows[h]
      /\ rows' = [rows EXCEPT ![g] = rows[g] \o SubSeq(new, 1, k)]
  BY <1>3 DEF Write, AppendsFirst
<1>5. /\ Grows(rows[g], rows'[g]) /\ Len(rows'[g]) = Len(rows[g]) + k
      /\ \A i \in (Len(rows[g]) + 1)..Len(rows'[g]) :
           i - Len(rows[g]) \in 1..k /\ rows'[g][i] = new[i - Len(rows[g])]
  <2>1. rows[g] \in Seq(Row) /\ new \in Seq(Row) /\ k \in 0..Len(new)
    BY <1>2, <1>3
  <2>2. AppendsFirst(rows[g], new, k, rows'[g])
    BY <1>4
  <2> HIDE DEF k
  <2>3. PICK was : was = rows[g]
    OBVIOUS
  <2>4. PICK now : now = rows'[g]
    OBVIOUS
  <2>5. was \in Seq(Row) /\ AppendsFirst(was, new, k, now)
    BY ONLY <2>1, <2>2, <2>3, <2>4
  <2>6. /\ Grows(was, now) /\ Len(now) = Len(was) + k
        /\ \A i \in (Len(was) + 1)..Len(now) :
             i - Len(was) \in 1..k /\ now[i] = new[i - Len(was)]
    BY ONLY <2>1, <2>5, Growth
  <2>7. QED
    BY ONLY <2>3, <2>4, <2>6
<1>6. rows' \in [Games -> Seq(Row)]
  BY <1>3, <1>4, <1>5 DEF Grows
<1>7. /\ created' \in [Games -> BOOLEAN] /\ (k > 0 \/ created[g] => created'[g])
      /\ \A h \in Games \ {g} : created'[h] = created[h]
  BY <1>1, <1>3 DEF Write
<1>8. tail' \in [Games -> {"none", "torn"}]
  BY <1>3 DEF Write
<1>9. bounds' \in BoundsSet /\ bounds'.games = bounds.games
  BY <1>1, <1>3, FaultStep DEF Write
<1> HIDE DEF k
<1>10. QED
  BY <1>1, <1>2, <1>4, <1>5, <1>6, <1>7, <1>8, <1>9 DEF Wrote

LEMMA RowTypes ==
  /\ \A k \in PlainKinds : PlainRow(k) \in Row
  /\ \A k \in CallbackKinds, c \in Callbacks : CallbackRow(k, c) \in Row
  /\ \A n \in NativeKinds : NativeRow(n) \in Row
BY DEF Row, PlainRow, CallbackRow, NativeRow

(* What a visit appends are rows that open the journal and then the        *)
(* engine's next ones.                                                     *)
LEMMA NewRows ==
  ASSUME TypeOK, NEW g \in Games
  PROVE  /\ Opening(g) \in Seq(Row) /\ Imports(g) \in Seq(Row)
         /\ Opening(g) \o Imports(g) \in Seq(Row)
         /\ \A i \in 1..Len(Opening(g)) : Opening(g)[i].kind \in {"manifest", "resume", "context"}
         /\ mem[g].held => Len(Opening(g)) = 0
         /\ NextNative(g) \in Nat /\ NextNative(g) > 0
         /\ Len(Imports(g)) = IF NextNative(g) > Len(source[g]) THEN 0
                              ELSE Len(source[g]) - NextNative(g) + 1
         /\ \A i \in 1..Len(Imports(g)) :
              Imports(g)[i].kind = "native"
                /\ Imports(g)[i].native = source[g][NextNative(g) + i - 1]
<1>1. /\ source[g] \in Seq(NativeKinds) /\ rows[g] \in Seq(Row) /\ Len(source[g]) \in Nat
      /\ mem[g].cursor \in Nat
  BY DEF TypeOK
<1>2. NextNative(g) \in Nat /\ NextNative(g) > 0
  <2>1. NativeCount(rows[g]) \in Nat
    BY <1>1, NativesAreFinite
  <2>2. QED
    BY <1>1, <2>1 DEF NextNative
<1> DEFINE n == IF NextNative(g) > Len(source[g]) THEN 0
                ELSE Len(source[g]) - NextNative(g) + 1
<1>3. n \in Nat /\ 1..(Len(source[g]) - NextNative(g) + 1) = 1..n
  BY <1>1, <1>2
<1>4. \A i \in 1..n : NextNative(g) + i - 1 \in 1..Len(source[g])
  BY <1>1, <1>2
<1> DEFINE f == [i \in 1..n |-> NativeRow(source[g][NextNative(g) + i - 1])]
<1>5. Imports(g) = f
  BY <1>3 DEF Imports
<1>6. \A i \in 1..n : NativeRow(source[g][NextNative(g) + i - 1]) \in Row
  BY <1>1, <1>4, RowTypes
<1> HIDE DEF n
<1>7. f \in Seq(Row) /\ Len(f) = n
  BY <1>3, <1>6, IsASeq
<1>8. \A i \in 1..n : f[i].kind = "native"
                         /\ f[i].native = source[g][NextNative(g) + i - 1]
  BY DEF NativeRow
<1> HIDE DEF f
<1>9. /\ Opening(g) \in Seq(Row)
      /\ \A i \in 1..Len(Opening(g)) : Opening(g)[i].kind \in {"manifest", "resume", "context"}
      /\ mem[g].held => Len(Opening(g)) = 0
  <2>1. CASE mem[g].held
    BY <2>1 DEF Opening
  <2>2. CASE ~mem[g].held
    <3> DEFINE a == PlainRow(IF created[g] THEN "resume" ELSE "manifest")
               b == PlainRow("context")
    <3>1. a \in Row /\ b \in Row /\ a.kind \in {"manifest", "resume"} /\ b.kind = "context"
      BY RowTypes DEF PlainRow, PlainKinds
    <3>2. Opening(g) = <<a, b>>
      BY <2>2 DEF Opening
    <3> HIDE DEF a, b
    <3>3. QED
      BY <2>2, <3>1, <3>2
  <2>3. QED
    BY <2>1, <2>2
<1>10. QED
  BY <1>2, <1>5, <1>7, <1>8, <1>9 DEF n

-----------------------------------------------------------------------------
(***************************************************************************)
(* Types.                                                                  *)
(***************************************************************************)
Finalizers == {"none", "raw", "seal", "publish", "done", "failed", "cancelled"}

MemSet ==
  [held : BOOLEAN, failed : BOOLEAN, knows : Nat, cursor : Nat,
   grace : {"unset", "running", "passed"}, finalizer : Finalizers, gap : BOOLEAN]

ProcSet ==
  [up : BOOLEAN, scanner : BOOLEAN, at : 0..NumGames, stop : BOOLEAN,
   verified : SUBSET Games, errors : SUBSET (Games \cup {Bridge})]

DiskTypes ==
  /\ source \in [Games -> Seq(NativeKinds)] /\ rows \in [Games -> Seq(Row)]
  /\ tail \in [Games -> {"none", "torn"}] /\ created \in [Games -> BOOLEAN]
  /\ envelope \in [Games -> SUBSET Callbacks]
  /\ complete \in [Games -> BOOLEAN] /\ manifest \in [Games -> BOOLEAN]

ProcTypes == proc \in ProcSet /\ proc.at <= bounds.games

LEMMA Types ==
  TypeOK <=> DiskTypes /\ ProcTypes /\ mem \in [Games -> MemSet] /\ bounds \in BoundsSet
BY DEF TypeOK, DiskTypes, ProcTypes, ProcSet, MemSet, Finalizers, BoundsSet

LEMMA TypesAfter ==
  DiskTypes' /\ ProcTypes' /\ mem' \in [Games -> MemSet] /\ bounds' \in BoundsSet => TypeOK'
BY DEF TypeOK, DiskTypes, ProcTypes, ProcSet, MemSet, Finalizers, BoundsSet

LEMMA FreshTypes ==
  ASSUME NumGames \in Nat
  PROVE  FreshProc \in ProcSet /\ FreshMem \in MemSet
BY DEF FreshProc, FreshMem, ProcSet, MemSet, Finalizers

LEMMA NoProcess ==
  ASSUME NumGames \in Nat, NEW p, p = [FreshProc EXCEPT !.up = FALSE]
  PROVE  /\ p \in ProcSet /\ ~p.up /\ p.scanner /\ p.at = 0 /\ p.verified = {}
<1>1. \A f \in ProcSet : LET q == [f EXCEPT !.up = FALSE]
                         IN  /\ q \in ProcSet /\ ~q.up /\ q.scanner = f.scanner
                             /\ q.at = f.at /\ q.verified = f.verified
  BY DEF ProcSet
<1>2. FreshProc.scanner /\ FreshProc.at = 0 /\ FreshProc.verified = {}
  BY DEF FreshProc
<1>3. QED
  BY <1>1, <1>2, FreshTypes

LEMMA InitTypes == Init => TypeOK
<1>1. ASSUME Init PROVE DiskTypes
  BY <1>1 DEF Init, DiskTypes
<1>2. ASSUME Init PROVE bounds \in BoundsSet
  BY <1>2, BoundsAssumption DEF Init, BoundsSet
<1>3. ASSUME Init PROVE ProcTypes /\ mem \in [Games -> MemSet]
  <2>1. FreshProc.at = 0 /\ bounds.games \in Nat
    BY <1>2, <1>3, BoundsAssumption DEF FreshProc, BoundsSet
  <2>2. QED
    BY <1>3, <2>1, BoundsAssumption, FreshTypes DEF Init, ProcTypes
<1>4. QED
  BY <1>1, <1>2, <1>3, Types

(* The process is gone.                                                    *)
LEMMA GoneTypes ==
  ASSUME bounds' \in BoundsSet, Gone
  PROVE  /\ ProcTypes' /\ mem' \in [Games -> MemSet]
         /\ ~proc'.up /\ proc'.scanner /\ proc'.at = 0 /\ proc'.verified = {}
<1>1. bounds'.games \in Nat
  BY BoundsAssumption DEF BoundsSet
<1>2. /\ proc' \in ProcSet /\ ~proc'.up /\ proc'.scanner /\ proc'.at = 0
      /\ proc'.verified = {}
  BY BoundsAssumption, NoProcess DEF Gone
<1>3. mem' \in [Games -> MemSet]
  BY BoundsAssumption, FreshTypes DEF Gone
<1>4. QED
  BY <1>1, <1>2, <1>3, BoundsAssumption DEF ProcTypes

(* The scan goes on to the next game.                                      *)
LEMMA OnwardStep ==
  ASSUME ProcTypes, bounds \in BoundsSet, bounds'.games = bounds.games,
         NEW errors \in SUBSET (Games \cup {Bridge}), Onward(errors)
  PROVE  /\ ProcTypes' /\ proc'.up = proc.up /\ proc'.scanner = proc.scanner
         /\ proc'.verified = proc.verified
<1>1. proc \in ProcSet /\ proc.at \in 0..NumGames /\ bounds.games \in 0..NumGames
      /\ proc.at <= bounds.games
  BY DEF ProcTypes, ProcSet, BoundsSet
<1> DEFINE at == IF proc.at = bounds.games THEN 0 ELSE proc.at + 1
<1>2. at \in 0..NumGames /\ at <= bounds.games
  BY <1>1, BoundsAssumption
<1>3. proc' = [proc EXCEPT !.at = at, !.errors = errors]
  BY <1>1 DEF Onward, ProcSet
<1> HIDE DEF at
<1>4. QED
  BY <1>1, <1>2, <1>3 DEF ProcTypes, ProcSet

-----------------------------------------------------------------------------
(***************************************************************************)
(* The invariant holds initially, and what a step has to show.             *)
(***************************************************************************)
LEMMA NothingYet ==
  /\ NativeCount(<<>>) = 0 /\ SourceRows(<<>>, "native") = {}
  /\ ~Sealed(<<>>) /\ NothingAfterTerminalIn(<<>>) /\ <<>> \in Seq(Row)
<1>1. SourceRows(<<>>, "native") = {}
  BY DEF SourceRows
<1>2. NativeCount(<<>>) = 0
  BY <1>1, FS_EmptySet DEF NativeCount, SourceCount
<1>3. QED
  BY <1>1, <1>2 DEF Sealed, NothingAfterTerminalIn

LEMMA FreshGame ==
  ASSUME NEW s, NEW src, NEW published, NEW scanner
  PROVE  MemOK(FreshMem, s, src, published) /\ CursorOK(FreshMem, s, scanner)
BY DEF MemOK, CursorOK, FreshMem

LEMMA InitInv == Init => CaptureInv
<1> SUFFICES ASSUME Init PROVE CaptureInv
  OBVIOUS
<1>1. TypeOK
  BY InitTypes
<1>2. ASSUME NEW g \in Games
      PROVE  GameInv(g)
  <2>1. /\ rows[g] = <<>> /\ source[g] = <<>> /\ created[g] = FALSE /\ complete[g] = FALSE
        /\ manifest[g] = FALSE /\ mem[g] = FreshMem /\ proc.verified = {}
    BY DEF Init, FreshProc
  <2>2. DiskOK(<<>>, <<>>, FALSE, FALSE, FALSE)
    BY NothingYet DEF DiskOK, Imported
  <2>3. QED
    BY <2>1, <2>2, FreshGame DEF GameInv
<1>3. proc.at = 0 /\ proc.up
  BY DEF Init, FreshProc
<1>4. QED
  BY <1>1, <1>2, <1>3 DEF CaptureInv

(* A step of a process that goes on, about one game.                       *)
Frame(g) ==
  \A h \in Games \ {g} :
    /\ rows'[h] = rows[h] /\ source'[h] = source[h] /\ created'[h] = created[h]
    /\ complete'[h] = complete[h] /\ manifest'[h] = manifest[h] /\ mem'[h] = mem[h]

ProcFrame(g) ==
  /\ proc'.up /\ (proc'.scanner => proc.scanner) /\ (proc'.at > 0 => proc'.scanner)
  /\ proc'.verified \subseteq proc.verified \cup {g}

LEMMA StepOfGame ==
  ASSUME CaptureInv, TypeOK', NEW g \in Games, Frame(g), ProcFrame(g), GameInv(g)'
  PROVE  CaptureInv'
<1>1. ASSUME NEW h \in Games \ {g}
      PROVE  GameInv(h)'
  <2>1. /\ rows'[h] = rows[h] /\ source'[h] = source[h] /\ created'[h] = created[h]
        /\ complete'[h] = complete[h] /\ manifest'[h] = manifest[h] /\ mem'[h] = mem[h]
    BY DEF Frame
  <2>2. GameInv(h)
    BY DEF CaptureInv
  <2>3. (proc'.scanner => proc.scanner) /\ (h \in proc'.verified => h \in proc.verified)
    BY DEF ProcFrame
  <2>4. CursorOK(mem[h], rows[h], proc'.scanner)
    BY <2>2, <2>3 DEF GameInv, CursorOK
  <2>5. QED
    BY <2>1, <2>2, <2>3, <2>4 DEF GameInv
<1>2. \A h \in Games : GameInv(h)'
  BY <1>1
<1>3. QED
  BY <1>2 DEF CaptureInv, ProcFrame

(* The death of the process, also in the middle of an append.              *)
LEMMA StepOfDeath ==
  ASSUME DiskTypes', bounds' \in BoundsSet, Gone,
         \A h \in Games : DiskOK(rows'[h], source'[h], created'[h], complete'[h], manifest'[h])
  PROVE  CaptureInv'
<1>1. /\ ProcTypes' /\ mem' \in [Games -> MemSet]
      /\ ~proc'.up /\ proc'.scanner /\ proc'.at = 0 /\ proc'.verified = {}
  BY GoneTypes
<1>2. TypeOK'
  BY <1>1, TypesAfter
<1>3. mem' = [g \in Games |-> FreshMem]
  BY DEF Gone
<1>4. ASSUME NEW h \in Games
      PROVE  GameInv(h)'
  <2>1. mem'[h] = FreshMem
    BY <1>3
  <2>2. QED
    BY <1>1, <2>1, FreshGame DEF GameInv
<1>5. QED
  BY <1>1, <1>2, <1>3, <1>4 DEF CaptureInv

LEMMA Facts ==
  ASSUME CaptureInv, NEW g \in Games
  PROVE  /\ DiskTypes /\ ProcTypes /\ mem \in [Games -> MemSet] /\ bounds \in BoundsSet
         /\ rows[g] \in Seq(Row) /\ source[g] \in Seq(NativeKinds)
         /\ Len(rows[g]) \in Nat /\ Len(source[g]) \in Nat
         /\ mem[g] \in MemSet /\ proc \in ProcSet /\ NativeCount(rows[g]) \in Nat
         /\ GameInv(g)
<1>1. DiskTypes /\ ProcTypes /\ mem \in [Games -> MemSet] /\ bounds \in BoundsSet
  BY Types DEF CaptureInv
<1>2. rows[g] \in Seq(Row) /\ source[g] \in Seq(NativeKinds)
  BY <1>1 DEF DiskTypes
<1>3. NativeCount(rows[g]) \in Nat
  BY <1>2, NativesAreFinite
<1>4. QED
  BY <1>1, <1>2, <1>3 DEF CaptureInv, ProcTypes

(* A step of the process that leaves every game alone.                     *)
LEMMA StepOfProcess ==
  ASSUME CaptureInv, UNCHANGED <<disk, mem>>, ProcTypes', bounds' \in BoundsSet,
         proc'.up, proc'.scanner => proc.scanner, proc'.at > 0 => proc'.scanner,
         proc'.verified \subseteq proc.verified
  PROVE  CaptureInv'
<1>1. DiskTypes /\ mem \in [Games -> MemSet]
  BY Types DEF CaptureInv
<1>2. TypeOK'
  BY <1>1, TypesAfter DEF disk, DiskTypes
<1>3. ASSUME NEW h \in Games
      PROVE  GameInv(h)'
  <2>1. GameInv(h)
    BY DEF CaptureInv
  <2>2. CursorOK(mem[h], rows[h], proc'.scanner)
    BY <2>1 DEF GameInv, CursorOK
  <2>3. QED
    BY <2>1, <2>2 DEF GameInv, disk
<1>4. QED
  BY <1>2, <1>3 DEF CaptureInv

LEMMA ProcessSteps ==
  ASSUME CaptureInv, ScanStarts \/ ScanStops \/ RequestStop \/ Boot
  PROVE  CaptureInv'
<1>1. /\ proc \in ProcSet /\ proc.at <= bounds.games /\ bounds \in BoundsSet
      /\ bounds.games \in 0..NumGames /\ NumGames \in Nat
      /\ (proc.at > 0 => proc.scanner) /\ (~proc.up => proc.scanner)
  BY Types, BoundsAssumption DEF CaptureInv, ProcTypes, BoundsSet
<1>2. CASE ScanStarts
  <2>1. /\ ProcTypes' /\ proc'.up /\ proc'.scanner = proc.scanner /\ proc.scanner
        /\ proc'.verified = proc.verified
    <3>1. 1 \in 0..NumGames /\ 1 <= bounds.games
      BY <1>1, <1>2 DEF ScanStarts
    <3>2. proc' = [proc EXCEPT !.at = 1] /\ bounds' = bounds /\ proc.up /\ proc.scanner
      BY <1>2 DEF ScanStarts, Running
    <3>3. QED
      BY <1>1, <3>1, <3>2 DEF ProcTypes, ProcSet
  <2>2. QED
    BY <1>1, <1>2, <2>1, StepOfProcess DEF ScanStarts
<1>3. CASE ScanStops
  <2>1. /\ ProcTypes' /\ proc'.up /\ proc'.scanner = proc.scanner /\ proc'.at = 0
        /\ proc'.verified = proc.verified
    BY <1>1, <1>3 DEF ScanStops, ProcTypes, ProcSet
  <2>2. QED
    BY <1>1, <1>3, <2>1, StepOfProcess DEF ScanStops
<1>4. CASE RequestStop
  <2>1. /\ ProcTypes' /\ proc'.up /\ proc'.scanner = proc.scanner /\ proc'.at = proc.at
        /\ proc'.verified = proc.verified
    BY <1>1, <1>4 DEF RequestStop, Running, ProcTypes, ProcSet
  <2>2. QED
    BY <1>1, <1>4, <2>1, StepOfProcess DEF RequestStop
<1>5. CASE Boot
  <2>1. bounds' \in BoundsSet /\ bounds'.games = bounds.games
    BY <1>1, <1>5 DEF Boot, BoundsSet
  <2>2. /\ FreshProc \in ProcSet /\ FreshProc.up /\ FreshProc.at = 0
        /\ FreshProc.verified = {}
    BY <1>1, FreshTypes DEF FreshProc
  <2>3. ProcTypes' /\ proc'.up /\ proc.scanner /\ proc'.at = 0 /\ proc'.verified = {}
    BY <1>1, <1>5, <2>1, <2>2 DEF Boot, ProcTypes
  <2>4. QED
    BY <1>5, <2>1, <2>3, StepOfProcess DEF Boot
<1>6. QED
  BY <1>2, <1>3, <1>4, <1>5

LEMMA DeathSteps ==
  ASSUME CaptureInv, Shutdown \/ Crash
  PROVE  CaptureInv'
<1>1. DiskTypes /\ bounds \in BoundsSet
  BY Types DEF CaptureInv
<1>2. Gone /\ UNCHANGED disk /\ bounds' \in BoundsSet
  BY <1>1, FaultStep DEF Shutdown, Crash
<1>3. DiskTypes'
  BY <1>1, <1>2 DEF disk, DiskTypes
<1>4. ASSUME NEW h \in Games
      PROVE  DiskOK(rows'[h], source'[h], created'[h], complete'[h], manifest'[h])
  <2>1. DiskOK(rows[h], source[h], created[h], complete[h], manifest[h])
    BY DEF CaptureInv, GameInv
  <2>2. QED
    BY <1>2, <2>1 DEF disk
<1>5. QED
  BY <1>2, <1>3, <1>4, StepOfDeath

(* A step about one game that leaves the disk alone.                       *)
LEMMA StepOfMemory ==
  ASSUME CaptureInv, NEW g \in Games, UNCHANGED <<disk, bounds>>,
         NEW m \in MemSet, mem' = [mem EXCEPT ![g] = m],
         ProcTypes', ProcFrame(g),
         CursorOK(m, rows[g], proc'.scanner), MemOK(m, rows[g], source[g], manifest[g]),
         g \in proc'.verified => VerifiedOK(m, manifest[g])
  PROVE  CaptureInv'
<1>1. /\ DiskTypes /\ mem \in [Games -> MemSet] /\ bounds \in BoundsSet
      /\ DiskOK(rows[g], source[g], created[g], complete[g], manifest[g])
  BY Facts DEF GameInv
<1>2. /\ mem' \in [Games -> MemSet] /\ mem'[g] = m
      /\ \A h \in Games \ {g} : mem'[h] = mem[h]
  BY <1>1
<1>3. TypeOK'
  BY <1>1, <1>2, TypesAfter DEF disk, DiskTypes
<1>4. Frame(g)
  BY <1>2 DEF Frame, disk
<1>5. GameInv(g)'
  BY <1>1, <1>2 DEF GameInv, disk
<1>6. QED
  BY <1>3, <1>4, <1>5, StepOfGame

-----------------------------------------------------------------------------
(***************************************************************************)
(* The steps that append nothing.                                          *)
(***************************************************************************)
LEMMA VisitNothingStep ==
  ASSUME CaptureInv, NEW g \in Games, VisitNothing(g)
  PROVE  CaptureInv'
<1>1. /\ ProcTypes /\ bounds \in BoundsSet /\ proc.errors \in SUBSET (Games \cup {Bridge})
      /\ bounds' = bounds /\ UNCHANGED <<disk, mem>> /\ proc.up /\ Onward(proc.errors)
      /\ proc.scanner /\ proc \in ProcSet
  BY Facts DEF VisitNothing, Running, CaptureInv, ProcSet, Games
<1>2. /\ ProcTypes' /\ proc'.up = proc.up /\ proc'.scanner = proc.scanner
      /\ proc'.verified = proc.verified
  BY <1>1, OnwardStep
<1>3. QED
  BY <1>1, <1>2, StepOfProcess

LEMMA VisitPublishedStep ==
  ASSUME CaptureInv, NEW g \in Games, VisitPublished(g)
  PROVE  CaptureInv'
<1> DEFINE m == [mem[g] EXCEPT !.held = FALSE]
           at == IF proc.at = bounds.games THEN 0 ELSE proc.at + 1
<1>1. /\ ProcTypes /\ bounds \in BoundsSet /\ mem[g] \in MemSet /\ GameInv(g)
      /\ proc \in ProcSet /\ bounds.games \in 0..NumGames /\ NumGames \in Nat
      /\ proc.at = g /\ proc.scanner /\ mem \in [Games -> MemSet]
  BY Facts, BoundsAssumption DEF VisitPublished, Visits, CaptureInv, BoundsSet, Games
<1>2. /\ m \in MemSet /\ ~m.held /\ m.finalizer = "none" /\ m.cursor = mem[g].cursor
      /\ mem' = [mem EXCEPT ![g] = m] /\ UNCHANGED <<disk, bounds>>
      /\ manifest[g] /\ proc.up /\ m.finalizer = mem[g].finalizer
  BY <1>1 DEF VisitPublished, Visits, Running, MemSet
<1>3. at \in 0..NumGames /\ at <= bounds.games
  BY <1>1 DEF ProcTypes, ProcSet
<1>4. proc' = [proc EXCEPT !.verified = @ \cup {g}, !.errors = @ \ {g}, !.at = at]
  BY <1>1 DEF VisitPublished, ProcSet
<1> HIDE DEF m, at
<1>5. ProcTypes' /\ ProcFrame(g) /\ proc'.scanner = proc.scanner
  BY <1>1, <1>2, <1>3, <1>4 DEF ProcTypes, ProcSet, ProcFrame
<1>6. CursorOK(m, rows[g], proc'.scanner) /\ MemOK(m, rows[g], source[g], manifest[g])
  BY <1>1, <1>2, <1>5 DEF CursorOK, MemOK, GameInv
<1>7. VerifiedOK(m, manifest[g])
  BY <1>2 DEF VerifiedOK
<1>8. QED
  BY <1>2, <1>5, <1>6, <1>7, StepOfMemory

LEMMA VisitEmptyStep ==
  ASSUME CaptureInv, NEW g \in Games, VisitEmpty(g)
  PROVE  CaptureInv'
<1> DEFINE m == [mem[g] EXCEPT !.cursor = Len(source[g])]
<1>1. /\ ProcTypes /\ bounds \in BoundsSet /\ mem[g] \in MemSet /\ GameInv(g)
      /\ proc \in ProcSet /\ bounds.games \in 0..NumGames /\ NumGames \in Nat
      /\ mem \in [Games -> MemSet] /\ Len(source[g]) \in Nat
  BY Facts, BoundsAssumption DEF BoundsSet
<1>2. /\ m \in MemSet /\ m.held = mem[g].held /\ ~m.held /\ m.finalizer = "none"
      /\ mem' = [mem EXCEPT ![g] = m] /\ UNCHANGED <<disk, bounds>> /\ proc.up
      /\ ~manifest[g]
  BY <1>1 DEF VisitEmpty, Importing, Visits, Running, MemSet
<1>3. proc' = [proc EXCEPT !.scanner = FALSE, !.at = 0]
  BY DEF VisitEmpty
<1> HIDE DEF m
<1>4. ProcTypes' /\ ProcFrame(g) /\ ~proc'.scanner /\ proc'.verified = proc.verified
  <2>1. /\ proc' \in ProcSet /\ proc'.at = 0 /\ proc'.up = proc.up /\ ~proc'.scanner
        /\ proc'.verified = proc.verified
    <3>1. 0 \in 0..NumGames
      BY <1>1
    <3>2. QED
      BY <1>1, <1>3, <3>1 DEF ProcSet
  <2>2. 0 <= bounds.games /\ bounds' = bounds
    BY <1>1, <1>2
  <2>3. QED
    BY <1>2, <2>1, <2>2 DEF ProcTypes, ProcFrame
<1>5. CursorOK(m, rows[g], proc'.scanner) /\ MemOK(m, rows[g], source[g], manifest[g])
  BY <1>2, <1>4 DEF CursorOK, MemOK
<1>6. g \notin proc'.verified
  BY <1>1, <1>2, <1>4 DEF GameInv, VerifiedOK
<1>7. QED
  BY <1>2, <1>4, <1>5, <1>6, StepOfMemory

LEMMA VisitRefusedStep ==
  ASSUME CaptureInv, NEW g \in Games, VisitRefused(g)
  PROVE  CaptureInv'
<1> DEFINE m == [mem[g] EXCEPT !.cursor = 0]
           errors == proc.errors \cup {g}
<1>1. /\ ProcTypes /\ bounds \in BoundsSet /\ mem[g] \in MemSet /\ GameInv(g)
      /\ proc \in ProcSet /\ mem \in [Games -> MemSet]
  BY Facts
<1>2. /\ m \in MemSet /\ m.held = mem[g].held /\ m.finalizer = "none" /\ m.cursor = 0
      /\ m.failed = mem[g].failed /\ m.knows = mem[g].knows /\ mem[g].finalizer = "none"
      /\ mem' = [mem EXCEPT ![g] = m] /\ UNCHANGED <<disk, bounds>> /\ proc.up
      /\ ~manifest[g] /\ Onward(errors) /\ proc.at = g
  BY <1>1 DEF VisitRefused, Importing, Visits, Running, MemSet
<1>3. errors \in SUBSET (Games \cup {Bridge}) /\ proc.scanner
  BY <1>1, <1>2 DEF ProcSet, Games, CaptureInv
<1> HIDE DEF m, errors
<1>4. /\ ProcTypes' /\ proc'.up = proc.up /\ proc'.scanner = proc.scanner
      /\ proc'.verified = proc.verified
  BY <1>1, <1>2, <1>3, OnwardStep
<1>5. ProcFrame(g)
  BY <1>2, <1>3, <1>4 DEF ProcFrame
<1>6. CursorOK(m, rows[g], proc'.scanner) /\ MemOK(m, rows[g], source[g], manifest[g])
  BY <1>1, <1>2 DEF CursorOK, MemOK, GameInv
<1>7. g \notin proc'.verified
  BY <1>1, <1>2, <1>4 DEF GameInv, VerifiedOK
<1>8. QED
  BY <1>2, <1>4, <1>5, <1>6, <1>7, StepOfMemory

LEMMA GraceStep ==
  ASSUME CaptureInv, NEW g \in Games, GracePasses(g)
  PROVE  CaptureInv'
<1> DEFINE m == [mem[g] EXCEPT !.grace = "passed"]
<1>1. /\ ProcTypes /\ mem[g] \in MemSet /\ GameInv(g) /\ proc \in ProcSet
      /\ mem \in [Games -> MemSet]
  BY Facts
<1>2. /\ m \in MemSet /\ m.held = mem[g].held /\ m.finalizer = mem[g].finalizer
      /\ m.cursor = mem[g].cursor /\ m.failed = mem[g].failed /\ m.knows = mem[g].knows
      /\ m.grace = "passed" /\ mem' = [mem EXCEPT ![g] = m]
      /\ UNCHANGED <<disk, bounds, proc>> /\ proc.up
  BY <1>1 DEF GracePasses, MemSet
<1> HIDE DEF m
<1>3. ProcTypes' /\ ProcFrame(g)
  BY <1>1, <1>2 DEF ProcTypes, ProcFrame, CaptureInv
<1>4. /\ CursorOK(m, rows[g], proc'.scanner) /\ MemOK(m, rows[g], source[g], manifest[g])
      /\ g \in proc'.verified => VerifiedOK(m, manifest[g])
  BY <1>1, <1>2 DEF CursorOK, MemOK, GameInv, VerifiedOK
<1>5. QED
  BY <1>2, <1>3, <1>4, StepOfMemory

LEMMA FinalizeCancelStep ==
  ASSUME CaptureInv, NEW g \in Games, FinalizeCancel(g)
  PROVE  CaptureInv'
<1> DEFINE m == [mem[g] EXCEPT !.finalizer = "cancelled"]
<1>1. /\ ProcTypes /\ mem[g] \in MemSet /\ GameInv(g) /\ proc \in ProcSet
      /\ mem \in [Games -> MemSet]
  BY Facts
<1>2. /\ m \in MemSet /\ m.held = mem[g].held /\ m.finalizer = "cancelled"
      /\ m.cursor = mem[g].cursor /\ m.failed = mem[g].failed /\ m.knows = mem[g].knows
      /\ mem[g].finalizer # "none" /\ mem' = [mem EXCEPT ![g] = m]
      /\ UNCHANGED <<disk, bounds, proc>> /\ proc.up
  BY <1>1 DEF FinalizeCancel, Goto, MemSet, Finalizers
<1> HIDE DEF m
<1>3. ProcTypes' /\ ProcFrame(g)
  BY <1>1, <1>2 DEF ProcTypes, ProcFrame, CaptureInv
<1>4. /\ CursorOK(m, rows[g], proc'.scanner) /\ MemOK(m, rows[g], source[g], manifest[g])
      /\ g \in proc'.verified => VerifiedOK(m, manifest[g])
  BY <1>1, <1>2 DEF CursorOK, MemOK, GameInv, VerifiedOK
<1>5. QED
  BY <1>2, <1>3, <1>4, StepOfMemory

LEMMA FinalizeDoneStep ==
  ASSUME CaptureInv, NEW g \in Games, FinalizeDone(g)
  PROVE  CaptureInv'
<1>1. /\ ProcTypes /\ mem[g] \in MemSet /\ GameInv(g) /\ proc \in ProcSet
      /\ mem \in [Games -> MemSet] /\ UNCHANGED <<disk, bounds>> /\ proc.up /\ proc.at = 0
      /\ mem[g].finalizer # "none"
  BY Facts DEF FinalizeDone
<1>2. CASE mem[g].finalizer = "done"
  <2> DEFINE m == [mem[g] EXCEPT !.finalizer = "none", !.held = FALSE]
  <2>1. /\ m \in MemSet /\ ~m.held /\ m.finalizer = "none" /\ m.cursor = mem[g].cursor
        /\ mem' = [mem EXCEPT ![g] = m]
        /\ proc' = [proc EXCEPT !.verified = @ \cup {g}, !.errors = @ \ {g}]
    BY <1>1, <1>2 DEF FinalizeDone, MemSet, Finalizers
  <2> HIDE DEF m
  <2>2. ProcTypes' /\ ProcFrame(g) /\ proc'.scanner = proc.scanner
    <3>1. /\ proc' \in ProcSet /\ proc'.at = proc.at /\ proc'.scanner = proc.scanner
          /\ proc'.verified = proc.verified \cup {g} /\ proc'.up = proc.up
      BY <1>1, <2>1 DEF ProcSet
    <3>2. QED
      BY <1>1, <3>1 DEF ProcTypes, ProcFrame
  <2>3. /\ CursorOK(m, rows[g], proc'.scanner) /\ MemOK(m, rows[g], source[g], manifest[g])
        /\ VerifiedOK(m, manifest[g])
    BY <1>1, <1>2, <2>1, <2>2 DEF CursorOK, MemOK, GameInv, VerifiedOK
  <2>4. QED
    BY <1>1, <2>1, <2>2, <2>3, StepOfMemory
<1>3. CASE mem[g].finalizer # "done"
  <2> DEFINE m == [mem[g] EXCEPT !.finalizer = "none", !.cursor = 0]
  <2>1. /\ m \in MemSet /\ m.held = mem[g].held /\ m.finalizer = "none" /\ m.cursor = 0
        /\ m.failed = mem[g].failed /\ m.knows = mem[g].knows
        /\ mem' = [mem EXCEPT ![g] = m]
        /\ proc' = IF mem[g].finalizer = "failed"
                     THEN [proc EXCEPT !.errors = @ \cup {g}] ELSE proc
    BY <1>1, <1>3 DEF FinalizeDone, MemSet, Finalizers
  <2> HIDE DEF m
  <2>2. ProcTypes' /\ ProcFrame(g) /\ proc'.scanner = proc.scanner
        /\ proc'.verified = proc.verified
    <3>1. /\ proc' \in ProcSet /\ proc'.at = proc.at /\ proc'.scanner = proc.scanner
          /\ proc'.verified = proc.verified /\ proc'.up = proc.up
      BY <1>1, <2>1 DEF ProcSet
    <3>2. QED
      BY <1>1, <3>1 DEF ProcTypes, ProcFrame
  <2>3. /\ CursorOK(m, rows[g], proc'.scanner) /\ MemOK(m, rows[g], source[g], manifest[g])
        /\ g \notin proc'.verified
    BY <1>1, <1>3, <2>1, <2>2 DEF CursorOK, MemOK, GameInv, VerifiedOK
  <2>4. QED
    BY <1>1, <2>1, <2>2, <2>3, StepOfMemory
<1>4. QED
  BY <1>2, <1>3

(* The manifest is published after the terminal row.                       *)
LEMMA StepOfManifest ==
  ASSUME CaptureInv, NEW g \in Games, NEW m \in MemSet, mem' = [mem EXCEPT ![g] = m],
         UNCHANGED <<source, rows, tail, created, envelope, complete>>,
         bounds' \in BoundsSet, manifest' \in {manifest, [manifest EXCEPT ![g] = TRUE]},
         Sealed(rows[g]), ProcTypes', ProcFrame(g), proc'.verified = proc.verified,
         CursorOK(m, rows[g], proc'.scanner), MemOK(m, rows[g], source[g], manifest'[g]),
         g \notin proc.verified
  PROVE  CaptureInv'
<1>1. /\ DiskTypes /\ mem \in [Games -> MemSet] /\ GameInv(g)
  BY Facts
<1>2. /\ mem' \in [Games -> MemSet] /\ mem'[g] = m
      /\ \A h \in Games \ {g} : mem'[h] = mem[h] /\ manifest'[h] = manifest[h]
      /\ manifest' \in [Games -> BOOLEAN]
  BY <1>1 DEF DiskTypes
<1>3. TypeOK'
  BY <1>1, <1>2, TypesAfter DEF DiskTypes
<1>4. Frame(g)
  BY <1>2 DEF Frame
<1>5. DiskOK(rows[g], source[g], created[g], complete[g], manifest'[g])
  BY <1>1 DEF GameInv, DiskOK
<1>6. GameInv(g)'
  BY <1>2, <1>5 DEF GameInv
<1>7. QED
  BY <1>3, <1>4, <1>6, StepOfGame

LEMMA FinalizePublishStep ==
  ASSUME CaptureInv, NEW g \in Games, FinalizePublish(g)
  PROVE  CaptureInv'
<1>1. /\ ProcTypes /\ mem[g] \in MemSet /\ GameInv(g) /\ bounds \in BoundsSet
      /\ DiskTypes /\ proc.up /\ proc' = proc /\ mem[g].finalizer = "publish"
      /\ UNCHANGED <<source, rows, tail, created, envelope, complete>>
  BY Facts DEF FinalizePublish
<1>2. PICK f \in {"done", "failed"} :
        /\ Goto(g, f) /\ bounds' \in BoundsSet /\ bounds'.games = bounds.games
        /\ manifest' \in {manifest, [manifest EXCEPT ![g] = TRUE]}
        /\ f = "done" => manifest'[g]
  BY <1>1, FaultStep DEF FinalizePublish, DiskTypes
<1> DEFINE m == [mem[g] EXCEPT !.finalizer = f]
<1>3. /\ m \in MemSet /\ m.held = mem[g].held /\ m.finalizer = f /\ m.cursor = mem[g].cursor
      /\ m.failed = mem[g].failed /\ m.knows = mem[g].knows
      /\ mem' = [mem EXCEPT ![g] = m]
  BY <1>1, <1>2 DEF Goto, MemSet, Finalizers
<1> HIDE DEF m
<1>4. ProcTypes' /\ ProcFrame(g) /\ proc'.verified = proc.verified
  BY <1>1, <1>2 DEF ProcTypes, ProcFrame, CaptureInv
<1>5. /\ CursorOK(m, rows[g], proc'.scanner) /\ MemOK(m, rows[g], source[g], manifest'[g])
      /\ Sealed(rows[g]) /\ g \notin proc.verified
  BY <1>1, <1>2, <1>3 DEF CursorOK, MemOK, GameInv, VerifiedOK
<1>6. QED
  BY <1>1, <1>2, <1>3, <1>4, <1>5, StepOfManifest

LEMMA VisitSealedStep ==
  ASSUME CaptureInv, NEW g \in Games, VisitSealed(g)
  PROVE  CaptureInv'
<1>1. /\ ProcTypes /\ mem[g] \in MemSet /\ GameInv(g) /\ bounds \in BoundsSet
      /\ DiskTypes /\ proc \in ProcSet /\ proc.up /\ proc.at = g /\ proc.scanner
      /\ UNCHANGED <<source, rows, tail, created, envelope, complete>>
      /\ Sealed(rows[g]) /\ ~manifest[g] /\ mem[g].finalizer = "none" /\ ~mem[g].held
      /\ mem \in [Games -> MemSet]
  BY Facts DEF VisitSealed, Visits, Running, CaptureInv, Games
<1>2. PICK c \in {0, mem[g].cursor}, errors \in SUBSET (Games \cup {Bridge}) :
        /\ Onward(errors) /\ mem' = [mem EXCEPT ![g] = [mem[g] EXCEPT !.cursor = c]]
        /\ bounds' \in BoundsSet /\ bounds'.games = bounds.games
        /\ manifest' \in {manifest, [manifest EXCEPT ![g] = TRUE]}
  <2>1. /\ proc.errors \in SUBSET (Games \cup {Bridge})
        /\ proc.errors \cup {g} \in SUBSET (Games \cup {Bridge})
    BY <1>1 DEF ProcSet
  <2>2. CASE UNCHANGED <<mem, bounds>> /\ Onward(proc.errors)
             /\ manifest' = [manifest EXCEPT ![g] = TRUE]
    <3>1. [mem[g] EXCEPT !.cursor = mem[g].cursor] = mem[g]
      BY <1>1 DEF MemSet
    <3>2. mem' = [mem EXCEPT ![g] = [mem[g] EXCEPT !.cursor = mem[g].cursor]]
      BY <1>1, <2>2, <3>1
    <3>3. QED
      BY <1>1, <2>1, <2>2, <3>2
  <2>3. CASE /\ MayFail("failed") /\ Faulted /\ Onward(proc.errors \cup {g})
             /\ mem' = [mem EXCEPT ![g].cursor = 0] /\ UNCHANGED manifest
    <3>1. mem' = [mem EXCEPT ![g] = [mem[g] EXCEPT !.cursor = 0]]
      BY <1>1, <2>3
    <3>2. QED
      BY <1>1, <2>1, <2>3, <3>1, FaultStep
  <2>4. QED
    BY <2>2, <2>3 DEF VisitSealed
<1> DEFINE m == [mem[g] EXCEPT !.cursor = c]
<1>3. /\ m \in MemSet /\ m.held = mem[g].held /\ m.finalizer = "none" /\ m.cursor = c
      /\ m.failed = mem[g].failed /\ m.knows = mem[g].knows
      /\ mem' = [mem EXCEPT ![g] = m]
  BY <1>1, <1>2 DEF MemSet
<1> HIDE DEF m
<1>4. /\ ProcTypes' /\ proc'.up = proc.up /\ proc'.scanner = proc.scanner
      /\ proc'.verified = proc.verified
  BY <1>1, <1>2, OnwardStep
<1>5. /\ CursorOK(m, rows[g], proc'.scanner) /\ MemOK(m, rows[g], source[g], manifest'[g])
      /\ g \notin proc.verified /\ ProcFrame(g)
  BY <1>1, <1>2, <1>3, <1>4 DEF CursorOK, MemOK, GameInv, VerifiedOK, ProcFrame
<1>6. QED
  BY <1>1, <1>2, <1>3, <1>4, <1>5, StepOfManifest

LEMMA EngineStep ==
  ASSUME CaptureInv, NEW g \in Games, EngineWrites(g)
  PROVE  CaptureInv'
<1>1. /\ DiskTypes /\ ProcTypes /\ mem \in [Games -> MemSet] /\ bounds \in BoundsSet
      /\ GameInv(g) /\ rows[g] \in Seq(Row) /\ source[g] \in Seq(NativeKinds)
      /\ ~Closed(source[g])
      /\ UNCHANGED <<rows, tail, created, envelope, complete, manifest, proc, mem, bounds>>
  BY Facts DEF EngineWrites, Ended, Closed
<1>2. PICK k \in bounds.recorded : source' = [source EXCEPT ![g] = Append(@, k)]
  BY DEF EngineWrites
<1>3. k \in NativeKinds
  BY <1>1, RecordedAssumption DEF BoundsSet
<1>4. /\ source' \in [Games -> Seq(NativeKinds)] /\ source'[g] = Append(source[g], k)
      /\ \A h \in Games \ {g} : source'[h] = source[h]
  BY <1>1, <1>2, <1>3 DEF DiskTypes
<1>5. TypeOK'
  BY <1>1, <1>4, TypesAfter DEF DiskTypes, ProcTypes
<1>6. Frame(g)
  BY <1>1, <1>4 DEF Frame
<1>7. ~Sealed(rows[g]) /\ ~complete[g] /\ mem[g].finalizer = "none"
  BY <1>1 DEF GameInv, DiskOK, MemOK, Whole, Finished, DiskTypes
<1>8. Imported(rows[g], source'[g])
  BY <1>1, <1>3, <1>4, SourceGrows DEF GameInv, DiskOK
<1>9. /\ DiskOK(rows[g], source'[g], created[g], complete[g], manifest[g])
      /\ MemOK(mem[g], rows[g], source'[g], manifest[g])
  BY <1>1, <1>7, <1>8 DEF GameInv, DiskOK, MemOK
<1>10. GameInv(g)'
  BY <1>1, <1>9 DEF GameInv
<1>11. CASE proc.up
  <2>1. ProcFrame(g)
    BY <1>1, <1>11 DEF ProcFrame, CaptureInv
  <2>2. QED
    BY <1>5, <1>6, <1>10, <2>1, StepOfGame
<1>12. CASE ~proc.up
  <2>1. ASSUME NEW h \in Games \ {g} PROVE GameInv(h)'
    BY <1>1, <1>4 DEF CaptureInv, GameInv
  <2>2. QED
    BY <1>1, <1>5, <1>10, <1>12, <2>1 DEF CaptureInv
<1>13. QED
  BY <1>11, <1>12

-----------------------------------------------------------------------------
(***************************************************************************)
(* The steps that append rows.                                             *)
(***************************************************************************)

(* What an append by a process that goes on has to show.                   *)
LEMMA StepOfAppend ==
  ASSUME CaptureInv, NEW g \in Games, NEW new \in Seq(Row), NEW e, NEW k \in 0..Len(new),
         Wrote(g, new, e, k), UNCHANGED <<source, manifest>>,
         envelope' \in [Games -> SUBSET Callbacks],
         NEW w \in BOOLEAN, complete' = [complete EXCEPT ![g] = w],
         DiskOK(rows'[g], source[g], created'[g], w, manifest[g]),
         NEW m \in MemSet, mem' = [mem EXCEPT ![g] = m], ProcTypes', ProcFrame(g),
         CursorOK(m, rows'[g], proc'.scanner), MemOK(m, rows'[g], source[g], manifest[g]),
         g \in proc'.verified => VerifiedOK(m, manifest[g])
  PROVE  CaptureInv'
<1>1. DiskTypes /\ mem \in [Games -> MemSet]
  BY Facts
<1>2. /\ mem' \in [Games -> MemSet] /\ mem'[g] = m
      /\ complete' \in [Games -> BOOLEAN] /\ complete'[g] = w
      /\ \A h \in Games \ {g} : mem'[h] = mem[h] /\ complete'[h] = complete[h]
  BY <1>1 DEF DiskTypes
<1>3. DiskTypes' /\ bounds' \in BoundsSet
  BY <1>1, <1>2 DEF DiskTypes, Wrote
<1>4. TypeOK'
  BY <1>2, <1>3, TypesAfter
<1>5. Frame(g)
  BY <1>2 DEF Frame, Wrote
<1>6. GameInv(g)'
  BY <1>2 DEF GameInv
<1>7. QED
  BY <1>4, <1>5, <1>6, StepOfGame

(* The same when the process dies while it appends.                        *)
LEMMA DeathInAppend ==
  ASSUME CaptureInv, NEW g \in Games, NEW new \in Seq(Row), NEW e, NEW k \in 0..Len(new),
         Wrote(g, new, e, k), UNCHANGED <<source, manifest>>,
         envelope' \in [Games -> SUBSET Callbacks],
         NEW w \in BOOLEAN, complete' = [complete EXCEPT ![g] = w],
         DiskOK(rows'[g], source[g], created'[g], w, manifest[g]), Gone
  PROVE  CaptureInv'
<1>1. DiskTypes
  BY Facts
<1>2. /\ complete' \in [Games -> BOOLEAN] /\ complete'[g] = w
      /\ \A h \in Games \ {g} : complete'[h] = complete[h]
  BY <1>1 DEF DiskTypes
<1>3. DiskTypes' /\ bounds' \in BoundsSet
  BY <1>1, <1>2 DEF DiskTypes, Wrote
<1>4. ASSUME NEW h \in Games
      PROVE  DiskOK(rows'[h], source'[h], created'[h], complete'[h], manifest'[h])
  <2>1. CASE h = g
    BY <1>2, <2>1
  <2>2. CASE h # g
    <3>1. rows'[h] = rows[h] /\ created'[h] = created[h] /\ complete'[h] = complete[h]
      BY <1>2, <2>2 DEF Wrote
    <3>2. QED
      BY <3>1 DEF CaptureInv, GameInv
  <2>3. QED
    BY <2>1, <2>2
<1>5. QED
  BY <1>3, <1>4, StepOfDeath

(* Rows that neither seal the journal nor come from the engine.            *)
LEMMA OrdinaryRows ==
  ASSUME CaptureInv, NEW g \in Games, NEW new \in Seq(Row), NEW e, NEW k \in 0..Len(new),
         Wrote(g, new, e, k), ~Sealed(rows[g]),
         \A i \in 1..Len(new) : new[i].kind \notin {"native", "terminal"}
  PROVE  /\ DiskOK(rows'[g], source[g], created'[g], complete[g], manifest[g])
         /\ NativeCount(rows'[g]) = NativeCount(rows[g]) /\ ~Sealed(rows'[g])
         /\ ~complete[g] /\ ~manifest[g]
<1>1. /\ Grows(rows[g], rows'[g]) /\ Len(rows'[g]) = Len(rows[g]) + k
      /\ k > 0 \/ created[g] => created'[g]
      /\ \A i \in (Len(rows[g]) + 1)..Len(rows'[g]) :
           rows'[g][i].kind \notin {"native", "terminal"}
  <2>1. \A i \in (Len(rows[g]) + 1)..Len(rows'[g]) :
          i - Len(rows[g]) \in 1..k /\ rows'[g][i] = new[i - Len(rows[g])]
    BY DEF Wrote
  <2>2. 1..k \subseteq 1..Len(new)
    BY LenProperties
  <2>3. QED
    BY <2>1, <2>2 DEF Wrote
<1>2. /\ DiskOK(rows[g], source[g], created[g], complete[g], manifest[g])
      /\ source[g] \in Seq(NativeKinds) /\ rows[g] \in Seq(Row) /\ Len(rows[g]) \in Nat
      /\ complete[g] \in BOOLEAN /\ manifest[g] \in BOOLEAN
  BY Facts DEF GameInv, DiskTypes
<1>3. Imported(rows'[g], source[g]) /\ NativeCount(rows'[g]) = NativeCount(rows[g])
  BY <1>1, <1>2, ImportedStays DEF DiskOK
<1>4. ~Sealed(rows'[g]) /\ NothingAfterTerminalIn(rows'[g])
  BY <1>1, <1>2, UnsealedGrowth DEF DiskOK
<1>5. ~complete[g] /\ ~manifest[g]
  BY <1>2 DEF DiskOK, Finished
<1>6. ~created'[g] => rows'[g] = <<>>
  <2>1. SUFFICES ASSUME ~created'[g] PROVE rows'[g] = <<>>
    OBVIOUS
  <2>2. k = 0 /\ rows[g] = <<>>
    BY <1>1, <1>2, <2>1 DEF DiskOK
  <2>3. Len(rows'[g]) = 0 /\ rows'[g] \in Seq(Row)
    BY <1>1, <2>2 DEF Grows
  <2>4. QED
    BY <2>3, EmptySeq
<1>7. QED
  BY <1>3, <1>4, <1>5, <1>6 DEF DiskOK

(* A process that holds a journal in order knows all of it.                *)
LEMMA KnowsAll ==
  ASSUME CaptureInv, NEW g \in Games, mem[g].held, ~mem[g].failed
  PROVE  mem[g].knows = Len(rows[g]) /\ Known(g) = rows[g]
<1>1. rows[g] \in Seq(Row) /\ mem[g].knows = Len(rows[g])
  BY Facts DEF GameInv, MemOK
<1>2. QED
  BY <1>1 DEF Known

LEMMA ReceiptStep ==
  ASSUME CaptureInv, NEW g \in Games, NEW c \in bounds.callbacks,
         NEW kind \in {"started", "finished"}, Receipt(g, CallbackRow(kind, c))
  PROVE  CaptureInv'
<1> DEFINE r == CallbackRow(kind, c)
           new == <<r>>
<1>1. /\ DiskTypes /\ ProcTypes /\ mem \in [Games -> MemSet] /\ bounds \in BoundsSet
      /\ mem[g] \in MemSet /\ proc \in ProcSet /\ GameInv(g) /\ rows[g] \in Seq(Row)
      /\ Len(rows[g]) \in Nat
  BY Facts
<1>2. c \in Callbacks
  BY <1>1 DEF BoundsSet
<1>3. r \in Row /\ r.kind \in {"started", "finished"}
  BY <1>2, RowTypes DEF CallbackRow, CallbackKinds
<1>4. new \in Seq(Row) /\ Len(new) = 1 /\ \A i \in 1..Len(new) : new[i].kind \notin {"native", "terminal"}
  BY <1>3
<1>5. /\ Running /\ proc.scanner /\ proc.at = 0 /\ mem[g].held /\ ~mem[g].failed
      /\ ~Sealed(Known(g)) /\ mem[g].finalizer = "none"
      /\ UNCHANGED <<source, envelope, complete, manifest>>
  BY DEF Receipt
<1>6. PICK e \in Endings(g, new, bounds.rows) :
        /\ Write(g, new, e)
        /\ IF e.out = "crashed" THEN Gone
           ELSE /\ proc' = IF e.out = "done" THEN proc
                           ELSE [proc EXCEPT !.errors = @ \cup {Bridge}]
                /\ mem' = [mem EXCEPT ![g].knows = @ + e.n, ![g].failed = e.out = "failed"]
  BY DEF Receipt
<1> HIDE DEF new, r
<1>7. PICK k \in 0..Len(new) : Wrote(g, new, e, k)
  BY <1>4, <1>6, WriteStep DEF CaptureInv
<1>8. ~Sealed(rows[g]) /\ mem[g].knows = Len(rows[g])
  BY <1>5, KnowsAll
<1>9. /\ DiskOK(rows'[g], source[g], created'[g], complete[g], manifest[g])
      /\ NativeCount(rows'[g]) = NativeCount(rows[g]) /\ ~Sealed(rows'[g])
  BY <1>4, <1>7, <1>8, OrdinaryRows
<1>10. /\ complete[g] \in BOOLEAN /\ complete' = [complete EXCEPT ![g] = complete[g]]
       /\ envelope' \in [Games -> SUBSET Callbacks]
  BY <1>1, <1>5 DEF DiskTypes
<1>11. CASE e.out = "crashed"
  <2>1. Gone
    BY <1>6, <1>11
  <2>2. QED
    BY <1>4, <1>5, <1>7, <1>9, <1>10, <2>1, DeathInAppend
<1>12. CASE e.out # "crashed"
  <2> DEFINE m == [mem[g] EXCEPT !.knows = @ + e.n, !.failed = e.out = "failed"]
  <2>1. e.n \in 0..Len(new) /\ e.n \in Nat /\ Len(rows'[g]) = Len(rows[g]) + k
        /\ (e.out # "failed" => k = e.n)
    BY <1>4, <1>7, <1>12 DEF Wrote
  <2>2. /\ m \in MemSet /\ m.held = mem[g].held /\ m.finalizer = "none"
        /\ m.cursor = mem[g].cursor /\ m.knows = mem[g].knows + e.n
        /\ (m.failed <=> e.out = "failed") /\ mem' = [mem EXCEPT ![g] = m]
    <3>0. mem[g].knows \in Nat /\ mem[g].knows + e.n \in Nat
      BY <1>1, <2>1 DEF MemSet
    <3>1. PICK f \in BOOLEAN, n \in Nat : f = (e.out = "failed") /\ n = mem[g].knows + e.n
      BY <3>0
    <3>2. m = [mem[g] EXCEPT !.knows = n, !.failed = f]
      BY <3>1
    <3> HIDE DEF m
    <3>3. /\ m \in MemSet /\ m.held = mem[g].held /\ m.finalizer = mem[g].finalizer
          /\ m.cursor = mem[g].cursor /\ m.knows = n /\ m.failed = f
      BY <1>1, <3>2 DEF MemSet
    <3>4. mem' = [mem EXCEPT ![g].knows = @ + e.n, ![g].failed = e.out = "failed"]
      BY <1>6, <1>12
    <3>5. mem' = [mem EXCEPT ![g] = m]
      BY <1>1, <3>4 DEF m
    <3>6. QED
      BY <1>5, <3>1, <3>3, <3>5
  <2>3. proc' = IF e.out = "done" THEN proc ELSE [proc EXCEPT !.errors = @ \cup {Bridge}]
    BY <1>6, <1>12
  <2> HIDE DEF m
  <2>4. /\ proc' \in ProcSet /\ proc'.at = proc.at /\ proc'.up = proc.up
        /\ proc'.scanner = proc.scanner /\ proc'.verified = proc.verified
    BY <1>1, <2>3 DEF ProcSet
  <2>5. ProcTypes' /\ ProcFrame(g)
    BY <1>1, <1>5, <1>7, <2>4 DEF ProcTypes, ProcFrame, Wrote, Running
  <2>6. /\ CursorOK(m, rows'[g], proc'.scanner) /\ MemOK(m, rows'[g], source[g], manifest[g])
        /\ g \notin proc'.verified
    BY <1>1, <1>5, <1>8, <1>9, <2>1, <2>2, <2>4 DEF CursorOK, MemOK, GameInv, VerifiedOK
  <2>7. QED
    BY <1>4, <1>5, <1>7, <1>9, <1>10, <2>2, <2>5, <2>6, StepOfAppend
<1>13. QED
  BY <1>11, <1>12

LEMMA FinalizeRawStep ==
  ASSUME CaptureInv, NEW g \in Games, FinalizeRaw(g)
  PROVE  CaptureInv'
<1>1. /\ DiskTypes /\ ProcTypes /\ mem \in [Games -> MemSet] /\ bounds \in BoundsSet
      /\ mem[g] \in MemSet /\ proc \in ProcSet /\ GameInv(g) /\ rows[g] \in Seq(Row)
      /\ Len(rows[g]) \in Nat /\ proc.up /\ mem[g].finalizer = "raw" /\ mem[g].held
      /\ Whole(rows[g], source[g]) /\ (proc.at > 0 => proc.scanner)
  BY Facts DEF FinalizeRaw, GameInv, MemOK, CaptureInv
<1>2. g \notin proc.verified
  BY <1>1 DEF GameInv, VerifiedOK
<1>3. ASSUME NEW gap \in BOOLEAN, mem' = [mem EXCEPT ![g].finalizer = "seal", ![g].gap = gap],
             UNCHANGED <<disk, proc, bounds>>
      PROVE  CaptureInv'
  <2> DEFINE m == [mem[g] EXCEPT !.finalizer = "seal", !.gap = gap]
  <2>1. /\ m \in MemSet /\ m.held = mem[g].held /\ m.finalizer = "seal" /\ m.grace = mem[g].grace
        /\ m.cursor = mem[g].cursor /\ m.knows = mem[g].knows /\ m.failed = mem[g].failed
        /\ mem' = [mem EXCEPT ![g] = m]
    BY <1>1, <1>3 DEF MemSet, Finalizers
  <2> HIDE DEF m
  <2>2. ProcTypes' /\ ProcFrame(g) /\ g \notin proc'.verified
    BY <1>1, <1>2, <1>3 DEF ProcTypes, ProcFrame
  <2>3. CursorOK(m, rows[g], proc'.scanner) /\ MemOK(m, rows[g], source[g], manifest[g])
    BY <1>1, <1>3, <2>1 DEF CursorOK, MemOK, GameInv
  <2>4. QED
    BY <1>3, <2>1, <2>2, <2>3, StepOfMemory
<1> DEFINE new == <<PlainRow("raw")>>
<1>4. ASSUME ~mem[g].failed, ~Sealed(Known(g)), NEW e \in Endings(g, new, bounds.rows),
             Write(g, new, e), UNCHANGED <<source, complete, manifest>>,
             envelope' = [envelope EXCEPT ![g] =
                            IF rows'[g] = rows[g] THEN @ ELSE Completed(rows[g])],
             IF e.out = "crashed" THEN Gone
             ELSE /\ mem' = [mem EXCEPT ![g].finalizer = "seal",
                               ![g].gap = e.out # "done", ![g].knows = @ + e.n,
                               ![g].failed = e.out = "failed"]
                  /\ UNCHANGED proc,
             e.out # "cancelled"
      PROVE  CaptureInv'
  <2>1. /\ new \in Seq(Row) /\ Len(new) = 1 /\ \A i \in 1..Len(new) : new[i].kind = "raw"
    BY RowTypes DEF PlainRow, PlainKinds
  <2> HIDE DEF new
  <2>2. PICK k \in 0..Len(new) : Wrote(g, new, e, k)
    BY <1>4, <2>1, WriteStep DEF CaptureInv
  <2>3. ~Sealed(rows[g]) /\ mem[g].knows = Len(rows[g])
    BY <1>1, <1>4, KnowsAll
  <2>4. /\ DiskOK(rows'[g], source[g], created'[g], complete[g], manifest[g])
        /\ NativeCount(rows'[g]) = NativeCount(rows[g])
    BY <2>1, <2>2, <2>3, OrdinaryRows
  <2>5. Pending(rows'[g]) = Pending(rows[g])
    <3>1. \A i \in (Len(rows[g]) + 1)..Len(rows'[g]) :
            rows'[g][i].kind \notin {"started", "finished"}
      BY <2>1, <2>2 DEF Wrote
    <3>2. QED
      BY <2>2, <3>1, QuietGrowth DEF Wrote
  <2>6. /\ complete[g] \in BOOLEAN /\ complete' = [complete EXCEPT ![g] = complete[g]]
        /\ envelope' \in [Games -> SUBSET Callbacks]
    BY <1>1, <1>4 DEF DiskTypes, Completed
  <2>7. CASE e.out = "crashed"
    <3>1. Gone
      BY <1>4, <2>7
    <3>2. QED
      BY <1>4, <2>1, <2>2, <2>4, <2>6, <3>1, DeathInAppend
  <2>8. CASE e.out # "crashed"
    <3> DEFINE m == [mem[g] EXCEPT !.finalizer = "seal", !.gap = e.out # "done",
                                   !.knows = @ + e.n, !.failed = e.out = "failed"]
    <3>1. e.n \in Nat /\ Len(rows'[g]) = Len(rows[g]) + k /\ (e.out # "failed" => k = e.n)
      BY <2>1, <2>2, <2>8 DEF Wrote
    <3>2. /\ m \in MemSet /\ m.held = mem[g].held /\ m.finalizer = "seal"
          /\ m.cursor = mem[g].cursor /\ m.knows = mem[g].knows + e.n
          /\ (m.failed <=> e.out = "failed") /\ m.grace = mem[g].grace
          /\ mem' = [mem EXCEPT ![g] = m] /\ proc' = proc
      <4>1. PICK f \in BOOLEAN, gap \in BOOLEAN, n \in Nat :
              f = (e.out = "failed") /\ gap = (e.out # "done") /\ n = mem[g].knows + e.n
        <5>1. mem[g].knows \in Nat /\ mem[g].knows + e.n \in Nat
          BY <1>1, <3>1 DEF MemSet
        <5>2. QED
          BY <5>1
      <4>2. m = [mem[g] EXCEPT !.finalizer = "seal", !.gap = gap, !.knows = n, !.failed = f]
        BY <4>1
      <4> HIDE DEF m
      <4>3. /\ m \in MemSet /\ m.held = mem[g].held /\ m.finalizer = "seal"
            /\ m.cursor = mem[g].cursor /\ m.knows = n /\ m.failed = f
            /\ m.grace = mem[g].grace
        BY <1>1, <4>2 DEF MemSet, Finalizers
      <4>4. /\ mem' = [mem EXCEPT ![g].finalizer = "seal", ![g].gap = e.out # "done",
                                  ![g].knows = @ + e.n, ![g].failed = e.out = "failed"]
            /\ proc' = proc
        BY <1>4, <2>8
      <4>5. mem' = [mem EXCEPT ![g] = m]
        BY <1>1, <4>4 DEF m
      <4>6. QED
        BY <4>1, <4>3, <4>4, <4>5
    <3> HIDE DEF m
    <3>3. ProcTypes' /\ ProcFrame(g) /\ g \notin proc'.verified
      BY <1>1, <1>2, <2>2, <3>2 DEF ProcTypes, ProcFrame, Wrote
    <3>4. /\ CursorOK(m, rows'[g], proc'.scanner)
          /\ MemOK(m, rows'[g], source[g], manifest[g])
      <4>1. CursorOK(m, rows'[g], proc'.scanner)
        BY <1>1, <2>4, <3>2 DEF CursorOK, GameInv
      <4>2. m.held /\ ~m.failed => m.knows = Len(rows'[g])
        BY <2>3, <3>1, <3>2
      <4>3. Pending(rows'[g]) = {} \/ m.grace = "passed"
        BY <1>1, <1>4, <2>5, <3>2 DEF MemOK, GameInv
      <4>4. QED
        BY <1>1, <2>4, <3>2, <4>1, <4>2, <4>3 DEF MemOK, Whole
    <3>5. QED
      BY <1>4, <2>1, <2>2, <2>4, <2>6, <3>2, <3>3, <3>4, StepOfAppend
  <2>9. QED
    BY <2>7, <2>8
<1>5. QED
  BY <1>3, <1>4 DEF FinalizeRaw

LEMMA NothingWritten ==
  ASSUME NEW s, NEW t, Grows(s, t), Len(t) = Len(s)
  PROVE  t = s
<1>1. s \in Seq(Row) /\ t \in Seq(Row) /\ \A i \in 1..Len(s) : t[i] = s[i]
  BY DEF Grows
<1>2. QED
  BY <1>1, SeqEqual

(* The terminal row goes onto a whole journal, and says the journal is     *)
(* complete only when it is.                                               *)
LEMMA TerminalRow ==
  ASSUME CaptureInv, NEW g \in Games, NEW e, NEW k \in 0..1, ~Sealed(rows[g]),
         Whole(rows[g], source[g]), Wrote(g, <<PlainRow("terminal")>>, e, k),
         NEW w \in BOOLEAN, w => rows'[g] # rows[g] /\ NothingMissing(g)
  PROVE  /\ DiskOK(rows'[g], source[g], created'[g], w, manifest[g])
         /\ NativeCount(rows'[g]) = NativeCount(rows[g])
         /\ k = 1 => Sealed(rows'[g])
<1>1. /\ DiskOK(rows[g], source[g], created[g], complete[g], manifest[g])
      /\ source[g] \in Seq(NativeKinds) /\ rows[g] \in Seq(Row) /\ Len(rows[g]) \in Nat
      /\ Len(source[g]) \in Nat /\ manifest[g] \in BOOLEAN
  BY Facts DEF GameInv, DiskTypes
<1>2. /\ Grows(rows[g], rows'[g]) /\ Len(rows'[g]) = Len(rows[g]) + k
      /\ k > 0 \/ created[g] => created'[g]
  BY DEF Wrote
<1>3. CASE k = 0
  <2>1. rows'[g] = rows[g]
    BY <1>1, <1>2, <1>3, NothingWritten
  <2>2. QED
    BY <1>1, <1>2, <1>3, <2>1 DEF DiskOK
<1>4. CASE k = 1
  <2>1. /\ Len(rows'[g]) = Len(rows[g]) + 1 /\ rows'[g][Len(rows'[g])] = PlainRow("terminal")
        /\ \A i \in (Len(rows[g]) + 1)..Len(rows'[g]) : i = Len(rows'[g])
    BY <1>1, <1>2, <1>4 DEF Wrote
  <2>2. /\ rows'[g][Len(rows'[g])].kind = "terminal"
        /\ \A i \in (Len(rows[g]) + 1)..Len(rows'[g]) :
             rows'[g][i].kind \notin {"native", "started", "finished"}
    BY <2>1 DEF PlainRow
  <2>3. Sealed(rows'[g]) /\ NothingAfterTerminalIn(rows'[g])
    BY <1>1, <1>2, <2>1, <2>2, SealGrowth DEF DiskOK
  <2>4. Imported(rows'[g], source[g]) /\ NativeCount(rows'[g]) = NativeCount(rows[g])
    BY <1>1, <1>2, <2>2, ImportedStays DEF DiskOK
  <2>5. Whole(rows'[g], source[g])
    BY <2>4 DEF Whole
  <2>6. ASSUME w
        PROVE  Finished(rows'[g], source[g])
    <3>1. /\ Pending(rows[g]) = {} /\ source[g][Len(source[g])] = "terminal"
      BY <2>6 DEF NothingMissing
    <3>2. ASSUME NEW c \in Callbacks, Has(rows[g], "started", c)
          PROVE  Has(rows[g], "finished", c)
      BY <1>1, <3>1, <3>2 DEF Pending, PendingAt, Has
    <3>3. \A c \in Callbacks : Has(rows'[g], "started", c) => Has(rows'[g], "finished", c)
      BY <1>2, <2>2, <3>2, QuietGrowth
    <3>4. Len(source[g]) \in 1..NativeCount(rows'[g])
      <4>1. Len(source[g]) # 0
        BY <1>1 DEF Whole, Closed
      <4>2. QED
        BY <1>1, <2>5, <4>1 DEF Whole
    <3>5. HasNative(rows'[g], "terminal")
      BY <2>4, <3>1, <3>4 DEF Imported
    <3>6. QED
      BY <2>3, <3>3, <3>5 DEF Finished
  <2>7. created'[g] \/ rows'[g] = <<>>
    BY <1>2, <1>4
  <2>8. QED
    BY <2>3, <2>4, <2>5, <2>6, <2>7, <1>2, <1>4 DEF DiskOK
<1>5. QED
  BY <1>3, <1>4

LEMMA FinalizeSealStep ==
  ASSUME CaptureInv, NEW g \in Games, FinalizeSeal(g)
  PROVE  CaptureInv'
<1>1. /\ DiskTypes /\ ProcTypes /\ mem \in [Games -> MemSet] /\ bounds \in BoundsSet
      /\ mem[g] \in MemSet /\ proc \in ProcSet /\ GameInv(g) /\ rows[g] \in Seq(Row)
      /\ Len(rows[g]) \in Nat /\ proc.up /\ mem[g].finalizer = "seal" /\ mem[g].held
      /\ Whole(rows[g], source[g]) /\ (proc.at > 0 => proc.scanner)
  BY Facts DEF FinalizeSeal, GameInv, MemOK, CaptureInv
<1>2. g \notin proc.verified
  BY <1>1 DEF GameInv, VerifiedOK
<1>3. ASSUME Goto(g, "failed"), UNCHANGED <<disk, proc, bounds>>
      PROVE  CaptureInv'
  <2> DEFINE m == [mem[g] EXCEPT !.finalizer = "failed"]
  <2>1. /\ m \in MemSet /\ m.held = mem[g].held /\ m.finalizer = "failed"
        /\ m.cursor = mem[g].cursor /\ m.knows = mem[g].knows /\ m.failed = mem[g].failed
        /\ mem' = [mem EXCEPT ![g] = m]
    BY <1>1, <1>3 DEF MemSet, Finalizers, Goto
  <2> HIDE DEF m
  <2>2. ProcTypes' /\ ProcFrame(g) /\ g \notin proc'.verified
    BY <1>1, <1>2, <1>3 DEF ProcTypes, ProcFrame
  <2>3. CursorOK(m, rows[g], proc'.scanner) /\ MemOK(m, rows[g], source[g], manifest[g])
    BY <1>1, <1>3, <2>1 DEF CursorOK, MemOK, GameInv
  <2>4. QED
    BY <1>3, <2>1, <2>2, <2>3, StepOfMemory
<1> DEFINE new == <<PlainRow("terminal")>>
<1>4. ASSUME ~mem[g].failed, ~Sealed(Known(g)), NEW e \in Endings(g, new, bounds.rows + 1),
             Write(g, new, e), UNCHANGED <<source, envelope, manifest>>,
             complete' = [complete EXCEPT ![g] = rows'[g] # rows[g] /\ NothingMissing(g)],
             IF e.out = "crashed" THEN Gone
             ELSE /\ mem' = [mem EXCEPT ![g].knows = @ + e.n,
                               ![g].failed = e.out = "failed",
                               ![g].finalizer = IF e.out = "done" THEN "publish"
                                                ELSE "failed"]
                  /\ UNCHANGED proc,
             e.out # "cancelled"
      PROVE  CaptureInv'
  <2>1. new \in Seq(Row) /\ Len(new) = 1
    BY RowTypes DEF PlainKinds
  <2>2. PICK k \in 0..Len(new) : Wrote(g, new, e, k)
    BY <1>4, <2>1, WriteStep DEF CaptureInv
  <2>3. ~Sealed(rows[g]) /\ mem[g].knows = Len(rows[g])
    BY <1>1, <1>4, KnowsAll
  <2>4. PICK w \in BOOLEAN : w = (rows'[g] # rows[g] /\ NothingMissing(g))
    OBVIOUS
  <2>5. k \in 0..1
    BY <2>1
  <2>6. /\ DiskOK(rows'[g], source[g], created'[g], w, manifest[g])
        /\ NativeCount(rows'[g]) = NativeCount(rows[g]) /\ (k = 1 => Sealed(rows'[g]))
    BY <1>1, <2>2, <2>3, <2>4, <2>5, TerminalRow
  <2>7. /\ complete' = [complete EXCEPT ![g] = w] /\ envelope' \in [Games -> SUBSET Callbacks]
    BY <1>1, <1>4, <2>4 DEF DiskTypes
  <2> HIDE DEF new
  <2>8. CASE e.out = "crashed"
    <3>1. Gone
      BY <1>4, <2>8
    <3>2. QED
      BY <1>4, <2>1, <2>2, <2>6, <2>7, <3>1, DeathInAppend
  <2>9. CASE e.out # "crashed"
    <3>1. /\ e.n \in Nat /\ Len(rows'[g]) = Len(rows[g]) + k /\ (e.out # "failed" => k = e.n)
          /\ (e.out = "done" => k = 1)
      BY <2>1, <2>2, <2>9 DEF Wrote
    <3> DEFINE m == [mem[g] EXCEPT !.knows = @ + e.n, !.failed = e.out = "failed",
                       !.finalizer = IF e.out = "done" THEN "publish" ELSE "failed"]
    <3>2. mem[g].knows \in Nat /\ mem[g].knows + e.n \in Nat
      BY <1>1, <3>1 DEF MemSet
    <3>3. PICK f \in BOOLEAN, n \in Nat, step \in {"publish", "failed"} :
            /\ f = (e.out = "failed") /\ n = mem[g].knows + e.n
            /\ step = (IF e.out = "done" THEN "publish" ELSE "failed")
      BY <3>2
    <3>4. m = [mem[g] EXCEPT !.knows = n, !.failed = f, !.finalizer = step]
      BY <3>3
    <3>5. mem' = [mem EXCEPT ![g] = m] /\ proc' = proc
      BY <1>1, <1>4, <2>9
    <3> HIDE DEF m
    <3>6. /\ m \in MemSet /\ m.held = mem[g].held /\ m.finalizer = step
          /\ m.cursor = mem[g].cursor /\ m.knows = n /\ m.failed = f
      BY <1>1, <3>4 DEF MemSet, Finalizers
    <3>7. ProcTypes' /\ ProcFrame(g) /\ g \notin proc'.verified
      BY <1>1, <1>2, <2>2, <3>5 DEF ProcTypes, ProcFrame, Wrote
    <3>8. CursorOK(m, rows'[g], proc'.scanner)
      BY <1>1, <2>6, <3>5, <3>6 DEF CursorOK, GameInv
    <3>9. m.held /\ ~m.failed => m.knows = Len(rows'[g])
      <4>1. ~f => k = e.n
        BY <3>1, <3>3
      <4>2. QED
        BY <2>3, <3>1, <3>3, <3>6, <4>1
    <3>10. step = "publish" => Sealed(rows'[g])
      BY <2>6, <3>1, <3>3
    <3>11. MemOK(m, rows'[g], source[g], manifest[g])
      BY <1>1, <2>6, <3>6, <3>9, <3>10 DEF MemOK, Whole
    <3>12. QED
      BY <1>4, <2>1, <2>2, <2>6, <2>7, <3>5, <3>6, <3>7, <3>8, <3>11, StepOfAppend
  <2>10. QED
    BY <2>8, <2>9
<1>5. QED
  BY <1>3, <1>4 DEF FinalizeSeal

(* The rows of a visit: the cursor of a living scanner says where the      *)
(* engine's next row is, so none is imported twice and none left out.      *)
LEMMA ImportRows ==
  ASSUME CaptureInv, NEW g \in Games, proc.at = g, Importing(g), NEW new \in Seq(Row),
         new = Opening(g) \o Imports(g), NEW e, NEW k \in 0..Len(new), Wrote(g, new, e, k)
  PROVE  /\ DiskOK(rows'[g], source[g], created'[g], complete[g], manifest[g])
         /\ k = Len(new) => NativeCount(rows'[g]) = Len(source[g])
         /\ IF Sealed(rows[g]) THEN k = 0 ELSE ~Sealed(rows'[g])
<1> DEFINE s == rows[g]
           t == rows'[g]
           o == Len(Opening(g))
<1>1. /\ s \in Seq(Row) /\ Len(s) \in Nat /\ source[g] \in Seq(NativeKinds)
      /\ Len(source[g]) \in Nat /\ NativeCount(s) \in Nat /\ o \in Nat
      /\ DiskOK(s, source[g], created[g], complete[g], manifest[g])
      /\ ~manifest[g] /\ Opening(g) \in Seq(Row) /\ Imports(g) \in Seq(Row)
  BY Facts, NewRows DEF GameInv, Importing, CaptureInv
<1>2. NextNative(g) = 1 + NativeCount(s)
  <2>1. CursorOK(mem[g], s, TRUE)
    BY Facts DEF GameInv, CaptureInv, Games, CursorOK
  <2>2. ~created[g] => NativeCount(s) = 0
    BY <1>1, NothingYet DEF DiskOK
  <2>3. QED
    BY <1>1, <2>1, <2>2 DEF NextNative, CursorOK
<1>3. Len(Imports(g)) = Len(source[g]) - NativeCount(s) /\ Len(Imports(g)) \in Nat
  <2>1. NativeCount(s) <= Len(source[g])
    BY <1>1 DEF DiskOK, Imported
  <2>2. Len(Imports(g)) = IF NextNative(g) > Len(source[g]) THEN 0
                          ELSE Len(source[g]) - NextNative(g) + 1
    BY NewRows DEF CaptureInv
  <2>3. QED
    BY <1>1, <1>2, <2>1, <2>2
<1>4. /\ Len(new) = o + Len(Imports(g))
      /\ \A i \in 1..Len(new) : new[i] = IF i <= o THEN Opening(g)[i] ELSE Imports(g)[i - o]
  BY <1>1, ConcatProperties
<1>5. ASSUME NEW i \in 1..Len(new)
      PROVE  /\ i <= o => new[i].kind \in {"manifest", "resume", "context"}
             /\ i > o => /\ new[i].kind = "native"
                         /\ new[i].native = source[g][NativeCount(s) + (i - o)]
  <2>1. CASE i <= o
    <3>1. new[i] = Opening(g)[i] /\ i \in 1..o /\ ~(i > o)
      BY <1>1, <1>4, <2>1
    <3>2. QED
      BY <3>1, NewRows DEF CaptureInv
  <2>2. CASE i > o
    <3>1. new[i] = Imports(g)[i - o] /\ i - o \in 1..Len(Imports(g)) /\ ~(i <= o)
      BY <1>1, <1>3, <1>4, <2>2
    <3>2. /\ Imports(g)[i - o].kind = "native"
          /\ Imports(g)[i - o].native = source[g][NextNative(g) + (i - o) - 1]
      BY <3>1, NewRows DEF CaptureInv
    <3>3. NextNative(g) + (i - o) - 1 = NativeCount(s) + (i - o)
      BY <1>1, <1>2, <2>2
    <3>4. QED
      BY <3>1, <3>2, <3>3
  <2>3. QED
    BY <1>1, <2>1, <2>2
<1>6. /\ Grows(s, t) /\ Len(t) = Len(s) + k /\ (k > 0 \/ created[g] => created'[g])
      /\ \A i \in (Len(s) + 1)..Len(t) : i - Len(s) \in 1..k /\ t[i] = new[i - Len(s)]
      /\ t \in Seq(Row) /\ Len(t) \in Nat
  <2>1. /\ Grows(s, t) /\ Len(t) = Len(s) + k /\ (k > 0 \/ created[g] => created'[g])
        /\ \A i \in (Len(s) + 1)..Len(t) : i - Len(s) \in 1..k /\ t[i] = new[i - Len(s)]
        /\ rows' \in [Games -> Seq(Row)]
    BY Zenon DEF Wrote
  <2>2. t \in Seq(Row) /\ Len(t) \in Nat
    BY <2>1
  <2>3. QED
    BY <2>1, <2>2
<1> HIDE DEF s, t, o
<1>7. CASE Sealed(s)
  <2>1. mem[g].held /\ NativeCount(s) = Len(source[g])
    BY <1>1, <1>7 DEF Importing, DiskOK, Whole, s
  <2>2. o = 0
    BY <2>1, NewRows DEF CaptureInv, o
  <2>3. Len(new) = 0
    BY <1>1, <1>3, <1>4, <2>1, <2>2
  <2>4. k = 0
    BY <2>3
  <2>5. t = s
    BY <1>1, <1>6, <2>4, NothingWritten
  <2>6. DiskOK(t, source[g], created'[g], complete[g], manifest[g])
    BY <1>1, <1>6, <2>5 DEF DiskOK
  <2>7. QED
    BY <1>7, <2>1, <2>4, <2>5, <2>6 DEF s, t
<1>8. CASE ~Sealed(s)
  <2> DEFINE a == IF k <= o THEN Len(t) ELSE Len(s) + o
  <2>1. a \in Len(s)..Len(t) /\ k \in Nat /\ k <= Len(new)
    BY <1>1, <1>6
  <2>2. ASSUME NEW i \in (Len(s) + 1)..a
        PROVE  t[i].kind # "native"
    <3>1. i - Len(s) \in 1..Len(new) /\ i - Len(s) <= o /\ t[i] = new[i - Len(s)]
      BY <1>1, <1>6, <2>1, <2>2
    <3>2. QED
      BY <1>5, <3>1
  <2>3. ASSUME NEW i \in (a + 1)..Len(t)
        PROVE  t[i].kind = "native" /\ t[i].native = source[g][NativeCount(s) + (i - a)]
    <3>1. k > o /\ a = Len(s) + o
      BY <1>1, <1>6, <2>1, <2>3
    <3>2. i - Len(s) \in 1..Len(new) /\ i - Len(s) > o /\ t[i] = new[i - Len(s)]
      <4>1. Len(s) \in Nat /\ Len(new) \in Nat /\ o \in Nat
        BY <1>1
      <4>2. i \in (Len(s) + 1)..Len(t) /\ i > Len(s) + o
        BY <1>6, <2>3, <3>1, <4>1
      <4>3. i - Len(s) \in 1..k /\ t[i] = new[i - Len(s)]
        BY <1>6, <4>2
      <4>4. QED
        BY <2>1, <4>1, <4>2, <4>3
    <3>3. (i - Len(s)) - o = i - a
      BY <1>1, <1>6, <3>1
    <3>4. QED
      BY <1>5, <3>2, <3>3
  <2> DEFINE d == IF k <= o THEN 0 ELSE k - o
  <2>12. Len(t) - a = d
    BY <1>1, <1>6, <2>1
  <2>13. d <= Len(Imports(g)) /\ (k = Len(new) => d = Len(Imports(g))) /\ d \in Nat
    <3>1. PICK n \in Nat : n = Len(Imports(g)) /\ Len(new) = o + n
      BY <1>3, <1>4
    <3>2. k <= o + n /\ o \in Nat
      BY <1>1, <2>1, <3>1
    <3>3. d \in Nat /\ d <= n /\ (k = o + n => d = n)
      BY <2>1, <3>2
    <3>4. QED
      BY <3>1, <3>3
  <2> HIDE DEF a, d
  <2>4. NativeCount(s) + (Len(t) - a) <= Len(source[g])
    BY <1>1, <1>3, <2>12, <2>13
  <2>5. k = Len(new) => NativeCount(s) + (Len(t) - a) = Len(source[g])
    BY <1>1, <1>3, <2>12, <2>13
  <2>6. Imported(t, source[g]) /\ NativeCount(t) = NativeCount(s) + (Len(t) - a)
    <3>1. Imported(s, source[g])
      BY <1>1 DEF DiskOK
    <3>2. NextOnes(s, t, a, source[g])
      BY <2>2, <2>3, <2>4 DEF NextOnes
    <3>3. source[g] \in Seq(NativeKinds) /\ Grows(s, t) /\ a \in Len(s)..Len(t)
      BY <1>1, <1>6, <2>1
    <3>4. QED
      BY ONLY <3>1, <3>2, <3>3, ImportedGrows
  <2>7. ~Sealed(t) /\ NothingAfterTerminalIn(t)
    <3>1. ASSUME NEW i \in (Len(s) + 1)..Len(t)
          PROVE  t[i].kind # "terminal"
      <4>1. i - Len(s) \in 1..k /\ t[i] = new[i - Len(s)]
        BY <1>6
      <4>2. PICK j \in 1..k : j = i - Len(s) /\ t[i] = new[j]
        BY <4>1
      <4>3. j \in 1..Len(new) /\ (j <= o \/ j > o)
        BY <1>1, <2>1
      <4>4. QED
        BY <1>5, <4>2, <4>3
    <3>2. QED
      BY <1>1, <1>6, <1>8, <3>1, UnsealedGrowth DEF DiskOK
  <2>8. ~complete[g]
    BY <1>1, <1>8 DEF DiskOK, Finished
  <2>9. ~created'[g] => t = <<>>
    <3>1. SUFFICES ASSUME ~created'[g] PROVE t = <<>>
      OBVIOUS
    <3>2. k = 0 /\ s = <<>>
      BY <1>1, <1>6, <2>1, <3>1 DEF DiskOK
    <3>3. Len(t) = 0
      BY <1>6, <3>2
    <3>4. QED
      BY <1>6, <3>3, EmptySeq
  <2>10. DiskOK(t, source[g], created'[g], complete[g], manifest[g])
    BY <1>1, <2>6, <2>7, <2>8, <2>9 DEF DiskOK
  <2>11. QED
    BY <1>8, <2>5, <2>6, <2>7, <2>10 DEF s, t
<1>9. QED
  BY <1>7, <1>8

LEMMA VisitImportStep ==
  ASSUME CaptureInv, NEW g \in Games, VisitImport(g)
  PROVE  CaptureInv'
<1>1. /\ DiskTypes /\ ProcTypes /\ mem \in [Games -> MemSet] /\ bounds \in BoundsSet
      /\ mem[g] \in MemSet /\ proc \in ProcSet /\ GameInv(g) /\ rows[g] \in Seq(Row)
      /\ Len(rows[g]) \in Nat /\ Len(source[g]) \in Nat /\ mem[g].knows \in Nat
      /\ source[g] \in Seq(NativeKinds)
  BY Facts DEF MemSet
<1>2. /\ Importing(g) /\ proc.at = g /\ proc.up /\ mem[g].finalizer = "none" /\ ~manifest[g]
      /\ UNCHANGED <<source, envelope, complete, manifest>> /\ proc.scanner
      /\ source[g] # <<>> /\ proc.errors \in SUBSET (Games \cup {Bridge}) /\ proc.at > 0
  BY <1>1 DEF VisitImport, Importing, Visits, Running, CaptureInv, Games, ProcSet
<1>3. g \notin proc.verified
  BY <1>1, <1>2 DEF GameInv, VerifiedOK
<1> DEFINE o == Len(Opening(g))
           new == Opening(g) \o Imports(g)
           opened(e) == mem[g].held \/ e.n >= o
           knows(e) == IF mem[g].held THEN mem[g].knows + e.n ELSE Len(rows[g]) + e.n
           after(e) == [mem[g] EXCEPT !.held = opened(e),
                          !.failed = @ \/ (opened(e) /\ e.out = "failed"),
                          !.knows = IF opened(e) THEN knows(e) ELSE 0,
                          !.cursor = IF e.out = "done" THEN Len(source[g]) ELSE 0]
<1>4. PICK e \in Endings(g, new, bounds.rows) :
        /\ Write(g, new, e)
        /\ CASE e.out = "crashed"   -> Gone
             [] e.out = "cancelled" -> /\ proc' = [proc EXCEPT !.stop = TRUE, !.at = 0]
                                       /\ mem' = [mem EXCEPT ![g] = after(e)]
             [] e.out = "done"      -> /\ Onward(IF Ended(g) THEN proc.errors
                                                ELSE proc.errors \ {g})
                                       /\ mem' = [mem EXCEPT ![g] = Settled(g, after(e))]
             [] OTHER               -> /\ Onward(proc.errors \cup {g})
                                       /\ mem' = [mem EXCEPT ![g] = after(e)]
  BY DEF VisitImport
<1> DEFINE m == after(e)
<1>5. new \in Seq(Row) /\ o \in Nat /\ o <= Len(new)
  <2>1. Opening(g) \in Seq(Row) /\ Imports(g) \in Seq(Row) /\ new \in Seq(Row)
    BY NewRows DEF CaptureInv
  <2>2. Len(new) = o + Len(Imports(g)) /\ o \in Nat /\ Len(Imports(g)) \in Nat
    BY <2>1, ConcatProperties
  <2>3. QED
    BY <2>1, <2>2
<1>6. PICK k \in 0..Len(new) : Wrote(g, new, e, k)
  <2>1. new \in Seq(Row) /\ Write(g, new, e) /\ TypeOK
    BY <1>4, <1>5 DEF CaptureInv
  <2> HIDE DEF new
  <2>2. QED
    BY <2>1, WriteStep
<1>7. /\ e.out \in {"done", "refused", "missed", "failed", "cancelled", "crashed"} /\ e.n \in Nat
      /\ Len(rows'[g]) = Len(rows[g]) + k /\ rows'[g] \in Seq(Row) /\ k \in Nat
      /\ e.out \notin {"failed", "crashed"} => k = e.n
      /\ e.out = "done" => k = Len(new)
      /\ bounds'.games = bounds.games /\ bounds' \in BoundsSet
  <2>1. Wrote(g, new, e, k)
    BY <1>6
  <2> HIDE DEF new
  <2>2. QED
    BY <1>5, <2>1 DEF Wrote, Grows
<1>8. /\ DiskOK(rows'[g], source[g], created'[g], complete[g], manifest[g])
      /\ k = Len(new) => NativeCount(rows'[g]) = Len(source[g])
  <2>1. new = Opening(g) \o Imports(g) /\ new \in Seq(Row)
    BY <1>5
  <2> HIDE DEF new
  <2>2. QED
    BY <1>2, <1>6, <2>1, ImportRows
<1> HIDE DEF new, o
<1>9. /\ complete[g] \in BOOLEAN /\ complete' = [complete EXCEPT ![g] = complete[g]]
      /\ envelope' \in [Games -> SUBSET Callbacks]
  BY <1>1, <1>2 DEF DiskTypes
<1>10. /\ m \in MemSet /\ m.held = opened(e) /\ m.finalizer = "none"
       /\ m.grace = mem[g].grace
       /\ (m.failed <=> mem[g].failed \/ (opened(e) /\ e.out = "failed"))
       /\ m.knows = (IF opened(e) THEN knows(e) ELSE 0)
       /\ m.cursor = (IF e.out = "done" THEN Len(source[g]) ELSE 0)
  <2>1. knows(e) \in Nat
    <3>1. mem[g].knows + e.n \in Nat /\ Len(rows[g]) + e.n \in Nat
      BY <1>1, <1>7
    <3>2. QED
      BY <3>1
  <2>2. opened(e) \in BOOLEAN
    BY <1>1 DEF MemSet
  <2> HIDE DEF knows
  <2>3. PICK h \in BOOLEAN, f \in BOOLEAN :
          /\ h = opened(e) /\ f = (mem[g].failed \/ (opened(e) /\ e.out = "failed"))
    BY <2>2
  <2>4. PICK n \in Nat, c \in Nat : /\ n = (IF opened(e) THEN knows(e) ELSE 0)
                                    /\ c = (IF e.out = "done" THEN Len(source[g]) ELSE 0)
    BY <1>1, <2>1
  <2>5. m = [mem[g] EXCEPT !.held = h, !.failed = f, !.knows = n, !.cursor = c]
    BY <2>3, <2>4
  <2> HIDE DEF opened, m
  <2>6. /\ m \in MemSet /\ m.held = h /\ m.finalizer = mem[g].finalizer
        /\ m.grace = mem[g].grace /\ m.failed = f /\ m.knows = n /\ m.cursor = c
    BY <1>1, <2>5 DEF MemSet
  <2>7. QED
    BY <1>2, <2>3, <2>4, <2>6
<1> HIDE DEF m
<1>11. e.out # "crashed" /\ m.held /\ ~m.failed => m.knows = Len(rows'[g])
  <2>1. SUFFICES ASSUME e.out # "crashed", m.held, ~m.failed
                 PROVE  m.knows = Len(rows'[g])
    OBVIOUS
  <2>2. opened(e) /\ e.out # "failed" /\ ~mem[g].failed
    BY <1>10, <2>1
  <2>3. mem[g].held => mem[g].knows = Len(rows[g])
    BY <1>1, <2>2 DEF GameInv, MemOK
  <2>4. QED
    BY <1>7, <1>10, <2>1, <2>2, <2>3
<1>12. CursorOK(m, rows'[g], TRUE)
  BY <1>7, <1>8, <1>10 DEF CursorOK
<1>13. CASE e.out = "crashed"
  <2>1. Gone
    BY <1>4, <1>13
  <2>2. QED
    BY <1>2, <1>5, <1>6, <1>8, <1>9, <2>1, DeathInAppend
<1>14. ASSUME e.out # "crashed"
       PROVE  MemOK(m, rows'[g], source[g], manifest[g])
  BY <1>10, <1>11, <1>14 DEF MemOK
<1>15. CASE e.out = "cancelled"
  <2>1. mem' = [mem EXCEPT ![g] = m] /\ proc' = [proc EXCEPT !.stop = TRUE, !.at = 0]
    BY <1>4, <1>15 DEF m
  <2>2. /\ proc' \in ProcSet /\ proc'.at = 0 /\ proc'.up = proc.up
        /\ proc'.scanner = proc.scanner /\ proc'.verified = proc.verified
    <3>1. 0 \in 0..NumGames
      BY BoundsAssumption
    <3>2. QED
      BY <1>1, <2>1, <3>1 DEF ProcSet
  <2>3. bounds'.games \in Nat
    BY <1>7, BoundsAssumption DEF BoundsSet
  <2>4. ProcTypes' /\ ProcFrame(g) /\ g \notin proc'.verified
    BY <1>2, <1>3, <2>2, <2>3 DEF ProcTypes, ProcFrame
  <2>5. CursorOK(m, rows'[g], proc'.scanner) /\ MemOK(m, rows'[g], source[g], manifest[g])
    BY <1>2, <1>12, <1>14, <1>15, <2>2
  <2>6. QED
    BY <1>2, <1>5, <1>6, <1>8, <1>9, <1>10, <2>1, <2>4, <2>5, StepOfAppend
<1>16. CASE e.out = "done"
  <2> DEFINE errors == IF Ended(g) THEN proc.errors ELSE proc.errors \ {g}
             s == Settled(g, m)
  <2>1. mem' = [mem EXCEPT ![g] = s] /\ Onward(errors)
    BY <1>4, <1>16 DEF m
  <2>2. errors \in SUBSET (Games \cup {Bridge})
    BY <1>2
  <2> HIDE DEF errors
  <2>3. /\ ProcTypes' /\ proc'.up = proc.up /\ proc'.scanner = proc.scanner
        /\ proc'.verified = proc.verified
    BY <1>1, <1>7, <2>1, <2>2, OnwardStep
  <2>4. ProcFrame(g) /\ g \notin proc'.verified
    BY <1>2, <1>3, <2>3 DEF ProcFrame
  <2>5. m.held /\ NativeCount(rows'[g]) = Len(source[g])
    <3>1. e.n >= o
      BY <1>5, <1>7, <1>16
    <3>2. QED
      BY <1>7, <1>8, <1>10, <1>16, <3>1
  <2>6. PICK f \in {"none", "raw"}, grace \in {"unset", "running", "passed"} :
          /\ s = [m EXCEPT !.finalizer = f, !.grace = grace]
          /\ f = "raw" => /\ Ended(g)
                          /\ \/ Pending(SubSeq(rows'[g], 1, m.knows)) = {}
                             \/ grace = "passed"
    <3>1. CASE ~Ended(g)
      <4>1. s = m
        BY <3>1 DEF Settled
      <4>2. m = [m EXCEPT !.finalizer = "none", !.grace = m.grace]
            /\ m.grace \in {"unset", "running", "passed"}
        BY <1>10 DEF MemSet
      <4>3. QED
        BY <4>1, <4>2
    <3>2. CASE Ended(g)
      <4> DEFINE pending == Pending(SubSeq(rows'[g], 1, m.knows))
                 free == \A h \in Games : mem[h].finalizer = "none"
                 f == IF free /\ ~Waiting(pending, m.grace) THEN "raw" ELSE "none"
                 grace == IF m.grace = "unset" THEN "running" ELSE m.grace
      <4>1. s = [m EXCEPT !.grace = grace, !.finalizer = f]
        BY <1>10, <3>2 DEF Settled
      <4>2. [m EXCEPT !.grace = grace, !.finalizer = f] =
            [m EXCEPT !.finalizer = f, !.grace = grace]
        BY <1>10 DEF MemSet
      <4>3. f \in {"none", "raw"} /\ grace \in {"unset", "running", "passed"}
        BY <1>10 DEF MemSet
      <4>4. f = "raw" => pending = {} \/ grace = "passed"
        BY DEF Waiting
      <4> HIDE DEF f, grace
      <4>5. QED
        BY <3>2, <4>1, <4>2, <4>3, <4>4
    <3>3. QED
      BY <3>1, <3>2
  <2> HIDE DEF s
  <2>7. /\ s \in MemSet /\ s.held = m.held /\ s.failed = m.failed /\ s.knows = m.knows
        /\ s.cursor = m.cursor /\ s.finalizer = f /\ s.grace = grace
    BY <1>10, <2>6 DEF MemSet, Finalizers
  <2>8. CursorOK(s, rows'[g], proc'.scanner)
    BY <1>12, <2>7 DEF CursorOK
  <2>9. ~m.failed => SubSeq(rows'[g], 1, m.knows) = rows'[g]
    BY <1>7, <1>11, <1>16, <2>5
  <2>10. f = "raw" => Whole(rows'[g], source[g])
    BY <2>5, <2>6 DEF Whole, Closed, Ended
  <2>11. f = "raw" /\ ~m.failed => Pending(rows'[g]) = {} \/ grace = "passed"
    BY <2>6, <2>9
  <2>12. s.held /\ ~s.failed => s.knows = Len(rows'[g])
    BY <1>11, <1>16, <2>7
  <2>13. MemOK(s, rows'[g], source[g], manifest[g])
    BY <2>5, <2>6, <2>7, <2>10, <2>11, <2>12 DEF MemOK
  <2>14. QED
    BY <1>2, <1>5, <1>6, <1>8, <1>9, <2>1, <2>3, <2>4, <2>7, <2>8, <2>13, StepOfAppend
<1>17. CASE e.out \in {"refused", "missed", "failed"}
  <2> DEFINE errors == proc.errors \cup {g}
  <2>1. mem' = [mem EXCEPT ![g] = m] /\ Onward(errors)
    BY <1>4, <1>17 DEF m
  <2>2. errors \in SUBSET (Games \cup {Bridge})
    BY <1>2
  <2> HIDE DEF errors
  <2>3. /\ ProcTypes' /\ proc'.up = proc.up /\ proc'.scanner = proc.scanner
        /\ proc'.verified = proc.verified
    BY <1>1, <1>7, <2>1, <2>2, OnwardStep
  <2>4. ProcFrame(g) /\ g \notin proc'.verified
    BY <1>2, <1>3, <2>3 DEF ProcFrame
  <2>5. CursorOK(m, rows'[g], proc'.scanner) /\ MemOK(m, rows'[g], source[g], manifest[g])
    BY <1>2, <1>12, <1>14, <1>17, <2>3
  <2>6. QED
    BY <1>2, <1>5, <1>6, <1>8, <1>9, <1>10, <2>1, <2>3, <2>4, <2>5, StepOfAppend
<1>18. QED
  BY <1>7, <1>13, <1>15, <1>16, <1>17

-----------------------------------------------------------------------------
(***************************************************************************)
(* The invariant, and what it says.                                        *)
(***************************************************************************)
LEMMA CaptureStep == CaptureInv /\ [Next]_vars => CaptureInv'
<1> SUFFICES ASSUME CaptureInv, [Next]_vars PROVE CaptureInv'
  OBVIOUS
<1>1. ASSUME NEW g \in Games, Visit(g) PROVE CaptureInv'
  BY <1>1, VisitNothingStep, VisitPublishedStep, VisitSealedStep, VisitEmptyStep,
     VisitRefusedStep, VisitImportStep DEF Visit
<1>2. ASSUME NEW g \in Games, Finalize(g) PROVE CaptureInv'
  BY <1>2, FinalizeRawStep, FinalizeSealStep, FinalizePublishStep, FinalizeCancelStep
     DEF Finalize
<1>3. ASSUME NEW g \in Games, FinalizeDone(g) \/ EngineWrites(g) \/ GracePasses(g)
      PROVE  CaptureInv'
  BY <1>3, FinalizeDoneStep, EngineStep, GraceStep
<1>4. ASSUME NEW g \in Games, NEW c \in bounds.callbacks, NEW k \in {"started", "finished"},
             Receipt(g, CallbackRow(k, c))
      PROVE  CaptureInv'
  BY <1>4, ReceiptStep
<1>5. CASE ScanStarts \/ ScanStops \/ RequestStop \/ Boot
  BY <1>5, ProcessSteps
<1>6. CASE Shutdown \/ Crash
  BY <1>6, DeathSteps
<1>7. CASE UNCHANGED vars
  BY <1>7 DEF CaptureInv, TypeOK, GameInv, vars
<1>8. QED
  BY <1>1, <1>2, <1>3, <1>4, <1>5, <1>6, <1>7 DEF Next

LEMMA CaptureIsSound == Spec => []CaptureInv
<1>1. Init => CaptureInv
  BY InitInv
<1>2. CaptureInv /\ [Next]_vars => CaptureInv'
  BY CaptureStep
<1>3. QED
  BY <1>1, <1>2, PTL DEF Spec

(* Every variable keeps its type: in particular a scan never runs past the *)
(* last game.                                                              *)
THEOREM TypeCorrect == Spec => []TypeOK
<1>1. CaptureInv => TypeOK
  BY DEF CaptureInv
<1>2. QED
  BY <1>1, CaptureIsSound, PTL

(* Every journal holds what the engine wrote, in its order and each row    *)
(* once; all of it once it is sealed; it is called complete only when it   *)
(* is; and a recorder that reports nothing pending has published it all.   *)
(* (scan, cursors, _finish_game, operational_metrics)                      *)
THEOREM JournalsFaithful == Spec => []JournalsAreFaithful
<1>1. ASSUME CaptureInv PROVE ImportIsFaithful
  BY <1>1 DEF CaptureInv, GameInv, DiskOK, Imported, ImportIsFaithful
<1>2. ASSUME CaptureInv PROVE SealedIsWhole
  <2>1. ASSUME NEW g \in Games, Sealed(rows[g])
        PROVE  /\ Ended(g) /\ NativeCount(rows[g]) = Len(source[g])
               /\ complete[g] => /\ HasNative(rows[g], "terminal")
                                 /\ \A c \in Callbacks :
                                      Has(rows[g], "started", c) => Has(rows[g], "finished", c)
    <3>1. DiskOK(rows[g], source[g], created[g], complete[g], manifest[g])
      BY <1>2 DEF CaptureInv, GameInv
    <3>2. QED
      BY <2>1, <3>1 DEF DiskOK, Whole, Closed, Ended, Finished
  <2>2. QED
    BY <2>1 DEF SealedIsWhole
<1>3. ASSUME CaptureInv PROVE DrainedIsPublished
  <2>1. ASSUME proc.up, PendingRecordWrites = {}, NEW g \in Games, source[g] # <<>>
        PROVE  manifest[g] /\ Sealed(rows[g]) /\ ~mem[g].held /\ mem[g].finalizer = "none"
    <3>1. g \in proc.verified
      BY <2>1 DEF PendingRecordWrites
    <3>2. GameInv(g)
      BY <1>3 DEF CaptureInv
    <3>3. QED
      BY <3>1, <3>2 DEF GameInv, VerifiedOK, DiskOK
  <2>2. QED
    BY <2>1 DEF DrainedIsPublished
<1>4. CaptureInv => JournalsAreFaithful
  BY <1>1, <1>2, <1>3 DEF JournalsAreFaithful
<1>5. QED
  BY <1>4, CaptureIsSound, PTL

-----------------------------------------------------------------------------
(***************************************************************************)
(* Each journal is a sealed log, sealed only after the grace of the        *)
(* choices that are pending in it.                                         *)
(***************************************************************************)
Change(g) ==
  \/ rows'[g] = rows[g] /\ manifest'[g] = manifest[g]
  \/ rows'[g] = rows[g] /\ Sealed(rows[g]) /\ ~manifest[g] /\ manifest'[g] = TRUE
  \/ /\ ~Sealed(rows[g]) /\ manifest'[g] = manifest[g]
     /\ Grows(rows[g], rows'[g]) /\ Len(rows[g]) < Len(rows'[g])
     /\ Sealed(rows'[g]) => Pending(rows[g]) = {} \/ mem[g].grace = "passed"

LEMMA ChangeByAppend ==
  ASSUME CaptureInv, NEW g \in Games, NEW new \in Seq(Row), NEW e, NEW k \in 0..Len(new),
         Wrote(g, new, e, k), manifest' = manifest, Sealed(rows[g]) => k = 0,
         Sealed(rows'[g]) =>
           Sealed(rows[g]) \/ Pending(rows[g]) = {} \/ mem[g].grace = "passed"
  PROVE  \A h \in Games : Change(h)
<1>1. /\ Len(rows[g]) \in Nat /\ Grows(rows[g], rows'[g]) /\ k \in Nat
      /\ Len(rows'[g]) = Len(rows[g]) + k
  BY Facts DEF Wrote
<1>2. \A h \in Games \ {g} : Change(h)
  BY DEF Wrote, Change
<1>3. CASE k = 0
  <2>1. rows'[g] = rows[g]
    BY <1>1, <1>3, NothingWritten
  <2>2. QED
    BY <1>2, <2>1 DEF Change
<1>4. CASE k # 0
  <2>1. Len(rows[g]) < Len(rows'[g]) /\ ~Sealed(rows[g])
    BY <1>1, <1>4
  <2>2. QED
    BY <1>1, <1>2, <2>1 DEF Change
<1>5. QED
  BY <1>3, <1>4

LEMMA ReceiptChange ==
  ASSUME CaptureInv, NEW g \in Games, NEW c \in bounds.callbacks,
         NEW kind \in {"started", "finished"}, Receipt(g, CallbackRow(kind, c))
  PROVE  \A h \in Games : Change(h)
<1> DEFINE r == CallbackRow(kind, c)
           new == <<r>>
<1>1. c \in Callbacks
  BY Facts DEF BoundsSet
<1>2. r \in Row /\ r.kind \in {"started", "finished"}
  BY <1>1, RowTypes DEF CallbackRow, CallbackKinds
<1>3. /\ new \in Seq(Row)
      /\ \A i \in 1..Len(new) : new[i].kind \notin {"native", "terminal"}
  BY <1>2
<1>4. mem[g].held /\ ~mem[g].failed /\ ~Sealed(Known(g)) /\ manifest' = manifest
  BY DEF Receipt
<1>5. PICK e \in Endings(g, new, bounds.rows) : Write(g, new, e)
  BY DEF Receipt
<1> HIDE DEF new, r
<1>6. PICK k \in 0..Len(new) : Wrote(g, new, e, k)
  BY <1>3, <1>5, WriteStep DEF CaptureInv
<1>7. ~Sealed(rows[g])
  BY <1>4, KnowsAll
<1>8. ~Sealed(rows'[g])
  BY <1>3, <1>6, <1>7, OrdinaryRows
<1>9. QED
  BY <1>3, <1>4, <1>6, <1>7, <1>8, ChangeByAppend

LEMMA RawChange ==
  ASSUME CaptureInv, NEW g \in Games, FinalizeRaw(g)
  PROVE  \A h \in Games : Change(h)
<1> DEFINE new == <<PlainRow("raw")>>
<1>1. CASE UNCHANGED disk
  BY <1>1 DEF disk, Change
<1>2. ASSUME ~mem[g].failed, ~Sealed(Known(g)), NEW e \in Endings(g, new, bounds.rows),
             Write(g, new, e), manifest' = manifest
      PROVE  \A h \in Games : Change(h)
  <2>1. /\ new \in Seq(Row)
        /\ \A i \in 1..Len(new) : new[i].kind \notin {"native", "terminal"}
    BY RowTypes DEF PlainRow, PlainKinds
  <2>2. mem[g].held
    BY Facts DEF FinalizeRaw, GameInv, MemOK
  <2> HIDE DEF new
  <2>3. PICK k \in 0..Len(new) : Wrote(g, new, e, k)
    BY <1>2, <2>1, WriteStep DEF CaptureInv
  <2>4. ~Sealed(rows[g])
    BY <1>2, <2>2, KnowsAll
  <2>5. ~Sealed(rows'[g])
    BY <2>1, <2>3, <2>4, OrdinaryRows
  <2>6. QED
    BY <1>2, <2>1, <2>3, <2>4, <2>5, ChangeByAppend
<1>3. QED
  BY <1>1, <1>2 DEF FinalizeRaw

LEMMA SealChange ==
  ASSUME CaptureInv, NEW g \in Games, FinalizeSeal(g)
  PROVE  \A h \in Games : Change(h)
<1> DEFINE new == <<PlainRow("terminal")>>
<1>1. CASE UNCHANGED disk
  BY <1>1 DEF disk, Change
<1>2. ASSUME ~mem[g].failed, ~Sealed(Known(g)), NEW e \in Endings(g, new, bounds.rows + 1),
             Write(g, new, e), manifest' = manifest
      PROVE  \A h \in Games : Change(h)
  <2>1. new \in Seq(Row)
    BY RowTypes DEF PlainKinds
  <2>2. mem[g].held /\ (Pending(rows[g]) = {} \/ mem[g].grace = "passed")
    BY <1>2, Facts DEF FinalizeSeal, GameInv, MemOK
  <2> HIDE DEF new
  <2>3. PICK k \in 0..Len(new) : Wrote(g, new, e, k)
    BY <1>2, <2>1, WriteStep DEF CaptureInv
  <2>4. ~Sealed(rows[g])
    BY <1>2, <2>2, KnowsAll
  <2>5. QED
    BY <1>2, <2>1, <2>2, <2>3, <2>4, ChangeByAppend
<1>3. QED
  BY <1>1, <1>2 DEF FinalizeSeal

LEMMA ImportChange ==
  ASSUME CaptureInv, NEW g \in Games, VisitImport(g)
  PROVE  \A h \in Games : Change(h)
<1>1. Importing(g) /\ proc.at = g /\ manifest' = manifest
  BY DEF VisitImport, Importing, Visits
<1>2. PICK new : new = Opening(g) \o Imports(g)
  OBVIOUS
<1>3. PICK e \in Endings(g, new, bounds.rows) : Write(g, new, e)
  BY <1>2 DEF VisitImport
<1>4. new \in Seq(Row)
  BY <1>2, NewRows DEF CaptureInv
<1>5. PICK k \in 0..Len(new) : Wrote(g, new, e, k)
  BY <1>3, <1>4, WriteStep DEF CaptureInv
<1>6. IF Sealed(rows[g]) THEN k = 0 ELSE ~Sealed(rows'[g])
  BY <1>1, <1>2, <1>4, <1>5, ImportRows
<1>7. QED
  BY <1>1, <1>4, <1>5, <1>6, ChangeByAppend

LEMMA ChangeStep == CaptureInv /\ [Next]_vars => \A h \in Games : Change(h)
<1> SUFFICES ASSUME CaptureInv, [Next]_vars PROVE \A h \in Games : Change(h)
  OBVIOUS
<1>1. ASSUME UNCHANGED <<rows, manifest>> PROVE \A h \in Games : Change(h)
  BY <1>1 DEF Change
<1>2. ASSUME NEW g \in Games, Visit(g) PROVE \A h \in Games : Change(h)
  <2>1. CASE VisitNothing(g) \/ VisitPublished(g) \/ VisitEmpty(g) \/ VisitRefused(g)
    BY <1>1, <2>1 DEF VisitNothing, VisitPublished, VisitEmpty, VisitRefused, disk
  <2>2. CASE VisitSealed(g)
    BY <2>2, Facts DEF VisitSealed, Change, DiskTypes
  <2>3. QED
    BY <1>2, <2>1, <2>2, ImportChange DEF Visit
<1>3. ASSUME NEW g \in Games, Finalize(g) PROVE \A h \in Games : Change(h)
  <2>1. CASE FinalizePublish(g)
    <3>1. Sealed(rows[g]) /\ manifest \in [Games -> BOOLEAN] /\ rows' = rows
      BY <2>1, Facts DEF FinalizePublish, GameInv, MemOK, DiskTypes
    <3>2. manifest' = manifest \/ manifest' = [manifest EXCEPT ![g] = TRUE]
      BY <2>1 DEF FinalizePublish
    <3>3. QED
      BY <3>1, <3>2 DEF Change
  <2>2. CASE FinalizeCancel(g)
    BY <1>1, <2>2 DEF FinalizeCancel, disk
  <2>3. QED
    BY <1>3, <2>1, <2>2, RawChange, SealChange DEF Finalize
<1>4. ASSUME NEW g \in Games, FinalizeDone(g) \/ EngineWrites(g) \/ GracePasses(g)
      PROVE  \A h \in Games : Change(h)
  BY <1>1, <1>4 DEF FinalizeDone, EngineWrites, GracePasses, disk
<1>5. ASSUME NEW g \in Games, NEW c \in bounds.callbacks, NEW k \in {"started", "finished"},
             Receipt(g, CallbackRow(k, c))
      PROVE  \A h \in Games : Change(h)
  BY <1>5, ReceiptChange
<1>6. CASE ScanStarts \/ ScanStops \/ RequestStop \/ Boot \/ Shutdown \/ Crash
  BY <1>1, <1>6 DEF ScanStarts, ScanStops, RequestStop, Boot, Shutdown, Crash, disk
<1>7. CASE UNCHANGED vars
  BY <1>1, <1>7 DEF vars
<1>8. QED
  BY <1>2, <1>3, <1>4, <1>5, <1>6, <1>7 DEF Next

LEMMA ChangeIsLogStep ==
  ASSUME NEW g \in Games, Change(g), NothingAfterTerminalIn(rows'[g])
  PROVE  Log(g)!LogNext \/ UNCHANGED <<rows[g], manifest[g]>>
<1>1. CASE rows'[g] = rows[g] /\ manifest'[g] = manifest[g]
  BY <1>1
<1>2. CASE rows'[g] = rows[g] /\ Sealed(rows[g]) /\ ~manifest[g] /\ manifest'[g] = TRUE
  BY <1>2 DEF Log!LogNext, Log!Publish, Log!Sealed, Sealed
<1>3. CASE /\ ~Sealed(rows[g]) /\ manifest'[g] = manifest[g]
           /\ Grows(rows[g], rows'[g]) /\ Len(rows[g]) < Len(rows'[g])
  <2>1. rows[g] = SubSeq(rows'[g], 1, Len(rows[g]))
    <3>1. /\ rows[g] \in Seq(Row) /\ rows'[g] \in Seq(Row)
          /\ \A i \in 1..Len(rows[g]) : rows'[g][i] = rows[g][i]
      BY <1>3 DEF Grows
    <3>2. /\ SubSeq(rows'[g], 1, Len(rows[g])) \in Seq(Row)
          /\ Len(SubSeq(rows'[g], 1, Len(rows[g]))) = Len(rows[g])
          /\ \A i \in 1..Len(rows[g]) : SubSeq(rows'[g], 1, Len(rows[g]))[i] = rows'[g][i]
      BY <1>3, <3>1
    <3>3. QED
      BY <3>1, <3>2, SeqEqual
  <2>2. QED
    BY <1>3, <2>1 DEF Log!LogNext, Log!Extend, Log!Sealed, Sealed,
                      Log!NothingAfterTerminalIn, NothingAfterTerminalIn
<1>4. QED
  BY <1>1, <1>2, <1>3 DEF Change

(* A journal only grows, is sealed once, published once and only then; and *)
(* no step seals it over a choice that is pending before the grace is      *)
(* over.  (scan, _start_finalizer, _finish_game)                           *)
THEOREM SealedInTime == Spec => SealsInTime
<1>1. Init => \A g \in Games : Log(g)!LogInit
  BY DEF Init, Log!LogInit
<1>2. CaptureInv /\ CaptureInv' /\ [Next]_vars =>
        [\A g \in Games : Log(g)!LogNext \/ UNCHANGED <<rows[g], manifest[g]>>]_vars
  <2>1. ASSUME CaptureInv, CaptureInv', [Next]_vars, NEW g \in Games
        PROVE  Log(g)!LogNext \/ UNCHANGED <<rows[g], manifest[g]>>
    <3>1. NothingAfterTerminalIn(rows'[g])
      BY <2>1 DEF CaptureInv, GameInv, DiskOK
    <3>2. QED
      BY <2>1, <3>1, ChangeStep, ChangeIsLogStep
  <2>2. QED
    BY <2>1
<1>3. CaptureInv /\ [Next]_vars =>
        [\A g \in Games : ~Sealed(rows[g]) /\ Sealed(rows'[g]) =>
                            Pending(rows[g]) = {} \/ mem[g].grace = "passed"]_vars
  BY ChangeStep DEF Change
<1>4. QED
  BY <1>1, <1>2, <1>3, CaptureIsSound, PTL
     DEF Spec, SealsInTime, ImplementsSealedLogs, GraceIsKept
=============================================================================
