----------------------------- MODULE EvidenceStore -----------------------------
(***************************************************************************)
(* The content-addressed artifact store and the catalogs over it: raw      *)
(* evidence, annotations, dataset manifests, model lineage, candidates and *)
(* qualifications (commander_gym storage.py, evidence.py, annotations.py,  *)
(* dataset_manifest.py, model_lineage.py, candidate_promotion.py), with    *)
(* the training export (manifest_export.py).  Processes write records in   *)
(* turn and write again what was refused; a process may die at any step    *)
(* and come back under the same pid; a stored blob may rot.                *)
(*                                                                         *)
(* A record is its own content, so a record's name stands for its digest:  *)
(* Lib gives the content of every name.                                    *)
(***************************************************************************)
EXTENDS Naturals, Sequences, FiniteSets, TLC

CONSTANTS
  Lib,          \* name -> record
  Pids,
  Plans,        \* [todo |-> process -> names in order, given |-> names stored before,
                \*  wanted |-> process -> names that must end up written]
  MaxCrashes,   \* bound
  MaxRot        \* bound

ASSUME EvidenceStoreAssumption ==
  /\ MaxCrashes \in Nat /\ MaxRot \in Nat /\ IsFiniteSet(Pids)
  /\ \A k \in Plans : DOMAIN k.todo \subseteq Pids /\ k.todo \in [DOMAIN k.todo -> Seq(DOMAIN Lib)]

VARIABLES
  plan,         \* the plan of this behaviour
  store,        \* name -> "absent", "good" or "rotten"
  catalog,      \* identity -> {} or {name}
  temps,        \* temporary files: <<"store" or "catalog", path, pid>>
  todo,         \* process -> names still to be written, in order
  pc,           \* process -> step
  exported,     \* history: <<dataset, decision>> written as training rows
  issued,       \* history: [component, payload, by]
  crashes

vars == <<plan, store, catalog, temps, todo, pc, exported, issued, crashes>>

\* What a name stands for.
Records == Lib
Names == DOMAIN Records
Procs == DOMAIN todo
Identities == {<<Records[n].kind, Records[n].id>> : n \in Names}
IdOf(n) == <<Records[n].kind, Records[n].id>>
Of(kind) == {n \in Names : Records[n].kind = kind}
Rotten == {n \in Names : store[n] = "rotten"}

\* read_bytes: the bytes are there and have the digest they are asked by.
Reads(n) == store[n] = "good"

-----------------------------------------------------------------------------
(* The records of the six kinds.                                           *)

Decision(d, run) ==
  [id |-> d, game |-> run, seat |-> 0, bound |-> TRUE, attempts |-> 2, selected |-> 2,
   chosen |-> "a", offered |-> {"a", "b"}]
Run(run, status, ids) ==
  [kind |-> "evidence", id |-> run, status |-> status, diagnostic |-> status # "completed",
   ids |-> ids, bound |-> (0 :> TRUE), decisions |-> [i \in DOMAIN ids |-> Decision(ids[i], run)]]
Bytes(b) == [kind |-> "bytes", id |-> b]
Note(rev, target, old) ==
  [kind |-> "annotation", id |-> <<"n", rev>>, source |-> "e1", target |-> target, supersedes |-> old]
Split(role, e, ds) == [role |-> role, picks |-> (e :> ds), allow |-> FALSE]
Dataset(splits, notes) ==
  [kind |-> "dataset", id |-> "D", splits |-> splits, notes |-> notes, transform |-> TRUE]
Candidate(b) == [kind |-> "candidate", id |-> "C", payload |-> b, sources |-> {"e1"}]
Stage(s, d, split, e, ok) ==
  [stage |-> s, passed |-> ok, dataset |-> d, split |-> split, evidence |-> e, result |-> "b1"]
Qualification(rev, c, d, held, ok) ==
  [kind |-> "qualification", id |-> <<"Q", rev>>, candidate |-> c,
   stages |-> <<Stage("replay", d, "val", {}, TRUE), Stage("frozen_held_out", d, held, {}, TRUE),
                Stage("shadow", d, "val", {"e1"}, ok)>>]

-----------------------------------------------------------------------------
(* What each kind of record must be, with what it names.                   *)

OneOf(seq) == {seq[i] : i \in DOMAIN seq}
Unique(seq) == Cardinality(OneOf(seq)) = Len(seq)

\* The records of a run, joined with it: all of its decisions, once and in order,
\* of its game, each bound exactly as its seat is.
RunJoins(e) ==
  /\ Unique(e.ids) /\ e.ids = [i \in DOMAIN e.decisions |-> e.decisions[i].id]
  /\ \A i \in DOMAIN e.decisions : LET d == e.decisions[i] IN
       d.game = e.id /\ d.seat \in DOMAIN e.bound /\ d.bound = e.bound[d.seat]
  /\ Cardinality({e.decisions[i].bound : i \in DOMAIN e.decisions}) <= 1

\* The last attempt is the one the choice was taken from, out of what was offered.
ModelIoValid(d) == d.attempts > 0 => d.selected = d.attempts
TargetValid(d) == d.chosen \in d.offered

EnvelopeValid(e) ==
  /\ e.kind = "evidence" /\ e.diagnostic = (e.status # "completed")
  /\ e.ids = [i \in DOMAIN e.decisions |-> e.decisions[i].id]
  /\ \A i \in DOMAIN e.decisions : ModelIoValid(e.decisions[i]) /\ TargetValid(e.decisions[i])
DecisionsOf(n) == OneOf(Records[n].ids)

Supersedes(a, old) ==
  /\ old.kind = "annotation" /\ old.id[1] = a.id[1] /\ old.id[2] # a.id[2]
  /\ old.source = a.source /\ old.target = a.target
AnnotationJoins(a) ==
  /\ EnvelopeValid(Records[a.source])
  /\ a.target \in DecisionsOf(a.source) \cup {Records[a.source].id}
  /\ \A old \in a.supersedes : Supersedes(a, Records[old])

Members(split) == UNION {split.picks[e] : e \in DOMAIN split.picks}
SplitValid(split) ==
  \A e, f \in DOMAIN split.picks : e # f => split.picks[e] \cap split.picks[f] = {}
ManifestValid(d) ==
  /\ d.kind = "dataset"
  /\ DOMAIN d.splits # {} /\ \A s \in DOMAIN d.splits : SplitValid(d.splits[s])
  /\ \A s, t \in DOMAIN d.splits : s # t => Members(d.splits[s]) \cap Members(d.splits[t]) = {}
Sources(d) == UNION {DOMAIN d.splits[s].picks : s \in DOMAIN d.splits}
NoteJoins(a, d) ==
  /\ a.kind = "annotation" /\ a.source \in Sources(d)
  /\ a.target = Records[a.source].id \/ \E s \in DOMAIN d.splits : a.target \in Members(d.splits[s])
SplitJoins(split) ==
  \A e \in DOMAIN split.picks :
    /\ EnvelopeValid(Records[e]) /\ split.picks[e] \subseteq DecisionsOf(e)
    /\ Records[e].diagnostic => split.role = "diagnostic" \/ split.allow
DatasetJoins(d) ==
  /\ ManifestValid(d) /\ \A s \in DOMAIN d.splits : SplitJoins(d.splits[s])
  /\ \A n \in d.notes : NoteJoins(Records[n], d)

LineageJoins(m) ==
  m.datasets # {} /\ m.artifacts # {} /\ \A n \in m.datasets : ManifestValid(Records[n])

DatasetGate(stage) ==
  /\ ManifestValid(Records[stage.dataset]) /\ stage.split \in DOMAIN Records[stage.dataset].splits
  /\ Records[stage.dataset].splits[stage.split].role =
       IF stage.stage = "replay" THEN "validation" ELSE "frozen_test"
ShadowGate(stage) == stage.evidence # {} /\ \A e \in stage.evidence : EnvelopeValid(Records[e])
QualificationJoins(q) ==
  /\ [i \in DOMAIN q.stages |-> q.stages[i].stage] = <<"replay", "frozen_held_out", "shadow">>
  /\ Records[q.candidate].kind = "candidate"
  /\ DatasetGate(q.stages[1]) /\ DatasetGate(q.stages[2]) /\ ShadowGate(q.stages[3])
EligibleForPromotion(q) == \A i \in DOMAIN q.stages : q.stages[i].passed

Joins(r) ==
  CASE r.kind = "evidence" -> RunJoins(r) /\ EnvelopeValid(r)
    [] r.kind = "annotation" -> AnnotationJoins(r)
    [] r.kind = "dataset" -> DatasetJoins(r)
    [] r.kind = "model" -> LineageJoins(r)
    [] r.kind = "qualification" -> QualificationJoins(r)
    [] OTHER -> TRUE                      \* a candidate, or plain bytes
Sound == {n \in Names : Joins(Records[n])}

\* What a write must be able to read.
Named(r) ==
  CASE r.kind = "annotation" -> {r.source} \cup r.supersedes
    [] r.kind = "dataset" -> r.notes \cup Sources(r)
    [] r.kind = "model" -> r.datasets \cup r.artifacts
    [] r.kind = "candidate" -> {r.payload} \cup r.sources
    [] r.kind = "qualification" ->
         {r.candidate, Records[r.candidate].payload, r.stages[1].dataset, r.stages[2].dataset}
         \cup r.stages[3].evidence \cup {r.stages[i].result : i \in DOMAIN r.stages}
    [] OTHER -> {}
RestsOn == [n \in Names |-> Named(Records[n])]

\* A digest is of some content, and what was stored before was stored by this store:
\* with everything it rests on.
ASSUME GivenAssumption ==
  /\ \A n \in Names : RestsOn[n] \subseteq Names
  /\ \A k \in Plans :
       k.given \subseteq Names /\ \A n \in k.given : RestsOn[n] \subseteq k.given

\* read_candidate: a qualification is of the candidate its identity is bound to.
Cataloged(n) == catalog[IdOf(n)] = {n}
Valid(n) ==
  /\ n \in Sound /\ \A m \in RestsOn[n] : Reads(m)
  /\ Records[n].kind = "qualification" => Cataloged(Records[n].candidate)

-----------------------------------------------------------------------------
(* One write: validate, put the bytes, then bind the identity to them.     *)

Init ==
  /\ plan \in Plans /\ todo = plan.todo
  /\ store = [n \in Names |-> IF n \in plan.given THEN "good" ELSE "absent"]
  /\ catalog = [i \in Identities |-> {n \in plan.given : IdOf(n) = i /\ i[1] # "bytes"}]
  /\ temps = {} /\ pc = [p \in Procs |-> "idle"]
  /\ exported = {} /\ issued = {} /\ crashes = 0

Doing(p) == Head(todo[p])
Goto(p, step) == pc' = [pc EXCEPT ![p] = step] /\ todo' = todo
\* The caller goes on with its next record, and comes back to a refused one.
Written(p) == pc' = [pc EXCEPT ![p] = "idle"] /\ todo' = [todo EXCEPT ![p] = Tail(@)]
Refused(p) == pc' = [pc EXCEPT ![p] = "idle"] /\ todo' = [todo EXCEPT ![p] = Append(Tail(@), Head(@))]

Begin(p) ==
  /\ pc[p] = "idle" /\ todo[p] # <<>>
  /\ IF Valid(Doing(p)) THEN Goto(p, "put") ELSE Refused(p)
  /\ UNCHANGED <<plan, store, catalog, temps, exported, issued, crashes>>

PutDone(p) == IF Records[Doing(p)].kind = "bytes" THEN Written(p) ELSE Goto(p, "bind")

\* put_bytes: what is there must be what is put.
PutChecks(p) ==
  /\ pc[p] = "put"
  /\ CASE store[Doing(p)] = "good" -> PutDone(p)
       [] store[Doing(p)] = "rotten" -> Refused(p)
       [] OTHER -> Goto(p, "put_open")
  /\ UNCHANGED <<plan, store, catalog, temps, exported, issued, crashes>>

\* Variant: only a writer that got its file removes it.
OpensUnlessLeft(p, where, path, there, next, done) ==
  /\ <<where, path, p>> \notin temps
  /\ temps' = temps \cup {<<where, path, p>>} /\ Goto(p, next)
\* A temporary file of this pid left by a crash: the open fails, and the finally
\* clause removes it.
Opens(p, where, path, there, next, done) ==
  LET mine == <<where, path, p>> IN
  IF mine \in temps
  THEN temps' = temps \ {mine} /\ (IF there THEN done ELSE Refused(p))
  ELSE temps' = temps \cup {mine} /\ Goto(p, next)

PutOpens(p) ==
  /\ pc[p] = "put_open"
  /\ Opens(p, "store", Doing(p), store[Doing(p)] = "good", "put_move", PutDone(p))
  /\ UNCHANGED <<plan, store, catalog, exported, issued, crashes>>

PutMoves(p) ==
  /\ pc[p] = "put_move"
  /\ store' = [store EXCEPT ![Doing(p)] = "good"]
  /\ temps' = temps \ {<<"store", Doing(p), p>>}
  /\ PutDone(p)
  /\ UNCHANGED <<plan, catalog, exported, issued, crashes>>

\* Variant: the identity is bound whatever it was bound to.
BindChecksNothing(p) ==
  /\ pc[p] = "bind" /\ Goto(p, "bind_open")
  /\ UNCHANGED <<plan, store, catalog, temps, exported, issued, crashes>>
\* _write_catalog_entry: an identity is bound once.
BindChecks(p) ==
  /\ pc[p] = "bind"
  /\ CASE Cataloged(Doing(p)) -> Written(p)
       [] catalog[IdOf(Doing(p))] = {} -> Goto(p, "bind_open")
       [] OTHER -> Refused(p)
  /\ UNCHANGED <<plan, store, catalog, temps, exported, issued, crashes>>

BindOpens(p) ==
  /\ pc[p] = "bind_open"
  /\ Opens(p, "catalog", IdOf(Doing(p)), Cataloged(Doing(p)), "bind_move", Written(p))
  /\ UNCHANGED <<plan, store, catalog, exported, issued, crashes>>

BindMoves(p) ==
  /\ pc[p] = "bind_move"
  /\ catalog' = [catalog EXCEPT ![IdOf(Doing(p))] = {Doing(p)}]
  /\ temps' = temps \ {<<"catalog", IdOf(Doing(p)), p>>}
  /\ Written(p)
  /\ UNCHANGED <<plan, store, exported, issued, crashes>>

Step(p) ==
  \/ Begin(p) \/ PutChecks(p) \/ PutOpens(p) \/ PutMoves(p)
  \/ BindChecks(p) \/ BindOpens(p) \/ BindMoves(p)

-----------------------------------------------------------------------------
(* Training export, promotion, and what goes wrong. *)

Frozen(d) == UNION {Members(d.splits[s]) : s \in {t \in DOMAIN d.splits : d.splits[t].role = "frozen_test"}}

MayExport(n, s) ==
  /\ n \in Sound /\ Records[n].transform /\ Records[n].splits[s].role = "train"
  /\ Members(Records[n].splits[s]) \cap Frozen(Records[n]) = {}
Rows == [n \in Of("dataset") |->
  {<<n, d>> : d \in UNION {Members(Records[n].splits[s]) : s \in {t \in DOMAIN Records[n].splits : MayExport(n, t)}}}]

\* Only a cataloged manifest is exported, from evidence that is still whole.
Export ==
  /\ \E n \in Of("dataset") :
       /\ Reads(n) /\ Cataloged(n) /\ \A e \in Sources(Records[n]) : Reads(e)
       /\ exported' = exported \cup Rows[n]
  /\ exported' # exported
  /\ UNCHANGED <<plan, store, catalog, temps, todo, pc, issued, crashes>>

\* qualified_component_ref: every gate is looked at again.  The qualification is the
\* caller's, who need not have stored it.
Issue ==
  /\ \E n \in Of("qualification") :
       /\ Valid(n) /\ EligibleForPromotion(Records[n])
       /\ LET c == Records[Records[n].candidate] IN
          issued' = issued \cup {[component |-> c.id, payload |-> c.payload, by |-> n]}
  /\ issued' # issued
  /\ UNCHANGED <<plan, store, catalog, temps, todo, pc, exported, crashes>>

Crash(p) ==
  /\ crashes < MaxCrashes /\ pc[p] # "idle"
  /\ crashes' = crashes + 1 /\ Goto(p, "idle")
  /\ UNCHANGED <<plan, store, catalog, temps, exported, issued>>

Rot ==
  /\ Cardinality(Rotten) < MaxRot
  /\ \E n \in Names : store[n] = "good" /\ store' = [store EXCEPT ![n] = "rotten"]
  /\ UNCHANGED <<plan, catalog, temps, todo, pc, exported, issued, crashes>>

Next == (\E p \in Procs : Step(p) \/ Crash(p)) \/ Export \/ Issue \/ Rot

StoreSpec == Init /\ [][Next]_vars

\* A caller goes on with what it has to write.
Fairness == \A p \in Pids : WF_vars(p \in Procs /\ Step(p))

-----------------------------------------------------------------------------
(* Properties. *)

\* A catalog never names what the store has never held: an identity is bound to a
\* record that was stored whole, after everything it rests on, whatever crashed.
CatalogIsGrounded ==
  \A i \in Identities : \A n \in catalog[i] :
    IdOf(n) = i /\ store[n] # "absent" /\ \A m \in RestsOn[n] : store[m] # "absent"

\* One writing process at a time binds an identity to one content for good.
BoundOnce ==
  [][Cardinality(Procs) = 1 =>
       \A i \in Identities : catalog[i] # {} => catalog'[i] = catalog[i]]_vars


\* A component is issued only for the bytes of its candidate, and each of its gates
\* was passed on the kind of data it is for; what was held out in its manifest was
\* never exported from that manifest for training.
IssuedIsEarned ==
  \A c \in issued : LET q == Records[c.by] IN
    /\ c.payload = Records[q.candidate].payload /\ store[c.payload] # "absent"
    /\ \A i \in 1..3 : q.stages[i].passed
    /\ \A i \in 1..2 : LET d == Records[q.stages[i].dataset] IN
         d.splits[q.stages[i].split].role = <<"validation", "frozen_test">>[i]
    /\ \A d \in Members(Records[q.stages[2].dataset].splits[q.stages[2].split]) :
         <<q.stages[2].dataset, d>> \notin exported

\* What the store says stands.
RecordsStand == []CatalogIsGrounded /\ BoundOnce /\ []IssuedIsEarned

\* Unless a blob rots, what a caller keeps writing is written in the end: a crash, the
\* file it left and the refusal that causes cost a repetition, never the record.
IsWritten(n) == IF Records[n].kind = "bytes" THEN Reads(n) ELSE Cataloged(n)
EventuallyWritten ==
  <>(Rotten # {} \/ \A p \in Procs : \A n \in OneOf(plan.wanted[p]) : IsWritten(n))
=============================================================================
