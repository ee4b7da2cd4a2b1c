--------------------------- MODULE ImprovementLedger ---------------------------
(***************************************************************************)
(* The improvement ledger (improvement.py): analyses of recorded games are *)
(* ingested as sources of a candidate improvement, and workers move the    *)
(* candidate from hypothesis to adoption, one gate after the other, under  *)
(* a lease if they take one.  Each call is one SQLite transaction; workers *)
(* act on the revision and the token they last saw, leases lapse, and      *)
(* sources go on arriving whatever the candidate's state.                  *)
(*                                                                         *)
(* One candidate; its events are numbered by revision.                     *)
(***************************************************************************)
EXTENDS Integers, Sequences, FiniteSets, Functions

CONSTANTS
  Workers,
  Details,      \* state -> what workers may submit for it
  Cases,        \* [category, findings]: a candidate, and what analyses report of it,
                \* each [key, group, artifacts, complete, low]
  Leases,       \* lengths of leases
  MaxClock,     \* bound
  MaxClaims,    \* bound
  Nobody        \* no claim, no token

ASSUME ImprovementLedgerAssumption ==
  MaxClock \in Nat /\ MaxClaims \in Nat /\ Leases \subseteq Nat \ {0} /\ Nobody \notin Nat

VARIABLES
  improvement,  \* the member of Cases of this behaviour
  sources,      \* the sources table
  events,       \* the events table: [state, details, actor, basis]
  claim,        \* the claims table: [token, worker, expires, revision] or Nobody
  tokens,       \* tokens given so far
  seen,         \* worker -> [token, revision]: what it last saw
  clock

improvementVars == <<improvement, sources, events, claim, tokens, seen, clock>>

Strategic == improvement.category \in {"model_judgment", "primer_weakness_candidate"}
Onward ==
  [insufficient_evidence |-> {"hypothesis", "rejected"},
   hypothesis |-> {"reproduced", "rejected"},
   reproduced |-> {"implementation_validated", "rejected"},
   implementation_validated |-> {"measured", "rejected"},
   measured |-> {"adopted", "rejected"}, adopted |-> {"rolled_back"},
   rejected |-> {}, rolled_back |-> {}]

Revision == Len(events)
State == events[Revision].state
Reached(state) == \E e \in Range(events) : e.state = state
Gate(state) == (CHOOSE e \in Range(events) : e.state = state).details
GroupsOf(basis) == {s.group : s \in basis}

ImprovementInit ==
  /\ improvement \in Cases
  /\ sources = {} /\ events = <<>> /\ claim = Nobody /\ tokens = 0
  /\ seen = [w \in Workers |-> [token |-> Nobody, revision |-> 0]] /\ clock = 0

-----------------------------------------------------------------------------
\* A key is ingested once, with one assessment; it does not move the candidate.
Ingest(s) ==
  /\ \A t \in sources : t.key # s.key
  /\ sources' = sources \cup {s}
  /\ events' = IF events = <<>>
               THEN <<[state |-> "insufficient_evidence", details |-> Nobody,
                       actor |-> "ingestion", basis |-> {s}]>>
               ELSE events
  /\ UNCHANGED <<improvement, claim, tokens, seen, clock>>

Show(w) ==
  /\ events # <<>> /\ seen' = [seen EXCEPT ![w].revision = Revision] /\ seen' # seen
  /\ UNCHANGED <<improvement, sources, events, claim, tokens, clock>>

\* A lapsed lease is taken over; a terminal candidate is not claimed.
Claim(w) ==
  /\ events # <<>> /\ State \notin {"adopted", "rejected", "rolled_back"}
  /\ claim # Nobody => claim.expires <= clock
  /\ tokens < MaxClaims
  /\ \E lease \in Leases :
       claim' = [token |-> tokens, worker |-> w, expires |-> clock + lease, revision |-> Revision]
  /\ tokens' = tokens + 1
  /\ seen' = [seen EXCEPT ![w] = [token |-> tokens, revision |-> Revision]]
  /\ UNCHANGED <<improvement, sources, events, clock>>

Release(w) ==
  /\ claim # Nobody /\ claim.token = seen[w].token /\ claim.worker = w /\ claim.expires > clock
  /\ claim' = Nobody
  /\ UNCHANGED <<improvement, sources, events, tokens, seen, clock>>

-----------------------------------------------------------------------------
(* A transition, and what each state asks for.                             *)

\* While there is a claim, only under it, and only for as long as it lives.
MayMove(w) ==
  claim # Nobody => claim.token = seen[w].token /\ claim.worker = w /\ claim.expires > clock

Apart(fixtures, basis) ==
  \A f \in fixtures, s \in basis : f.group # s.group /\ f.artifact \notin s.artifacts
FixturesApart(d) ==
  \A b \in d.baseline, f \in d.heldOut : b.group # f.group /\ b.artifact # f.artifact

Meets(metrics, criterion) ==
  \E m \in metrics :
    /\ m.metric = criterion.metric
    /\ (IF criterion.direction = "increase" THEN m.change ELSE -m.change) >= criterion.minimum

Earns(target, d) ==
  CASE target = "hypothesis" ->
         /\ d.baseline # {} /\ d.heldOut # {} /\ FixturesApart(d) /\ Apart(d.heldOut, sources)
    [] target = "reproduced" -> d.baselineFailed
    [] target = "implementation_validated" ->
         d.author # d.reviewer /\ d.scope \subseteq Gate("hypothesis").scope
    [] target = "measured" ->
         /\ d.commit = Gate("implementation_validated").commit
         /\ d.baseline = Gate("hypothesis").baseline /\ d.heldOut = Gate("hypothesis").heldOut
         /\ \A c \in Gate("hypothesis").criteria : Meets(d.metrics, c)
    [] target = "adopted" ->
         Strategic => Cardinality(GroupsOf(sources)) >= 2 /\ \A s \in sources : ~s.low
    [] OTHER -> TRUE                      \* a reason

\* Variant: the hypothesis was held against its sources when it was made.
StillApartAtFirst(target) == TRUE
\* Sources that came since must not be what is held out.
StillApart(target) ==
  target \notin {"rejected", "rolled_back"} /\ Reached("hypothesis")
    => Apart(Gate("hypothesis").heldOut, sources)
Grounded(target) ==
  Strategic /\ target \in {"reproduced", "implementation_validated", "measured", "adopted"}
    => \A s \in sources : s.complete

Transition(w, target, d) ==
  /\ events # <<>> /\ MayMove(w) /\ seen[w].revision = Revision
  /\ target \in Onward[State]
  /\ StillApart(target) /\ Grounded(target) /\ Earns(target, d)
  /\ events' = Append(events, [state |-> target, details |-> d, actor |-> w, basis |-> sources])
  /\ seen' = [seen EXCEPT ![w].revision = Revision + 1]
  /\ UNCHANGED <<improvement, sources, claim, tokens, clock>>

Tick ==
  /\ clock < MaxClock /\ clock' = clock + 1
  /\ UNCHANGED <<improvement, sources, events, claim, tokens, seen>>

ImprovementNext ==
  \/ Tick
  \/ \E s \in improvement.findings : Ingest(s)
  \/ \E w \in Workers :
       \/ Show(w) \/ Claim(w) \/ Release(w)
       \/ \E target \in DOMAIN Details : \E d \in Details[target] : Transition(w, target, d)

ImprovementSpec == ImprovementInit /\ [][ImprovementNext]_improvementVars

-----------------------------------------------------------------------------
(* Properties. *)

\* What was adopted was measured as it was reviewed, on fixtures that none of the
\* evidence known by then was found in, whichever arrived in between; for a judgment
\* of play that evidence is complete, of two origins, and none of it weak.
AdoptionIsEarned ==
  \A i \in DOMAIN events : events[i].state = "adopted" =>
    LET basis == events[i].basis
        measured == Gate("measured")
    IN  /\ measured.commit = Gate("implementation_validated").commit
        /\ Apart(measured.heldOut, basis) /\ FixturesApart(measured)
        /\ \A c \in Gate("hypothesis").criteria : Meets(measured.metrics, c)
        /\ Strategic => /\ Cardinality(GroupsOf(basis)) >= 2
                        /\ \A s \in basis : s.complete /\ ~s.low

\* While a lease lives nobody but its holder moves the candidate, and two workers never
\* hold one between them, although each goes on with the token it was given.
LeaseIsKept ==
  claim # Nobody /\ clock < claim.expires =>
    /\ \A i \in (claim.revision + 1)..Revision : events[i].actor = claim.worker
    /\ \A w \in Workers : seen[w].token = claim.token => w = claim.worker

\* Improvements are earned, one worker at a time.
ImprovementsAreEarned == AdoptionIsEarned /\ LeaseIsKept
=============================================================================
