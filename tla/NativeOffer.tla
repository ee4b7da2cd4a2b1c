------------------------------ MODULE NativeOffer ------------------------------
(***************************************************************************)
(* What a model may answer to one native offer                             *)
(* (commander_gym/openai_responses_pilot.py): the request-local schema it  *)
(* is given (_native_action_format, _native_decision_format), the check of *)
(* its answer (_choice_from_response and what it calls), the contract of   *)
(* every pilot (pilot.validate_pilot_choice), and the seat's own check of  *)
(* two callbacks (game_server_seat).  Fits is the schema, Verdict the      *)
(* outcome of the checks:                                                  *)
(*   "valid"     a native choice                                           *)
(*   "invalid"   a pilot error, which the pilot corrects or reports        *)
(*   "untyped"   another exception, which it does not                      *)
(*   "contract"  a choice that the contract or the seat refuses            *)
(*                                                                         *)
(* An offer is a record; "field" names its one parameter or the type of    *)
(* the decision it asks for.  Ids are offered or not; a map is a function, *)
(* a list a sequence.                                                      *)
(***************************************************************************)
EXTENDS Naturals, Sequences, FiniteSets, Functions, SequencesExt

CONSTANT Ids

\* The ids of one game, offered or not.
ASSUME NativeOfferAssumption == IsFiniteSet(Ids)

\* A list may repeat an id; one that is longer than this does.
Lists == UNION {[1..n -> Ids] : n \in 0..Cardinality(Ids)}
Pairings == UNION {[S -> Ids] : S \in SUBSET Ids}
Blocks   == UNION {[S -> SUBSET Ids] : S \in SUBSET Ids}
Items(l) == Range(l)
Distinct(l) == Cardinality(Items(l)) = Len(l)

Flags == [delegation : BOOLEAN, named : BOOLEAN, nonempty : BOOLEAN, continuation : BOOLEAN]
NoFlags == [delegation |-> FALSE, named |-> FALSE, nonempty |-> FALSE, continuation |-> FALSE]

-----------------------------------------------------------------------------
(* Parameters of an action: attackers, blockers, delvedCards and            *)
(* bouncedPermanents are bound to candidates; any other field to its kind.  *)

\* No limit: the number of all ids.
Unbounded == Cardinality(Ids)
FitsParams(o, v) ==
  CASE o.field = "attackers" ->
         DOMAIN v \subseteq o.ids /\ Range(v) \subseteq o.against
    [] o.field = "blockers" ->
         /\ DOMAIN v \subseteq DOMAIN o.blocks
         /\ \A b \in DOMAIN v : v[b] \subseteq o.blocks[b]
    [] o.field = "delvedCards" -> Items(v) \subseteq o.ids /\ Len(v) <= o.cap
    [] o.field = "bouncedPermanents" -> Items(v) \subseteq o.ids /\ Len(v) = o.cap
    [] OTHER -> v \in {"absent", "kind"}

AcceptsParams(o, v) ==
  CASE o.field = "attackers" ->
         \A a \in DOMAIN v : a \in o.ids /\ v[a] \in o.against
    [] o.field = "blockers" ->
         /\ \A b \in DOMAIN v : b \in DOMAIN o.blocks /\ v[b] \subseteq o.blocks[b]
         /\ Cardinality(DOMAIN v) <= o.cap
    [] o.field \in {"delvedCards", "bouncedPermanents"} ->
         /\ Distinct(v) /\ Items(v) \subseteq o.ids
         /\ IF o.field = "delvedCards" THEN Len(v) <= o.cap ELSE Len(v) = o.cap
    [] o.field = "unspecified" -> TRUE
    [] OTHER -> v \in {"absent", "kind"}

Values(o) ==
  CASE o.field = "attackers" -> Pairings
    [] o.field = "blockers" -> Blocks
    [] o.field \in {"delvedCards", "bouncedPermanents"} -> Lists
    [] OTHER -> {"absent", "kind", "other"}

-----------------------------------------------------------------------------
(* The plan that may come with an action: a delegation of later priority    *)
(* windows, a cast after the land, or a declared continuation.              *)

Delegation == [until : {"phase_end", "next_own_main", "turn_end", "a list"},
               defers : {"absent", "empty", "some"}, watch : {"absent", "true", "false"}]
Continuations == UNION {[1..n -> {"wait", "playLand", "cast"}] : n \in 1..4}
NoPlan == [delegation |-> {}, thenCast |-> "absent", steps |-> <<>>]
Plans == {[NoPlan EXCEPT !.delegation = {d}] : d \in Delegation}
         \cup {[NoPlan EXCEPT !.steps = s] : s \in Continuations}
         \cup [delegation : {{}, {[until |-> "phase_end", defers |-> "absent", watch |-> "true"]}},
               thenCast : {"absent", "card", "card and more"}, steps : {<<>>, <<"cast">>, <<"wait">>}]

FitsPlan(f, p) ==
  /\ \A d \in p.delegation :
       /\ f.delegation
       /\ d.until \in {"phase_end", "next_own_main"} \cup (IF f.named THEN {"turn_end"} ELSE {})
       /\ d.defers # "absent" => f.named /\ (d.defers = "some" \/ ~f.nonempty)
  /\ p.thenCast # "absent" => f.named /\ p.thenCast = "card"
  /\ p.steps # <<>> => f.continuation

Orders(kind) ==
  CASE kind = "PlayLand" -> {<<"cast">>, <<"cast", "wait">>}
    [] kind = "PassPriority" ->
         {<<"wait">>, <<"wait", "playLand">>, <<"wait", "playLand", "cast">>,
          <<"wait", "playLand", "cast", "wait">>}
    [] OTHER -> {}

ContinuationVerdict(f, o, v, p) ==
  IF f.continuation /\ p.delegation = {} /\ p.thenCast = "absent" /\ v = "absent"
     /\ p.steps \in Orders(o.kind)
  THEN "valid" ELSE "invalid"

ThenCastVerdict(f, o, p) ==
  IF f.named /\ p.delegation = {} /\ p.thenCast = "card" /\ o.kind = "PlayLand"
  THEN "valid" ELSE "invalid"

\* A boundary that is no string is looked up in a set before its type is known.
DelegationVerdict(f, o, d) ==
  LET named == f.named /\ d.until = "turn_end" IN
  IF ~f.delegation \/ (d.defers # "absent" /\ ~named) THEN "invalid"
  ELSE IF d.until = "a list" THEN "untyped"
  ELSE IF /\ named \/ d.until \in {"phase_end", "next_own_main"}
          /\ named => d.watch # "false" /\ d.defers = "some"
          /\ o.kind = "PassPriority"
       THEN "valid" ELSE "invalid"

PlanVerdict(f, o, v, p) ==
  IF p.steps # <<>> THEN ContinuationVerdict(f, o, v, p)
  ELSE IF p.thenCast # "absent" THEN ThenCastVerdict(f, o, p)
  ELSE IF p.delegation # {} THEN DelegationVerdict(f, o, CHOOSE d \in p.delegation : TRUE)
  ELSE "valid"

-----------------------------------------------------------------------------
(* A structured decision: mana sources, targets, cards, or a typed field.   *)

Cancel == [type |-> "cancel"]
\* Variant: autoPay is closed whenever the engine did not say that it is possible.
FitsAutoPayUnknown(o, r) == r.autoPay => o.autoPay = "yes"
FitsAutoPay(o, r) == r.autoPay => o.autoPay # "no"

FitsResponse(o, r) ==
  \/ r = Cancel /\ o.cancel
  \/ /\ r # Cancel
     /\ CASE o.field = "sources" -> FitsAutoPay(o, r) /\ Items(r.list) \subseteq o.ids
          [] o.field = "targets" ->
               \* an index that is not required has no entry in the schema
               DOMAIN r.map \subseteq DOMAIN o.blocks /\ \A i \in DOMAIN r.map : r.map[i] \subseteq o.blocks[i]
          [] o.field = "cards" -> o.listed => Items(r.list) \subseteq o.ids
          [] OTHER -> r.kind = "kind"

AcceptsResponse(o, r) ==
  \/ r = Cancel /\ o.cancel
  \/ /\ r # Cancel
     /\ CASE o.field = "sources" ->
               /\ r.autoPay => o.autoPay # "no" /\ r.list = <<>>
               /\ Items(r.list) \subseteq o.ids
          [] o.field = "targets" ->
               \A i \in DOMAIN r.map : i \in DOMAIN o.blocks /\ r.map[i] \subseteq o.blocks[i]
          [] o.field = "cards" -> o.listed => Items(r.list) \subseteq o.ids
          [] OTHER -> r.kind = "kind"

Responses(o) == {Cancel} \cup
  (CASE o.field = "sources" -> [autoPay : BOOLEAN, list : Lists]
     [] o.field = "targets" -> [map : Blocks]
     [] o.field = "cards" -> [list : Lists]
     [] OTHER -> [kind : {"kind", "other"}])

-----------------------------------------------------------------------------
(* Offers and answers. *)

Blank == [channel |-> "action", kind |-> "ActivateAbility", field |-> "none", ids |-> {},
          against |-> {}, blocks |-> <<>>, cap |-> Unbounded, autoPay |-> "unknown",
          cancel |-> FALSE, listed |-> TRUE, mana |-> FALSE]
Action(kind, field) == [Blank EXCEPT !.kind = kind, !.field = field]
Decision(field) == [Blank EXCEPT !.channel = "decision", !.field = field]

\* What an offer says of itself, or no request is made for it: a payment by
\* permanents names as many candidates as it asks for.
WellFormed(o) ==
  /\ o.channel \in {"action", "decision"} /\ o.cap \in Nat
  /\ o.field = "bouncedPermanents" =>
       o.ids \subseteq Ids /\ o.cap \in 1..Cardinality(o.ids)

\* A payment window may offer mana abilities beside its response: no schema then.
Schemaless(o) == o.field = "unspecified" \/ (o.field = "sources" /\ o.mana)

Chosen(value, plan) == [channel |-> "action", semantic |-> "offered", value |-> value, plan |-> plan]
Answers(o) ==
  {[channel |-> "none"], [channel |-> "action", semantic |-> "unknown"]}
  \cup (IF o.channel = "decision"
        THEN {[channel |-> "decision", response |-> r] : r \in Responses(o)}
             \cup {Chosen("absent", NoPlan)}
        ELSE {Chosen(v, NoPlan) : v \in Values(o)} \cup {[channel |-> "decision", response |-> Cancel]}
             \cup (IF o.field = "none" THEN {Chosen("absent", p) : p \in Plans} ELSE {}))

Fits(f, o, a) ==
  \/ Schemaless(o)
  \/ /\ a.channel = o.channel
     /\ IF a.channel = "action"
        THEN a.semantic = "offered" /\ FitsParams(o, a.value) /\ FitsPlan(f, a.plan)
        ELSE FitsResponse(o, a.response)

\* An offered action beside a decision passes the pilot's check; only a mana
\* ability of a payment window passes the contract.
Verdict(f, o, a) ==
  CASE a.channel = "none" -> "invalid"
    [] a.channel = "action" ->
         IF a.semantic = "unknown" THEN "invalid"
         ELSE IF o.channel = "decision"
              THEN IF o.field = "sources" /\ o.mana THEN "valid" ELSE "contract"
         ELSE IF AcceptsParams(o, a.value) THEN PlanVerdict(f, o, a.value, a.plan) ELSE "invalid"
    [] OTHER -> IF o.channel = "decision" /\ AcceptsResponse(o, a.response) THEN "valid" ELSE "invalid"

\* The bottom-cards and mulligan callbacks of the seat.
SeatAccepts(callback, o, a) ==
  CASE callback = "chooseBottomCards" ->
         a.response # Cancel /\ Len(a.response.list) = o.cap /\ Distinct(a.response.list)
         /\ Items(a.response.list) \subseteq o.ids
    [] callback = "decideMulligan" -> a.value = "absent"
    [] OTHER -> TRUE

-----------------------------------------------------------------------------

\* A model that keeps to the schema it was given is never cut off from a choice
\* the checks would take, and always has one: the schema and the checks are
\* written apart, field by field.
FormatIsFair(f, o) ==
  /\ \A a \in Answers(o) : Verdict(f, o, a) \in {"valid", "untyped"} =>
       Fits(f, o, a) \/ (a.channel = "action" /\ a.plan.delegation # {}
                         /\ \E d \in a.plan.delegation : d.until = "a list")
  /\ \E a \in Answers(o) : Fits(f, o, a) /\ Verdict(f, o, a) = "valid"
=============================================================================
