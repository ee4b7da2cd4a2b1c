------------------------------ MODULE PilotRoute ------------------------------
(***************************************************************************)
(* The handlers that answer a window without a model                       *)
(* (commander_gym/pilot_routing.py, native_forced_pass.py) and the route   *)
(* of a composed pilot through them (pilot_composition.py, and the         *)
(* components game_server_binding_openai_sidecar.py resolves).  A handler  *)
(* returns the index of the offer it takes, or nothing: {i} or {}.         *)
(*                                                                         *)
(* A window is [menu, pending, ended, priority, evidence].  An offer keeps *)
(* of its native description what a handler looks at:                      *)
(*   kind                     PassPriority, ActivateAbility, ...           *)
(*   affordable, isAffordable what the engine says: "yes", "no", "unset"   *)
(*   mana                     isManaAbility: "yes", "no", "unset"          *)
(*   option                   it is an option of a pending decision        *)
(*   open                     X, targets, damage or candidates are to be   *)
(*                            filled in                                    *)
(*   none                     its attackers or blockers are certified empty*)
(*   typed                    its action id and native type are in order    *)
(*   own                      player and the other ids are the seat's      *)
(*   plain                    a card of the seat's own hand or graveyard,  *)
(*                            with nothing to be filled in                 *)
(***************************************************************************)
EXTENDS Naturals, Sequences, FiniteSets

Combat == {"DeclareAttackers", "DeclareBlockers"}
Offer(kind) ==
  [kind |-> kind, affordable |-> "yes", isAffordable |-> "yes",
   mana |-> IF kind = "PassPriority" THEN "no" ELSE "unset",
   option |-> FALSE, open |-> FALSE, none |-> FALSE, typed |-> TRUE, own |-> TRUE, plain |-> FALSE]

Offers ==
  [kind : STRING, affordable : {"yes", "no", "unset"}, isAffordable : {"yes", "no", "unset"},
   mana : {"yes", "no", "unset"}, option : BOOLEAN, open : BOOLEAN, none : BOOLEAN,
   typed : BOOLEAN, own : BOOLEAN, plain : BOOLEAN]
Windows ==
  [menu : Seq(Offers), pending : {"none", "option", "structured"}, ended : {"no", "unset"},
   priority : BOOLEAN, evidence : {"verified", "missing", "changed"}]

Window(menu) ==
  [menu |-> menu, pending |-> "none", ended |-> "no", priority |-> TRUE,
   evidence |-> "verified"]

Passes(w) == {i \in DOMAIN w.menu : w.menu[i].kind = "PassPriority"}
\* Variant: one of the two flags is enough.
UnaffordableByOne(o) == o.affordable = "no" \/ o.isAffordable = "no"
\* Both flags say that the offer cannot be paid for.
Unaffordable(o) == o.affordable = "no" /\ o.isAffordable = "no"
ThePass(w) == IF Len(w.menu) >= 2 /\ Cardinality(Passes(w)) = 1 THEN Passes(w) ELSE {}

-----------------------------------------------------------------------------
(* The handlers, each of which extends an earlier one. *)

\* ForcedParameterlessChoiceHandler: a sole pass, or a sole option with nothing to fill in.
Forced(w) ==
  IF /\ w.pending # "structured" /\ Len(w.menu) = 1
     /\ w.menu[1].affordable # "no"
     /\ \/ w.menu[1].kind = "PassPriority"
        \/ w.menu[1].option /\ ~w.menu[1].open
  THEN {1} ELSE {}

\* NativeNoChoiceHandler: or a sole declaration with nobody to declare.
NoChoice(w) ==
  IF Forced(w) # {} THEN Forced(w)
  ELSE IF /\ w.pending = "none" /\ Len(w.menu) = 1
          /\ LET o == w.menu[1]
             IN  o.kind \in Combat /\ o.none /\ o.typed /\ o.affordable # "no" /\ ~o.option
  THEN {1} ELSE {}

\* StandingManaOnlyPassHandler: or the one pass beside mana abilities, and beside
\* other abilities that cannot be paid for if the component says so.
Ignored(w, o, abilities) ==
  /\ o.typed /\ o.own /\ ~o.option /\ o.affordable # "unset"
  /\ \/ o.kind = "PassPriority" /\ o.affordable = "yes" /\ o.mana = "no"
     \/ Len(w.menu) = 1 /\ o.kind \in Combat
     \/ abilities /\ o.kind = "ActivateAbility" /\ o.mana = "no" /\ Unaffordable(o)
     \/ o.kind = "ActivateAbility" /\ o.mana = "yes"

Standing(w, abilities) ==
  IF /\ w.ended = "no" /\ w.pending = "none" /\ w.menu # <<>>
     /\ \A i \in DOMAIN w.menu : Ignored(w, w.menu[i], abilities)
  THEN IF NoChoice(w) # {} THEN NoChoice(w) ELSE ThePass(w)
  ELSE {}

\* AllUnaffordablePassHandler: or the one pass where nothing else can be paid for.
Known(o, extended) ==
  /\ o.typed /\ o.own /\ ~o.option /\ "unset" \notin {o.affordable, o.isAffordable}
  /\ CASE o.kind = "PassPriority" ->
            o.affordable = "yes" /\ o.isAffordable = "yes" /\ o.mana = "no"
       [] o.kind \in {"CycleCard", "CastWithFlashback"} ->
            o.kind \in extended /\ Unaffordable(o) /\ o.mana = "no" /\ o.plain
       [] OTHER ->
            /\ o.kind \in {"ActivateAbility", "CastSpell", "CastWithKicker"} \cup Combat
            /\ o.mana # "unset"

AllUnaffordable(w, extended) ==
  IF /\ w.ended = "no" /\ w.pending = "none" /\ w.priority /\ w.menu # <<>>
     /\ \A i \in DOMAIN w.menu : Known(w.menu[i], extended)
  THEN IF Standing(w, TRUE) # {} THEN Standing(w, TRUE)
       ELSE IF \A i \in DOMAIN w.menu \ Passes(w) : Unaffordable(w.menu[i])
       THEN ThePass(w) ELSE {}
  ELSE {}

\* NativeForcedPassSubsystem: only on a menu the seat verified and nobody changed,
\* of an ordinary callback, and never beside an affordable mana ability.
Certified(w) ==
  IF /\ w.evidence = "verified" /\ w.menu # <<>>
     /\ \A i \in DOMAIN w.menu \ Passes(w) : Unaffordable(w.menu[i])
  THEN AllUnaffordable(w, {"CycleCard", "CastWithFlashback"}) ELSE {}

-----------------------------------------------------------------------------
(* A composed pilot: a deterministic component, if it has one, then the provider. *)

Components ==
  {"forced", "noChoice", "standing", "unaffordable", "allUnaffordable", "cycling", "certified"}

Takes(component, w) ==
  CASE component = "forced"          -> Forced(w)
    [] component = "noChoice"        -> NoChoice(w)
    [] component = "standing"        -> Standing(w, FALSE)
    [] component = "unaffordable"    -> Standing(w, TRUE)
    [] component = "allUnaffordable" -> AllUnaffordable(w, {})
    [] component = "cycling"         -> AllUnaffordable(w, {"CycleCard"})
    [] component = "certified"       -> Certified(w)
    [] OTHER                         -> {}

-----------------------------------------------------------------------------
(* What a choice without a model owes the game. *)

\* Nothing playable is passed over: what is left is unaffordable by both of the
\* engine's flags, or a mana ability, which only the standing components pass over.
NothingPassedOver(component, w, i) ==
  \A j \in DOMAIN w.menu \ {i} :
    \/ w.menu[j].affordable = "no" /\ w.menu[j].isAffordable = "no"
    \/ w.menu[j].mana = "yes" /\ component \notin {"forced", "noChoice", "certified"}

\* There is nothing to decide in the offer that is taken.
NothingToDecide(w, i) ==
  LET o == w.menu[i]
  IN  /\ o.kind = "PassPriority" \/ (o.option /\ ~o.open) \/ (o.kind \in Combat /\ o.none)
      /\ o.affordable # "no" /\ w.pending # "structured"

\* The components are of one mind: two that answer the same window answer it alike.
OfOneMind(component, w) ==
  \A other \in Components : Takes(other, w) \in {{}, Takes(component, w)}

RouteIsForced(component, w) ==
  \A i \in Takes(component, w) :
    NothingPassedOver(component, w, i) /\ NothingToDecide(w, i) /\ OfOneMind(component, w)
=============================================================================
