-------------------------- MODULE DelegatedAutopass --------------------------
(***************************************************************************)
(* Priority passing that a pilot has approved in advance                   *)
(* (commander_gym/delegated_autopass.py), for one seat.  The strategic     *)
(* pilot is expensive and slow; when it passes it may add a directive, and *)
(* the next windows of the seat are then answered without it: by a lease   *)
(* (pass until a boundary), a pending cast (after this land, that spell)   *)
(* or a continuation (a plan of waits, a land and a spell).  Each of them  *)
(* is an authority here.  A call of the seat takes the authorities out of  *)
(* the pilot's store, answers with one of them or asks the pilot, and puts *)
(* at most one back.                                                       *)
(*                                                                         *)
(* A window is what the seat sees when the engine asks it.  What differs   *)
(* between two windows in a way the code compares is a field of it.  The   *)
(* engine may stop waiting for a call, which then answers nobody; without  *)
(* a recorder the next call of the seat may begin while it still runs.     *)
(***************************************************************************)
EXTENDS Naturals, Sequences, FiniteSets, SequencesExt

CONSTANTS
  Calls,       \* callbacks of the seat that may be in flight at one time
  Confs,       \* settings, and what the pilot's directives ask for: see Conf
  MaxPasses    \* DelegatedAutopassPilot.max_passes

\* named and declarative are the component's settings (allow_named_deferrals,
\* allow_declarative_continuation), recorded says that a recorder takes the
\* decision starts; until and max are the boundary and the maxPasses of every
\* directive; changes bounds the changes of the game that the seat did not make,
\* and turns is the last turn.
Conf == [named: BOOLEAN, declarative: BOOLEAN, recorded: BOOLEAN,
         until: {"phase_end", "next_own_main"}, max: 1..MaxPasses, changes: Nat, turns: Nat]

ASSUME DelegationAssumption ==
  /\ Calls # {} /\ IsFiniteSet(Calls)
  /\ MaxPasses \in Nat \ {0}
  /\ \A s \in Confs : s \in Conf

VARIABLES
  conf,      \* the settings of this run, in Confs
  win,       \* what the seat sees now
  changes,   \* changes of the game made by others so far
  waits,     \* the call whose answer the engine waits for, if any
  store,     \* authorities of the seat: _leases, _pending_casts, _continuations
  calls      \* choose, per call

autopassVars == <<conf, win, changes, waits, store, calls>>

-----------------------------------------------------------------------------
(* Windows. *)

Land  == "land"
Spell == "spell"
Steps == <<"UPKEEP", "PRECOMBAT_MAIN", "END">>
Routine == {"routine", "permanentEntered"}

\* Two players: the seat's own turns are the even ones.
OwnTurn(w) == w.turn % 2 = 0
OwnMain(w) == OwnTurn(w) /\ w.step = "PRECOMBAT_MAIN"
\* Offers of the engine besides PassPriority and mana abilities.
LandOffered(w)  == ~w.decision /\ OwnMain(w) /\ w.stack = {} /\ Land \in w.hand
SpellOffered(w) == ~w.decision /\ OwnMain(w) /\ w.stack = {}
                   /\ Spell \in w.hand /\ Land \in w.board
\* Exactly one PassPriority and no required decision.
NativePass(w) == ~w.decision
\* Nothing to choose but passing and mana.
PassAndManaOnly(w) ==
  NativePass(w) /\ w.ability = 0 /\ ~LandOffered(w) /\ ~SpellOffered(w)
\* The exact set of executable abilities, or nothing when another kind of
\* action is offered.  Two windows with the same keys may differ in the rest of
\* an offer, which the digest of the menu tells apart.
AbilityKeys(w) ==
  IF NativePass(w) /\ ~LandOffered(w) /\ ~SpellOffered(w)
  THEN {IF w.ability = 0 THEN {} ELSE {"ability"}} ELSE {}
MenuDigest(w) == w.ability
\* The fields of a checkpoint that must not change under an authority.
Watched(w, watch) ==
  <<w.hand, w.board, w.stack, w.mana, w.life, IF watch THEN w.foe ELSE 0>>
Events(old, new) == SubSeq(new.log, Len(old.log) + 1, Len(new.log))
Extends(old, new) == IsPrefix(old.log, new.log)

-----------------------------------------------------------------------------
(* Authorities.  seen, used, cards and stale are history: the window in    *)
(* which the pilot gave the authority, the passes and the cards it has     *)
(* answered with, and whether the pilot has been asked again since.        *)

NewLease(w, until, watch, named) ==
  [kind |-> "lease", steps |-> <<>>, index |-> 1, until |-> until, max |-> MaxPasses,
   watch |-> watch, named |-> named, menu |-> MenuDigest(w), waiting |-> TRUE,
   start |-> w, prev |-> w, passes |-> 0, last |-> "PassPriority",
   seen |-> w, used |-> 0, cards |-> {}, stale |-> FALSE]

NewCast(w) ==
  [NewLease(w, "none", TRUE, FALSE) EXCEPT
     !.kind = "cast", !.waiting = FALSE, !.last = "PlayLand", !.cards = {Land}]

NewPlan(w, kind, steps, until, max) ==
  [NewLease(w, until, TRUE, FALSE) EXCEPT
     !.kind = "plan", !.steps = steps, !.max = max, !.waiting = (kind = "PassPriority"),
     !.last = kind, !.cards = IF kind = "PlayLand" THEN {Land} ELSE {}]

Put(s, a) == {x \in s : x.kind # a.kind} \cup {a}

\* The next own main phase, or the end of the phase in which the wait began.
AtBoundary(a, w) ==
  \/ a.until = "phase_end" /\ <<w.turn, w.step>> # <<a.start.turn, a.start.step>>
  \/ a.until = "next_own_main" /\ OwnMain(w)
     /\ (w.turn > a.start.turn \/ a.start.step # "PRECOMBAT_MAIN")

Unspent(a) == a.passes < (IF a.max < MaxPasses THEN a.max ELSE MaxPasses)

SameMenu(a, w) ==
  IF a.named THEN /\ w.turn = a.start.turn
                  /\ AbilityKeys(w) = {{"ability"}}
                  /\ MenuDigest(w) = a.menu
             ELSE PassAndManaOnly(w)

Unchanged(a, w) ==
  /\ w.turn >= a.prev.turn /\ w.turn <= a.start.turn + 2
  /\ Watched(w, a.watch) = Watched(a.prev, a.watch)
  /\ Extends(a.prev, w)
  /\ Range(Events(a.prev, w)) \subseteq Routine

Continues(a, w) ==
  Unspent(a) /\ SameMenu(a, w) /\ ~AtBoundary(a, w) /\ Unchanged(a, w)

\* The land is down, nothing else happened, and the spell is offered.
ReadyFollowupCast(a, w) ==
  /\ w.valid /\ ~w.decision
  /\ w.turn = a.prev.turn /\ w.step = a.prev.step /\ OwnTurn(w)
  /\ <<w.stack, w.mana, w.life, w.foe>> = <<a.prev.stack, a.prev.mana, a.prev.life, a.prev.foe>>
  /\ Land \in a.prev.hand \ a.prev.board
  /\ w.hand = a.prev.hand \ {Land} /\ Spell \in w.hand
  /\ w.board = a.prev.board \cup {Land}
  /\ Extends(a.prev, w) /\ Events(a.prev, w) = <<"permanentEntered">>
  /\ SpellOffered(w)

\* The first priority over the spell that the plan has just cast.
PostCastWaitReady(a, w) ==
  /\ PassAndManaOnly(w)
  /\ w.turn = a.prev.turn /\ w.step = a.prev.step
  /\ a.prev.stack = {} /\ w.stack = {Spell}
  /\ w.life = a.prev.life /\ w.mana = 0
  /\ w.hand = a.prev.hand \ {Spell} /\ Spell \in a.prev.hand
  /\ w.board = a.prev.board /\ w.foe = a.prev.foe
  /\ Extends(a.prev, w) /\ Events(a.prev, w) = <<"spellCast">>

-----------------------------------------------------------------------------
(* What an authority answers in a window, and what is put back of it.      *)

LeasePasses(a, w) == a.kind = "lease" /\ w.valid /\ Continues(a, w)
CastFollows(a, w) == a.kind = "cast" /\ ReadyFollowupCast(a, w)

PlanGoesOn(a, w) == a.kind = "plan" /\ w.valid /\ ~w.decision
PlanPasses(a, w) ==
  PlanGoesOn(a, w) /\ a.waiting /\ ~AtBoundary(a, w) /\ Continues(a, w)
\* At the boundary of a wait nothing may have changed; the step after it is the land.
PlanPlaysLand(a, w) ==
  /\ PlanGoesOn(a, w) /\ a.waiting /\ AtBoundary(a, w) /\ Unchanged(a, w)
  /\ a.index < Len(a.steps) /\ LandOffered(w)
PlanCasts(a, w) ==
  /\ PlanGoesOn(a, w) /\ ~a.waiting /\ a.last = "PlayLand"
  /\ a.steps[a.index] = "cast" /\ ReadyFollowupCast(a, w)
PlanWaitsAgain(a, w) ==
  /\ PlanGoesOn(a, w) /\ ~a.waiting /\ a.last = "CastSpell"
  /\ a.steps[a.index] = "wait" /\ PostCastWaitReady(a, w)

\* Variant: the pass is not counted.
PassedUncounted(a, w) == [a EXCEPT !.prev = w]
Passed(a, w) ==
  [a EXCEPT !.prev = w, !.passes = @ + 1, !.used = IF @ > 3 * MaxPasses THEN @ ELSE @ + 1]
Onward(a, w, last, card, index) ==
  [a EXCEPT !.prev = w, !.waiting = FALSE, !.last = last, !.index = index,
            !.cards = @ \cup {card}]

AnswerOf(a, w) ==
  CASE LeasePasses(a, w) \/ PlanPasses(a, w) \/ PlanWaitsAgain(a, w) -> "pass"
    [] PlanPlaysLand(a, w) -> Land
    [] CastFollows(a, w) \/ PlanCasts(a, w) -> Spell
    [] OTHER -> "none"

PutBack(a, w) ==
  CASE LeasePasses(a, w) \/ PlanPasses(a, w) -> {Passed(a, w)}
    [] PlanWaitsAgain(a, w) ->
         {Passed([a EXCEPT !.waiting = TRUE, !.start = w, !.passes = 0], w)}
    [] PlanPlaysLand(a, w) /\ a.index + 1 < Len(a.steps) ->
         {Onward(a, w, "PlayLand", Land, a.index + 2)}
    [] PlanCasts(a, w) /\ a.index < Len(a.steps) ->
         {Onward(a, w, "CastSpell", Spell, a.index + 1)}
    [] OTHER -> {}

\* The plan is tried first, then the pending cast, then the lease.
Rank(a) == CASE a.kind = "plan" -> 1 [] a.kind = "cast" -> 2 [] OTHER -> 3
Able(held, w) == {a \in held : AnswerOf(a, w) # "none"}
Chosen(held, w) == {a \in Able(held, w) : \A b \in Able(held, w) : Rank(a) <= Rank(b)}

-----------------------------------------------------------------------------
(* The game, as far as the seat sees it. *)

FirstWindow ==
  [turn |-> 0, step |-> "UPKEEP", hand |-> {Land, Spell}, board |-> {}, foe |-> 0,
   stack |-> {}, mana |-> 0, life |-> 0, ability |-> 0, log |-> <<>>,
   decision |-> FALSE, valid |-> TRUE]

Logged(w, event) == [w EXCEPT !.log = Append(@, event)]

Executed(w, answer) ==
  CASE answer = Land /\ LandOffered(w) ->
         Logged([w EXCEPT !.hand = @ \ {Land}, !.board = @ \cup {Land}], "permanentEntered")
    [] answer = Spell /\ SpellOffered(w) ->
         Logged([w EXCEPT !.hand = @ \ {Spell}, !.stack = @ \cup {Spell}], "spellCast")
    [] answer = "other" -> Logged([w EXCEPT !.decision = FALSE, !.ability = 0], "other")
    [] OTHER -> w

\* What other players, and rules that ask nobody, may do to the seat's view.
OtherChanges(w) ==
  {Logged([w EXCEPT !.life = 1 - @], "routine"),
   Logged([w EXCEPT !.foe = 1 - @], "routine"),
   Logged([w EXCEPT !.hand = @ \cup {"drawn"}], "routine"),
   Logged([w EXCEPT !.stack = @ \cup {"foe's spell"}], "other"),
   Logged(w, "other"),
   [w EXCEPT !.mana = 1], [w EXCEPT !.ability = 1], [w EXCEPT !.ability = 2],
   [w EXCEPT !.decision = TRUE], [w EXCEPT !.valid = ~@]} \ {w}

Resolved(w) == Logged([w EXCEPT !.stack = {}], "routine")
NextStep(w) ==
  IF w.step = "END" THEN [w EXCEPT !.step = "UPKEEP", !.turn = @ + 1, !.mana = 0]
  ELSE [w EXCEPT !.step = IF @ = "UPKEEP" THEN "PRECOMBAT_MAIN" ELSE "END", !.mana = 0]

Idle == [pc |-> "idle", obs |-> FirstWindow, held |-> {}, stale |-> FALSE]

AutopassInit ==
  /\ conf \in Confs
  /\ win = FirstWindow /\ changes = 0 /\ waits = {}
  /\ store = {} /\ calls = [c \in Calls |-> Idle]

Others ==
  /\ waits = {} /\ changes < conf.changes
  /\ changes' = changes + 1 /\ win' \in OtherChanges(win)
  /\ UNCHANGED <<conf, waits, store, calls>>

Advance ==
  /\ waits = {} /\ ~win.decision
  /\ win' = IF win.stack # {} THEN Resolved(win) ELSE NextStep(win)
  /\ win'.turn <= conf.turns
  /\ UNCHANGED <<conf, changes, waits, store, calls>>

\* The engine stops waiting for an answer, and goes on without it.
GiveUp ==
  /\ waits # {} /\ waits' = {}
  /\ UNCHANGED <<conf, win, changes, store, calls>>

-----------------------------------------------------------------------------
(* choose *)

\* Variant: the authorities are read, and stay in the store.
AskWithoutPop(c) ==
  /\ waits = {} /\ calls[c].pc = "idle"
  /\ conf.recorded => \A d \in Calls : calls[d].pc = "idle"
  /\ waits' = {c}
  /\ calls' = [calls EXCEPT ![c] = [Idle EXCEPT !.pc = "popped", !.obs = win, !.held = store]]
  /\ UNCHANGED <<conf, win, changes, store>>

\* Under the lock: everything the seat has is taken out.  A recorder refuses
\* the start of a second decision while the first is open.
Ask(c) ==
  /\ waits = {} /\ calls[c].pc = "idle"
  /\ conf.recorded => \A d \in Calls : calls[d].pc = "idle"
  /\ waits' = {c}
  /\ calls' = [calls EXCEPT ![c] = [Idle EXCEPT !.pc = "popped", !.obs = win, !.held = store]]
  /\ store' = {}
  /\ UNCHANGED <<conf, win, changes>>

Returns(c, answer) ==
  /\ win' = IF waits = {c} THEN Executed(win, answer) ELSE win
  /\ waits' = waits \ {c}
  /\ calls' = [calls EXCEPT ![c] = Idle]

Delegates(c, a) ==
  /\ calls[c].pc = "popped" /\ a \in Chosen(calls[c].held, calls[c].obs)
  /\ store' = {x \in store : \A y \in PutBack(a, calls[c].obs) : y.kind # x.kind}
              \cup PutBack(a, calls[c].obs)
  /\ Returns(c, AnswerOf(a, calls[c].obs))
  /\ UNCHANGED <<conf, changes>>

Superseded(s) == {[a EXCEPT !.stale = TRUE] : a \in s}

\* Nothing applies: what was taken out is dropped and the pilot is asked.
Wakes(c) ==
  /\ calls[c].pc = "popped" /\ Able(calls[c].held, calls[c].obs) = {}
  /\ calls' = [d \in Calls |->
       IF d = c THEN [calls[c] EXCEPT !.pc = "asking", !.held = {}]
       ELSE [calls[d] EXCEPT !.stale = calls[d].pc # "idle", !.held = Superseded(@)]]
  /\ store' = Superseded(store)
  /\ UNCHANGED <<conf, win, changes, waits>>

\* The authorities that the pilot's directive of this window may found.  Any
\* other directive is rejected and leaves the choice as it is.
Delegations(w) ==
  IF ~w.valid \/ ~NativePass(w) \/ w.mana # 0 THEN {}
  ELSE {NewLease(w, conf.until, conf.named \/ watch, FALSE) : watch \in BOOLEAN}
       \cup {NewLease(w, "turn_end", TRUE, TRUE) :
               x \in {y \in {conf.named} : y /\ AbilityKeys(w) = {{"ability"}}}}

ThenCasts(w) ==
  IF conf.named /\ w.valid /\ LandOffered(w) /\ Spell \in w.hand THEN {NewCast(w)} ELSE {}

WaitPlans(w) ==
  {<<"wait">>} \cup (IF Land \in w.hand THEN {<<"wait", "playLand">>} ELSE {})
  \cup (IF {Land, Spell} \subseteq w.hand
        THEN {<<"wait", "playLand", "cast">>, <<"wait", "playLand", "cast", "wait">>} ELSE {})

Continuations(w) ==
  IF ~conf.declarative \/ ~w.valid THEN {}
  ELSE (IF PassAndManaOnly(w) /\ w.mana = 0
        THEN {NewPlan(w, "PassPriority", s, conf.until, conf.max) : s \in WaitPlans(w)} ELSE {})
       \cup (IF LandOffered(w) /\ Spell \in w.hand
             THEN {NewPlan(w, "PlayLand", s, conf.until, conf.max) :
                     s \in {<<"cast">>, <<"cast", "wait">>}}
             ELSE {})

Founded(w, answer) ==
  CASE answer = "pass" -> Delegations(w) \cup {a \in Continuations(w) : a.last = "PassPriority"}
    [] answer = Land   -> ThenCasts(w) \cup {a \in Continuations(w) : a.last = "PlayLand"}
    [] OTHER -> {}

Answerable(w) ==
  (IF w.decision \/ w.ability # 0 THEN {"other"} ELSE {}) \cup (IF NativePass(w) THEN {"pass"} ELSE {})
  \cup (IF LandOffered(w) THEN {Land} ELSE {}) \cup (IF SpellOffered(w) THEN {Spell} ELSE {})

Arm(c, a) == Put(store, [a EXCEPT !.stale = calls[c].stale])

PilotAnswers(c) ==
  /\ calls[c].pc = "asking"
  /\ \E answer \in Answerable(calls[c].obs) :
       /\ \/ store' = store
          \/ \E a \in Founded(calls[c].obs, answer) : store' = Arm(c, a)
       /\ Returns(c, answer)
  /\ UNCHANGED <<conf, changes>>

PilotRaises(c) ==
  /\ calls[c].pc = "asking"
  /\ Returns(c, "none")
  /\ UNCHANGED <<conf, changes, store>>

Delegate(c) == \E a \in calls[c].held : Delegates(c, a)
Serve(c) == Delegate(c) \/ Wakes(c) \/ PilotAnswers(c) \/ PilotRaises(c)

AutopassNext == Others \/ Advance \/ GiveUp \/ \E c \in Calls : Ask(c) \/ Serve(c)

\* A call that has begun ends, and the engine asks the seat again as long as
\* the game goes on.
AutopassSpec ==
  /\ AutopassInit /\ [][AutopassNext]_autopassVars
  /\ WF_autopassVars(\E c \in Calls : Ask(c)) /\ \A c \in Calls : WF_autopassVars(Serve(c))

-----------------------------------------------------------------------------
(* Properties. *)

SeenSince(a, w) == Events(a.seen, w)

\* Own cards of an authority are the only differences between the window in
\* which the pilot gave it and the window in which it answers.
Reviewed(a, w) ==
  /\ w.valid /\ ~w.decision
  /\ w.hand = a.seen.hand \ a.cards
  /\ w.board = a.seen.board \cup (a.cards \cap {Land})
  /\ w.stack = a.seen.stack \cup (a.cards \cap {Spell})
  /\ w.mana = a.seen.mana /\ w.life = a.seen.life
  /\ a.watch => w.foe = a.seen.foe
  /\ Extends(a.seen, w)
  /\ Range(SeenSince(a, w)) \subseteq Routine \cup (IF Spell \in a.cards THEN {"spellCast"} ELSE {})
  /\ AnswerOf(a, w) = "pass" =>
       IF a.named THEN w.ability = a.seen.ability /\ w.turn = a.seen.turn
       ELSE w.ability = 0 /\ ~LandOffered(w) /\ ~SpellOffered(w)

\* The pilot is not passed over: a window is answered without it only if
\* nothing that it would see has changed since it gave the authority, except by
\* the cards that it named itself (choose, over any number of earlier windows).
DelegatedIsReviewed ==
  [][\A c \in Calls : \A a \in calls[c].held :
       Delegates(c, a) => Reviewed(a, calls[c].obs)]_autopassVars

\* An authority is used up: it passes at most as often as it may, once per
\* wait, and answers with each card that the pilot named once.
AuthorityIsSpent ==
  [][\A c \in Calls : \A a \in calls[c].held :
       Delegates(c, a) =>
         LET answer == AnswerOf(a, calls[c].obs)
             spans == IF a.kind = "plan" /\ Len(a.steps) \in {2, 4} /\ Spell \in a.cards
                      THEN 2 ELSE 1
         IN IF answer = "pass" THEN a.used < spans * (IF a.max < MaxPasses THEN a.max ELSE MaxPasses)
            ELSE answer \notin a.cards]_autopassVars

\* With a recorder, asking the pilot ends every earlier authority of the seat,
\* and the seat has at most one.
WakeDiscards ==
  [][conf.recorded =>
       /\ Cardinality(store') <= 1
       /\ \A c \in Calls : \A a \in calls[c].held : Delegates(c, a) => ~a.stale]_autopassVars

\* What is answered without the pilot was delegated by it, and is still.
DelegationIsSound == DelegatedIsReviewed /\ AuthorityIsSpent /\ WakeDiscards

\* However the game goes, the pilot is asked again.
PilotIsAskedAgain == []<>(\E c \in Calls : calls[c].pc = "asking")
=============================================================================
