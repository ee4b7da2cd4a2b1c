------------------------------ MODULE MCPilotCall ------------------------------
(* A call of a seat, and what recordings say of the calls of their games: a *)
(* behaviour is of the one or of the other.                                *)
EXTENDS PilotCall, CallbackDrain

MCIds == {"a", "b", "x"}

Attack(t) == [Action("DeclareAttackers", "attackers") EXCEPT !.ids = {"a", "b"}, !.against = t]
Block(n)  == [Action("DeclareBlockers", "blockers") EXCEPT !.blocks = [i \in {"a", "b"} |-> {"a"}], !.cap = n]
Pay(auto, mana) == [Decision("sources") EXCEPT !.ids = {"a", "b"}, !.autoPay = auto, !.mana = mana]
Cards(listed) == [Decision("cards") EXCEPT !.ids = {"a", "b"}, !.listed = listed, !.cap = 1]

Plain == {Action("PassPriority", "none"), Action("PlayLand", "none")}
Others ==
  {Attack({"a"}), Attack({}), Block(1), Block(0), Action("CastSpell", "xValue"),
   [Action("CastSpell", "delvedCards") EXCEPT !.ids = {"a", "b"}, !.cap = 1],
   [Action("CastSpell", "bouncedPermanents") EXCEPT !.ids = {"a", "b"}, !.cap = 2],
   [Decision("targets") EXCEPT !.blocks = [i \in {"a"} |-> {"a", "b"}], !.cancel = TRUE],
   Cards(TRUE), Decision("typed"), Action("KeepHand", "unspecified")}
  \cup {Pay(auto, mana) : auto \in {"yes", "no", "unknown"}, mana \in BOOLEAN}

CallbackOf(o) ==
  CASE o.field = "unspecified" -> "decideMulligan"
    [] OTHER -> "chooseAction"

Conf(p, n, f, o) ==
  [component |-> "none", window |-> Window(<<Offer("PassPriority")>>),
   pilot |-> p, maxAttempts |-> n, funds |-> f, callback |-> CallbackOf(o), flags |-> NoFlags, offer |-> o]

\* The windows of the routes: one offer, a pass beside another, a pass beside two.
Priced(o) == {[o EXCEPT !.affordable = a, !.isAffordable = b] :
                a \in {"yes", "no", "unset"}, b \in {"yes", "no"}}
Beside ==
  UNION {Priced([Offer("ActivateAbility") EXCEPT !.mana = m]) : m \in {"yes", "no", "unset"}}
  \cup UNION {Priced([Offer(k) EXCEPT !.mana = "no", !.plain = TRUE]) :
                k \in {"CastSpell", "CycleCard", "CastWithFlashback"}}
  \cup {[Offer("CycleCard") EXCEPT !.mana = "no", !.affordable = "no", !.isAffordable = "no"],
        [Offer("DeclareAttackers") EXCEPT !.none = TRUE, !.mana = "no"], Offer("Foretell")}
Pass == Offer("PassPriority")
Soles ==
  {Pass, [Pass EXCEPT !.affordable = "no"], [Pass EXCEPT !.affordable = "unset"],
   [Pass EXCEPT !.own = FALSE]}
  \cup {[Offer("Option") EXCEPT !.option = TRUE, !.open = x, !.affordable = a] :
          x \in BOOLEAN, a \in {"yes", "no"}}
  \cup {[Offer(k) EXCEPT !.none = n, !.typed = t, !.own = w, !.mana = "no"] :
          k \in Combat, n \in BOOLEAN, t \in BOOLEAN, w \in BOOLEAN}
Menus == {<<o>> : o \in Soles \cup Beside} \cup {<<Pass, o>> : o \in Beside \cup Soles}
         \cup {<<o, Pass, p>> : o \in Beside, p \in Beside}
Circumstances ==
  {[pending |-> p, ended |-> "no", priority |-> TRUE, evidence |-> "verified"] :
     p \in {"none", "option", "structured"}}
  \cup {[pending |-> "none", ended |-> e, priority |-> q, evidence |-> v] :
          e \in {"no", "unset"}, q \in BOOLEAN, v \in {"missing", "changed"}}
MCWindows ==
  {Window(m) : m \in Menus}
  \cup {[pending |-> c.pending, ended |-> c.ended, priority |-> c.priority,
         evidence |-> c.evidence, menu |-> m] :
          c \in Circumstances, m \in {m \in Menus : Len(m) < 3}}

AnyConf == Conf("plain", 1, 1, Action("PassPriority", "none"))

\* Time matters to one offer, the formats to all of them.
MCConfs ==
  {Conf(p, 3, f, Action("PassPriority", "none")) : p \in {"plain", "bounded", "local"}, f \in 1..3}
  \cup {Conf("plain", 2, 2, o) : o \in Others}
  \cup {[Conf("plain", 2, 2, o) EXCEPT !.flags = f] : o \in Plain, f \in {FlagsOf(p) : p \in Providers}}
  \cup {[Conf("plain", 2, 2, Cards(FALSE)) EXCEPT !.callback = "chooseBottomCards"]}
  \cup {Conf("local", 2, 2, Pay("yes", TRUE))}
  \cup {AnyConf}
  \cup {[Conf("absent", 1, 1, Action("PassPriority", "none")) EXCEPT !.component = c, !.window = w] :
          c \in Components, w \in MCWindows}

\* The recordings: one callback with a crash, a human's move or a missed row; two
\* callbacks; each way of choosing; and the observed games.
Ask(kind) == [seat |-> "a", kind |-> kind]
Recording(version, asks, picks, human, faults, pauses) ==
  [version |-> version, asks |-> asks, picks |-> picks, human |-> human, faults |-> faults, pauses |-> pauses]
OneAsk == <<Ask("chooseAction")>>
NoRecording == Recording(2, <<>>, {}, 0, 0, 0)
MCRecordings ==
  {NoRecording}
  \cup {Recording(v, OneAsk, {1, 2}, 1, 1, 0) : v \in {1, 2}}
  \cup {Recording(v, <<Ask("chooseAction"), [Ask("parameters") EXCEPT !.seat = "b"]>>, {1, 2}, 0, 0, 0) :
          v \in {1, 2}}
  \cup {Recording(2, <<Ask(k)>>, {1, 2}, 0, 0, 0) : k \in {"pending", "chooseBottomCards", "decideMulligan"}}
  \cup {Recording(2, OneAsk, {1}, 0, 1, 1), Recording(2, OneAsk \o OneAsk, {1}, 0, 0, 2)}

Calling == recording = NoRecording
MCInit ==
  /\ CallInit /\ CaptureInit /\ DrainInit
  /\ ~Calling => conf = AnyConf
MCNext ==
  \/ Calling /\ CallNext /\ UNCHANGED <<captureVars, drainVars>>
  \/ ~Calling /\ DrainNext /\ UNCHANGED callVars
MCSpec ==
  /\ MCInit /\ [][MCNext]_<<callVars, captureVars, drainVars>>
  /\ WF_callVars(Calling /\ Pilot) /\ WF_callVars(Calling /\ Tick)
=============================================================================
