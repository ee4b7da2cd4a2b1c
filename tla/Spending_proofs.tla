--------------------------- MODULE Spending_proofs ---------------------------
(***************************************************************************)
(* Proofs about what is paid for: the run budget (OpenAIRunBudget), for    *)
(* any processes, any finite number of calls, any costs, caps and limits,  *)
(* and the batch of paid games (GameBatch), for any controllers, folders   *)
(* and requests of other runs.                                             *)
(*                                                                         *)
(* That the ledger covers what was charged is a fact about a sum over all  *)
(* calls, of what each holds in the ledger beyond what it was charged.     *)
(* The inductive invariant says that there is a function from sets of      *)
(* calls to numbers that adds up like that sum and whose value for all     *)
(* calls is the difference; a step of one call moves the function along.   *)
(*                                                                         *)
(* That the games follow one another rests on what each folder's cursor    *)
(* and artifacts say of its game, on which folders may have been begun     *)
(* when a folder is written, and on what the controller that has the lock  *)
(* holds in memory at each place of its program.                           *)
(***************************************************************************)
EXTENDS OpenAIRunBudget, GameBatch, FiniteSetTheorems, TLAPS

(* What the ledger holds for a call, and how much more than its charge.    *)
Held(c) ==
  CASE call[c].at \in {"idle", "refused"} -> 0
    [] call[c].at = "settled" -> call[c].usage
    [] OTHER -> call[c].cost

Slack == [c \in Calls |-> Held(c) - call[c].charge]

(* G gives every set of calls the sum of f over it.                        *)
IsSum(G, f) ==
  /\ G \in [SUBSET Calls -> Nat]
  /\ \A S \in SUBSET Calls : \A c \in S : G[S] = G[S \ {c}] + f[c]

Covered == \E G : IsSum(G, Slack) /\ ledger.estimated = spent + G[Calls]

CallsAreSound ==
  \A c \in Calls :
    /\ call[c].charge <= Held(c)
    /\ call[c].at = "reserved" => call[c].charge = 0
    /\ call[c].at = "answered" => call[c].charge <= call[c].usage /\ call[c].usage <= call[c].cost

NotBegun ==
  ~exists => ledger.estimated = 0 /\ ledger.requests = 0 /\ ledger.unsettled = 0

IInv ==
  /\ TypeOK /\ CallsAreSound /\ NotBegun /\ Covered
  /\ LedgerIsWithin /\ CountsAreExact /\ ElevatedIsLimited

-----------------------------------------------------------------------------
(***************************************************************************)
(* Sums.                                                                   *)
(***************************************************************************)

AgreeExceptAt(f, g, c) == \A d \in Calls : d # c => g[d] = f[d]

(* Changing what one call contributes changes the sum over all calls by as *)
(* much.                                                                   *)
LEMMA SumChanges ==
  ASSUME NEW f \in [Calls -> Nat], NEW g \in [Calls -> Nat], NEW G, IsSum(G, f),
         NEW c \in Calls, AgreeExceptAt(f, g, c)
  PROVE  \E H : IsSum(H, g) /\ H[Calls] = G[Calls] - f[c] + g[c]
<1>0. \A d \in Calls : d # c => g[d] = f[d]
  BY DEF AgreeExceptAt
<1> DEFINE H == [S \in SUBSET Calls |-> IF c \in S THEN G[S \ {c}] + g[c] ELSE G[S]]
<1>1. H \in [SUBSET Calls -> Nat]
  BY DEF IsSum
<1>2. ASSUME NEW S \in SUBSET Calls, NEW d \in S
      PROVE  H[S] = H[S \ {d}] + g[d]
  <2>1. S \ {d} \in SUBSET Calls /\ S \ {c} \in SUBSET Calls
    OBVIOUS
  <2>2. CASE d = c
    <3>1. H[S \ {d}] = G[S \ {c}] /\ H[S] = G[S \ {c}] + g[c]
      BY <2>1, <2>2
    <3>2. QED
      BY <2>2, <3>1
  <2>3. CASE d # c /\ c \in S
    <3>1. H[S] = G[S \ {c}] + g[c] /\ H[S \ {d}] = G[(S \ {d}) \ {c}] + g[c]
      BY <2>1, <2>3
    <3>2. G[S \ {c}] = G[(S \ {c}) \ {d}] + f[d]
      BY <2>1, <2>3 DEF IsSum
    <3>3. (S \ {c}) \ {d} = (S \ {d}) \ {c}
      OBVIOUS
    <3>4. (S \ {d}) \ {c} \in SUBSET Calls
      OBVIOUS
    <3>5. PICK x \in Nat : x = G[(S \ {d}) \ {c}]
      BY <3>4 DEF IsSum
    <3>6. PICK v \in Nat, w \in Nat : v = g[c] /\ w = f[d] /\ w = g[d]
      BY <1>0, <2>3
    <3>7. H[S] = (x + w) + v /\ H[S \ {d}] = x + v
      BY <3>1, <3>2, <3>3, <3>5, <3>6
    <3>8. QED
      BY <3>6, <3>7
  <2>4. CASE d # c /\ c \notin S
    <3>1. H[S] = G[S] /\ H[S \ {d}] = G[S \ {d}]
      BY <2>1, <2>4
    <3>2. QED
      BY <1>0, <2>4, <3>1 DEF IsSum
  <2>5. QED
    BY <2>2, <2>3, <2>4
<1>3. IsSum(H, g)
  BY <1>1, <1>2 DEF IsSum
<1>4. H[Calls] = G[Calls \ {c}] + g[c]
  OBVIOUS
<1>5. G[Calls] = G[Calls \ {c}] + f[c] /\ G[Calls \ {c}] \in Nat
  BY DEF IsSum
<1>6. H[Calls] = G[Calls] - f[c] + g[c]
  BY <1>4, <1>5
<1>7. QED
  BY <1>3, <1>6

-----------------------------------------------------------------------------
(***************************************************************************)
(* What the invariant says of the ledger and of one call.                  *)
(***************************************************************************)

LEMMA SlackIsNatural == TypeOK /\ CallsAreSound => Slack \in [Calls -> Nat]
<1> SUFFICES ASSUME TypeOK, CallsAreSound, NEW c \in Calls
             PROVE  Held(c) - call[c].charge \in Nat
  BY DEF Slack
<1>1. call[c].cost \in Nat /\ call[c].usage \in Nat /\ call[c].charge \in Nat
  BY DEF TypeOK
<1>2. Held(c) \in Nat
  BY <1>1 DEF Held
<1>3. QED
  BY <1>1, <1>2 DEF CallsAreSound

LEMMA SlackStaysNatural == TypeOK' /\ CallsAreSound' => Slack' \in [Calls -> Nat]
<1> SUFFICES ASSUME TypeOK', CallsAreSound', NEW c \in Calls
             PROVE  (Held(c) - call[c].charge)' \in Nat
  BY DEF Slack
<1>1. call'[c].cost \in Nat /\ call'[c].usage \in Nat /\ call'[c].charge \in Nat
  BY DEF TypeOK
<1>2. Held(c)' \in Nat
  BY <1>1 DEF Held
<1>3. QED
  BY <1>1, <1>2 DEF CallsAreSound

(* The estimate is at least what the ledger has beyond one call's charge.  *)
LEMMA RoomOfCall ==
  ASSUME IInv, NEW c \in Calls
  PROVE  ledger.estimated \in Nat /\ spent + Slack[c] <= ledger.estimated /\ spent <= ledger.estimated
<1>1. PICK G : IsSum(G, Slack) /\ ledger.estimated = spent + G[Calls]
  BY DEF IInv, Covered
<1>2. G[Calls] = G[Calls \ {c}] + Slack[c] /\ G[Calls \ {c}] \in Nat /\ G[Calls] \in Nat
  BY <1>1 DEF IsSum
<1>3. spent \in Nat /\ Slack[c] \in Nat /\ ledger.estimated \in Nat
  BY SlackIsNatural DEF IInv, TypeOK, Ledger
<1>4. QED
  BY <1>1, <1>2, <1>3

Unsettled == {c \in Counted : call[c].at # "settled"}

LEMMA CountsAreFinite ==
  ASSUME IInv
  PROVE  /\ IsFiniteSet(Counted) /\ IsFiniteSet(Unsettled) /\ IsFiniteSet(Sent)
         /\ ledger.requests = Cardinality(Counted) /\ ledger.unsettled = Cardinality(Unsettled)
<1>1. Counted \subseteq Calls /\ Unsettled \subseteq Calls /\ Sent \subseteq Calls
  BY DEF Counted, Sent, Unsettled
<1>2. QED
  BY <1>1, FS_Subset, BudgetAssumption DEF IInv, CountsAreExact, Unsettled

LEMMA ReadIsLedger ==
  ASSUME IInv, NEW p \in Processes
  PROVE  /\ Read(p) \in Ledger
         /\ Read(p).estimated = ledger.estimated /\ Read(p).requests = ledger.requests
         /\ Read(p).unsettled = ledger.unsettled
         /\ exists => Read(p) = ledger
<1>1. CASE MayCreate(p)
  <2>1. ledger.estimated = 0 /\ ledger.requests = 0 /\ ledger.unsettled = 0 /\ ~exists
    BY <1>1 DEF IInv, NotBegun, MayCreate
  <2>2. proc[p] \in Process
    BY DEF IInv, TypeOK
  <2>3. Zero(p) \in Ledger
    BY <2>2 DEF Zero, Process, Ledger
  <2>4. QED
    BY <1>1, <2>1, <2>3 DEF Read, Zero
<1>2. CASE ~MayCreate(p)
  BY <1>2 DEF Read, IInv, TypeOK
<1>3. QED
  BY <1>1, <1>2

(* A fruitless transaction leaves every number of the ledger.              *)
LEMMA FruitlessKeeps ==
  ASSUME IInv, NEW p \in Processes, Fruitless(p)
  PROVE  /\ ledger' \in Ledger /\ exists' \in BOOLEAN /\ locked' \in BOOLEAN
         /\ ledger'.estimated = ledger.estimated /\ ledger'.requests = ledger.requests
         /\ ledger'.unsettled = ledger.unsettled
         /\ exists => exists' /\ ledger' = ledger
         /\ ~exists' => ~exists
         /\ LedgerIsWithin' /\ ElevatedIsLimited' /\ NotBegun'
<1>0. IInv
  OBVIOUS
<1>1. CASE UNCHANGED <<exists, ledger>>
  BY <1>0, <1>1 DEF Fruitless, IInv, TypeOK, LedgerIsWithin, ElevatedIsLimited, NotBegun
<1>2. CASE MayCreate(p) /\ exists' = TRUE /\ ledger' = Zero(p)
  <2>1. ledger.estimated = 0 /\ ledger.requests = 0 /\ ledger.unsettled = 0 /\ ~exists
    BY <1>0, <1>2 DEF IInv, NotBegun, MayCreate
  <2>2. /\ ledger'.estimated = 0 /\ ledger'.requests = 0 /\ ledger'.unsettled = 0
        /\ ledger'.cap = proc[p].cap /\ ledger'.limit = proc[p].limit
    BY <1>2 DEF Zero
  <2>3. proc[p] \in Process
    BY <1>0 DEF IInv, TypeOK
  <2>4. ledger' \in Ledger
    BY <1>2, <2>3 DEF Zero, Process, Ledger
  <2>5. ledger'.cap \in Nat /\ (ledger'.limit = NoLimit \/ ledger'.limit \in Nat)
    BY <2>4, BudgetAssumption DEF Ledger
  <2>6. LedgerIsWithin'
    BY <2>2, <2>5 DEF LedgerIsWithin
  <2>7. ElevatedIsLimited'
    BY <1>2, <2>2 DEF ElevatedIsLimited, Elevated, MayCreate
  <2>8. QED
    BY <1>2, <2>1, <2>2, <2>4, <2>6, <2>7 DEF Fruitless, NotBegun
<1>3. QED
  BY <1>1, <1>2 DEF Fruitless

-----------------------------------------------------------------------------
(***************************************************************************)
(* A step changes what one call contributes, or nobody's contribution.     *)
(***************************************************************************)

LEMMA CoveredAfterChange ==
  ASSUME IInv, NEW c \in Calls,
         Slack' \in [Calls -> Nat], \A d \in Calls : d # c => Slack'[d] = Slack[d],
         ledger'.estimated \in Nat, spent' \in Nat,
         ledger'.estimated - spent' = ledger.estimated - spent - Slack[c] + Slack'[c]
  PROVE  Covered'
<1>1. PICK G : IsSum(G, Slack) /\ ledger.estimated = spent + G[Calls]
  BY DEF IInv, Covered
<1>2. Slack \in [Calls -> Nat]
  BY SlackIsNatural DEF IInv
<1>3. PICK H : IsSum(H, Slack') /\ H[Calls] = G[Calls] - Slack[c] + Slack'[c]
  <2>1. PICK f : f = Slack
    OBVIOUS
  <2>2. PICK g : g = Slack'
    OBVIOUS
  <2>3. /\ f \in [Calls -> Nat] /\ g \in [Calls -> Nat] /\ IsSum(G, f)
        /\ AgreeExceptAt(f, g, c)
    BY <1>1, <1>2, <2>1, <2>2 DEF AgreeExceptAt
  <2>4. PICK H : IsSum(H, g) /\ H[Calls] = G[Calls] - f[c] + g[c]
    BY <2>3, SumChanges
  <2>5. QED
    BY <2>1, <2>2, <2>4
<1>4. G[Calls] \in Nat /\ H[Calls] \in Nat /\ Slack[c] \in Nat /\ Slack'[c] \in Nat
  BY <1>1, <1>2, <1>3 DEF IsSum
<1>5. ledger.estimated \in Nat /\ spent \in Nat
  BY DEF IInv, TypeOK, Ledger
<1>6. ledger'.estimated = spent' + H[Calls]
  BY <1>1, <1>3, <1>4, <1>5
<1>7. QED
  BY <1>3, <1>6 DEF Covered

LEMMA CoveredUnchanged ==
  ASSUME IInv, Slack' = Slack, ledger'.estimated = ledger.estimated, spent' = spent
  PROVE  Covered'
BY DEF IInv, Covered

LEMMA CountsUnchanged ==
  ASSUME IInv, Counted' = Counted, Unsettled' = Unsettled,
         ledger'.requests = ledger.requests, ledger'.unsettled = ledger.unsettled
  PROVE  CountsAreExact'
BY DEF IInv, CountsAreExact, Unsettled

(* A call that goes from one place to another of the same standing.        *)
Standing(at) ==
  CASE at \in {"idle", "refused"} -> "none"
    [] at = "settled" -> "settled"
    [] OTHER -> "held"

(* Nothing of a call has changed but its place, to one of the same standing *)
(* in which no more is known of its charge.                                 *)
KeepsStanding(d) ==
  /\ call'[d].cost = call[d].cost /\ call'[d].charge = call[d].charge
  /\ call'[d].usage = call[d].usage
  /\ Standing(call'[d].at) = Standing(call[d].at)
  /\ call'[d].at \in {"reserved", "answered"} => call'[d].at = call[d].at

AllKeepStanding ==
  /\ call' \in [Calls -> [at : Places, cost : Nat, charge : Nat, usage : Nat]]
  /\ \A d \in Calls : KeepsStanding(d)

LEMMA StandingKept ==
  ASSUME IInv, AllKeepStanding
  PROVE  /\ call' \in [Calls -> [at : Places, cost : Nat, charge : Nat, usage : Nat]]
         /\ CallsAreSound' /\ Slack' = Slack /\ Counted' = Counted /\ Unsettled' = Unsettled
<1>1. /\ call \in [Calls -> [at : Places, cost : Nat, charge : Nat, usage : Nat]]
      /\ call' \in [Calls -> [at : Places, cost : Nat, charge : Nat, usage : Nat]]
  BY DEF IInv, TypeOK, AllKeepStanding
<1>2. \A d \in Calls : KeepsStanding(d) /\ call'[d].at \in Places /\ call[d].at \in Places
  BY <1>1 DEF AllKeepStanding
<1>4. \A d \in Calls : Held(d)' = Held(d)
  BY <1>2 DEF Held, Standing, Places, KeepsStanding
<1>5. Slack' = Slack
  BY <1>2, <1>4 DEF Slack, KeepsStanding
<1>6. CallsAreSound'
  BY <1>2, <1>4 DEF CallsAreSound, IInv, KeepsStanding
<1>8. \A d \in Calls : (d \in Counted <=> Standing(call[d].at) # "none")
                      /\ (d \in Counted' <=> Standing(call'[d].at) # "none")
  BY <1>2 DEF Counted, Sent, Standing, Places
<1>9. \A d \in Calls : (call[d].at = "settled" <=> Standing(call[d].at) = "settled")
                      /\ (call'[d].at = "settled" <=> Standing(call'[d].at) = "settled")
  BY <1>2 DEF Standing, Places
<1>10. Counted \subseteq Calls /\ Counted' \subseteq Calls
  BY DEF Counted, Sent
<1>11. Counted' = Counted
  BY <1>2, <1>8, <1>10 DEF KeepsStanding
<1>12. Unsettled' = Unsettled
  BY <1>2, <1>9, <1>10, <1>11 DEF Unsettled, KeepsStanding
<1>13. QED
  BY <1>1, <1>5, <1>6, <1>11, <1>12

LEMMA MoveKeepsStanding ==
  ASSUME IInv, NEW c \in Calls, NEW at \in Places \ {"reserved", "answered"}, Moves(c, at),
         Standing(at) = Standing(call[c].at)
  PROVE  AllKeepStanding
<1>1. call \in [Calls -> [at : Places, cost : Nat, charge : Nat, usage : Nat]]
  BY DEF IInv, TypeOK
<1>2. /\ call'[c].at = at /\ call'[c].cost = call[c].cost
      /\ call'[c].charge = call[c].charge /\ call'[c].usage = call[c].usage
      /\ \A d \in Calls : d # c => call'[d] = call[d]
  BY <1>1 DEF Moves
<1>3. call' \in [Calls -> [at : Places, cost : Nat, charge : Nat, usage : Nat]]
  BY <1>1 DEF Moves
<1>4. QED
  BY <1>2, <1>3 DEF AllKeepStanding, KeepsStanding

-----------------------------------------------------------------------------
(***************************************************************************)
(* The invariant holds initially.                                          *)
(***************************************************************************)

LEMMA InitInv == Init => IInv
<1> SUFFICES ASSUME Init PROVE IInv
  OBVIOUS
<1>1. AnyCap \in Caps /\ Caps \subseteq Nat
  BY BudgetAssumption DEF AnyCap
<1>2. TypeOK
  <2>1. ledger \in Ledger
    BY <1>1 DEF Init, Ledger
  <2>2. proc \in [Processes -> Process]
    BY <1>1 DEF Init, NotUp, Process
  <2>3. call \in [Calls -> [at : Places, cost : Nat, charge : Nat, usage : Nat]]
    BY DEF Init, Idle, Places
  <2>4. locked \in BOOLEAN /\ exists \in BOOLEAN
    BY Zenon DEF Init
  <2>5. spent \in Nat /\ starts \in 0..MaxStarts /\ owner \in [Calls -> Processes]
    BY BudgetAssumption DEF Init
  <2>6. QED
    BY <2>1, <2>2, <2>3, <2>4, <2>5 DEF TypeOK
<1>3. \A c \in Calls : call[c].at = "idle" /\ call[c].charge = 0 /\ Held(c) = 0
  BY DEF Init, Idle, Held
<1>4. CallsAreSound
  BY <1>3 DEF CallsAreSound
<1>5. Covered
  <2> DEFINE G == [S \in SUBSET Calls |-> 0]
  <2>1. Slack = [c \in Calls |-> 0]
    BY <1>3 DEF Slack
  <2>2. IsSum(G, Slack)
    BY <2>1 DEF IsSum
  <2>3. G[Calls] = 0
    OBVIOUS
  <2>4. ledger.estimated = spent + G[Calls]
    BY <2>3 DEF Init
  <2>5. QED
    BY <2>2, <2>4 DEF Covered
<1>6. CountsAreExact
  <2>1. Counted = {} /\ {c \in Counted : call[c].at # "settled"} = {}
    BY <1>3 DEF Counted, Sent
  <2>2. QED
    BY <2>1, FS_EmptySet DEF CountsAreExact, Init
<1>7. NotBegun /\ LedgerIsWithin /\ ElevatedIsLimited
  BY <1>1 DEF NotBegun, LedgerIsWithin, ElevatedIsLimited, Init
<1>8. QED
  BY <1>2, <1>4, <1>5, <1>6, <1>7 DEF IInv

-----------------------------------------------------------------------------
(***************************************************************************)
(* Every step of a call keeps the invariant.                               *)
(***************************************************************************)

(* The ledger is not touched and neither are the standings.                *)
LEMMA QuietMoveKeeps ==
  ASSUME IInv, AllKeepStanding, UNCHANGED <<locked, exists, ledger, proc, owner, spent, starts>>
  PROVE  IInv'
<1>1. /\ call' \in [Calls -> [at : Places, cost : Nat, charge : Nat, usage : Nat]]
      /\ CallsAreSound' /\ Slack' = Slack /\ Counted' = Counted /\ Unsettled' = Unsettled
  BY StandingKept
<1>2. TypeOK'
  BY <1>1 DEF IInv, TypeOK
<1>3. Covered'
  BY <1>1, CoveredUnchanged
<1>4. CountsAreExact'
  BY <1>1, CountsUnchanged
<1>5. NotBegun' /\ LedgerIsWithin' /\ ElevatedIsLimited'
  BY DEF IInv, NotBegun, LedgerIsWithin, ElevatedIsLimited
<1>6. QED
  BY <1>1, <1>2, <1>3, <1>4, <1>5 DEF IInv

(* A transaction that did not take effect.                                 *)
LEMMA FruitlessMoveKeeps ==
  ASSUME IInv, NEW p \in Processes, Fruitless(p), AllKeepStanding,
         UNCHANGED <<proc, owner, spent, starts>>
  PROVE  IInv'
<1>1. /\ call' \in [Calls -> [at : Places, cost : Nat, charge : Nat, usage : Nat]]
      /\ CallsAreSound' /\ Slack' = Slack /\ Counted' = Counted /\ Unsettled' = Unsettled
  BY StandingKept
<1>2. /\ ledger' \in Ledger /\ exists' \in BOOLEAN /\ locked' \in BOOLEAN
      /\ ledger'.estimated = ledger.estimated /\ ledger'.requests = ledger.requests
      /\ ledger'.unsettled = ledger.unsettled
      /\ LedgerIsWithin' /\ ElevatedIsLimited' /\ NotBegun'
  BY FruitlessKeeps
<1>3. TypeOK'
  BY <1>1, <1>2 DEF IInv, TypeOK
<1>4. Covered'
  BY <1>1, <1>2, CoveredUnchanged
<1>5. CountsAreExact'
  BY <1>1, <1>2, CountsUnchanged
<1>6. QED
  BY <1>1, <1>2, <1>3, <1>4, <1>5 DEF IInv

LEMMA ReserveFailsKeeps == ASSUME IInv, NEW c \in Calls, ReserveFails(c) PROVE IInv'
<1>1. AllKeepStanding
  BY MoveKeepsStanding, "refused" \in Places \ {"reserved", "answered"} DEF ReserveFails, Standing, Places
<1>2. owner[c] \in Processes
  BY DEF IInv, TypeOK
<1>3. QED
  BY <1>1, <1>2, FruitlessMoveKeeps DEF ReserveFails

LEMMA DeadlinePassedKeeps == ASSUME IInv, NEW c \in Calls, DeadlinePassed(c) PROVE IInv'
<1>1. AllKeepStanding
  BY MoveKeepsStanding, "unsent" \in Places \ {"reserved", "answered"} DEF DeadlinePassed, Standing, Places
<1>2. QED
  BY <1>1, QuietMoveKeeps DEF DeadlinePassed

LEMMA AnswerFailsKeeps == ASSUME IInv, NEW c \in Calls, AnswerFails(c) PROVE IInv'
<1>1. AllKeepStanding
  BY MoveKeepsStanding, "kept" \in Places \ {"reserved", "answered"} DEF AnswerFails, Standing, Places
<1>2. QED
  BY <1>1, QuietMoveKeeps DEF AnswerFails, AfterFailure

LEMMA SettleFailsKeeps == ASSUME IInv, NEW c \in Calls, SettleFails(c) PROVE IInv'
<1>1. AllKeepStanding
  BY MoveKeepsStanding, "kept" \in Places \ {"reserved", "answered"} DEF SettleFails, Standing, Places
<1>2. owner[c] \in Processes
  BY DEF IInv, TypeOK
<1>3. QED
  BY <1>1, <1>2, FruitlessMoveKeeps DEF SettleFails

(* What a step says of the calls it does not move.                         *)
OthersStay(c) == \A d \in Calls : d # c => call'[d] = call[d]

LEMMA OthersContribution ==
  ASSUME NEW c \in Calls, OthersStay(c)
  PROVE  \A d \in Calls : d # c => Held(d)' = Held(d) /\ Slack'[d] = Slack[d]
<1>1. \A d \in Calls : d # c => Held(d)' = Held(d)
  BY DEF OthersStay, Held
<1>2. QED
  BY <1>1 DEF OthersStay, Slack

(* The counts when the call that moves had a reservation and keeps it.     *)
LEMMA SameCounts ==
  ASSUME IInv, NEW c \in Calls, OthersStay(c),
         Standing(call[c].at) = "held", Standing(call'[c].at) = "held",
         call[c].at \in Places, call'[c].at \in Places
  PROVE  Counted' = Counted /\ Unsettled' = Unsettled
<1>1. Counted \subseteq Calls /\ Counted' \subseteq Calls
  BY DEF Counted, Sent
<1>2. c \in Counted /\ c \in Counted' /\ call[c].at # "settled" /\ call'[c].at # "settled"
  BY DEF Counted, Sent, Standing, Places
<1>3. \A d \in Calls : d # c => (d \in Counted' <=> d \in Counted)
  BY DEF OthersStay, Counted, Sent
<1>4. Counted' = Counted
  BY <1>1, <1>2, <1>3
<1>5. QED
  BY <1>1, <1>2, <1>4 DEF Unsettled, OthersStay

LEMMA DispatchKeeps == ASSUME IInv, NEW c \in Calls, Dispatch(c) PROVE IInv'
<1>1. PICK charge \in 0..call[c].cost :
        /\ call' = [call EXCEPT ![c].at = "dispatched", ![c].charge = charge]
        /\ spent' = spent + charge
  BY DEF Dispatch
<1>2. /\ call \in [Calls -> [at : Places, cost : Nat, charge : Nat, usage : Nat]]
      /\ spent \in Nat /\ ledger \in Ledger
  BY DEF IInv, TypeOK
<1>3. charge \in Nat /\ charge <= call[c].cost /\ call[c].cost \in Nat
  BY <1>1, <1>2
<1>4. /\ call'[c].at = "dispatched" /\ call'[c].cost = call[c].cost
      /\ call'[c].charge = charge /\ call'[c].usage = call[c].usage /\ OthersStay(c)
  BY <1>1, <1>2 DEF OthersStay
<1>5. call' \in [Calls -> [at : Places, cost : Nat, charge : Nat, usage : Nat]]
  BY <1>1, <1>2, <1>3 DEF Places
<1>6. call[c].at = "reserved" /\ call[c].charge = 0
  BY DEF Dispatch, IInv, CallsAreSound
<1>7. Held(c) = call[c].cost /\ Held(c)' = call[c].cost
  BY <1>4, <1>6 DEF Held
<1>8. \A d \in Calls : d # c => Held(d)' = Held(d) /\ Slack'[d] = Slack[d]
  BY <1>4, OthersContribution
<1>9. Slack[c] = call[c].cost /\ Slack'[c] = call[c].cost - charge
  BY <1>2, <1>4, <1>6, <1>7 DEF Slack
<1>10. CallsAreSound'
  BY <1>3, <1>4, <1>7, <1>8 DEF CallsAreSound, IInv, OthersStay
<1>11. UNCHANGED <<locked, exists, ledger, proc, owner, starts>>
  BY DEF Dispatch
<1>12. TypeOK'
  BY <1>1, <1>2, <1>3, <1>5, <1>11 DEF IInv, TypeOK
<1>13. Slack' \in [Calls -> Nat]
  BY <1>10, <1>12, SlackStaysNatural
<1>14. Covered'
  <2>1. ledger'.estimated \in Nat /\ ledger'.estimated = ledger.estimated /\ spent' \in Nat
    BY <1>1, <1>2, <1>3, <1>11 DEF Ledger
  <2>2. ledger'.estimated - spent' = ledger.estimated - spent - Slack[c] + Slack'[c]
    BY <1>1, <1>2, <1>3, <1>9, <2>1
  <2>3. QED
    BY <1>8, <1>13, <2>1, <2>2, CoveredAfterChange
<1>15. CountsAreExact'
  <2>1. Counted' = Counted /\ Unsettled' = Unsettled
    BY <1>4, <1>6, SameCounts DEF Standing, Places
  <2>2. QED
    BY <1>11, <2>1, CountsUnchanged
<1>16. NotBegun' /\ LedgerIsWithin' /\ ElevatedIsLimited'
  BY <1>11 DEF IInv, NotBegun, LedgerIsWithin, ElevatedIsLimited
<1>17. QED
  BY <1>10, <1>12, <1>14, <1>15, <1>16 DEF IInv

LEMMA AnswerKeeps == ASSUME IInv, NEW c \in Calls, Answer(c) PROVE IInv'
<1>1. PICK usage \in call[c].charge..call[c].cost :
        call' = [call EXCEPT ![c].at = "answered", ![c].usage = usage]
  BY DEF Answer
<1>2. call \in [Calls -> [at : Places, cost : Nat, charge : Nat, usage : Nat]]
  BY DEF IInv, TypeOK
<1>3. usage \in Nat /\ call[c].charge <= usage /\ usage <= call[c].cost
  BY <1>1, <1>2
<1>4. /\ call'[c].at = "answered" /\ call'[c].cost = call[c].cost
      /\ call'[c].charge = call[c].charge /\ call'[c].usage = usage /\ OthersStay(c)
  BY <1>1, <1>2 DEF OthersStay
<1>5. call' \in [Calls -> [at : Places, cost : Nat, charge : Nat, usage : Nat]]
  BY <1>1, <1>2, <1>3 DEF Places
<1>6. call[c].at = "dispatched"
  BY DEF Answer
<1>7. Held(c) = call[c].cost /\ Held(c)' = call[c].cost
  BY <1>4, <1>6 DEF Held
<1>8. \A d \in Calls : d # c => Held(d)' = Held(d) /\ Slack'[d] = Slack[d]
  BY <1>4, OthersContribution
<1>9. Slack' = Slack
  BY <1>4, <1>7, <1>8 DEF Slack
<1>10. CallsAreSound'
  BY <1>3, <1>4, <1>7, <1>8 DEF CallsAreSound, IInv, OthersStay
<1>11. UNCHANGED <<locked, exists, ledger, proc, owner, spent, starts>>
  BY DEF Answer
<1>12. TypeOK'
  BY <1>5, <1>11 DEF IInv, TypeOK
<1>13. Covered'
  BY <1>9, <1>11, CoveredUnchanged
<1>14. CountsAreExact'
  <2>1. Counted' = Counted /\ Unsettled' = Unsettled
    BY <1>4, <1>6, SameCounts DEF Standing, Places
  <2>2. QED
    BY <1>11, <2>1, CountsUnchanged
<1>15. NotBegun' /\ LedgerIsWithin' /\ ElevatedIsLimited'
  BY <1>11 DEF IInv, NotBegun, LedgerIsWithin, ElevatedIsLimited
<1>16. QED
  BY <1>10, <1>12, <1>13, <1>14, <1>15 DEF IInv

LEMMA ReserveKeeps == ASSUME IInv, NEW c \in Calls, Reserve(c) PROVE IInv'
<1> DEFINE L == Read(owner[c])
<1>1. PICK cost \in Costs, at \in {"reserved", "unsent"} :
        /\ Fits(owner[c], cost)
        /\ Replace([L EXCEPT !.estimated = @ + cost, !.requests = @ + 1, !.unsettled = @ + 1])
        /\ call' = [call EXCEPT ![c].at = at, ![c].cost = cost]
  BY DEF Reserve
<1>2. /\ call \in [Calls -> [at : Places, cost : Nat, charge : Nat, usage : Nat]]
      /\ spent \in Nat /\ ledger \in Ledger /\ proc[owner[c]] \in Process /\ owner[c] \in Processes
  BY DEF IInv, TypeOK
<1>3. cost \in Nat
  BY BudgetAssumption
<1>4. /\ L \in Ledger /\ L.estimated = ledger.estimated
      /\ L.requests = ledger.requests /\ L.unsettled = ledger.unsettled
  BY <1>2, ReadIsLedger
<1>5. PICK l \in Ledger : l = L
  BY <1>4
<1>6. /\ ledger' = [l EXCEPT !.estimated = @ + cost, !.requests = @ + 1, !.unsettled = @ + 1]
      /\ exists' = TRUE /\ locked' = TRUE
  BY <1>1, <1>5 DEF Replace
<1>7. /\ ledger'.estimated = l.estimated + cost /\ ledger'.requests = l.requests + 1
      /\ ledger'.unsettled = l.unsettled + 1 /\ ledger'.cap = l.cap /\ ledger'.limit = l.limit
      /\ ledger' \in Ledger
  <2>1. l.estimated \in Nat /\ l.requests \in Nat /\ l.unsettled \in Nat
    BY DEF Ledger
  <2>2. PICK e \in Nat, r \in Nat, u \in Nat :
          e = l.estimated + cost /\ r = l.requests + 1 /\ u = l.unsettled + 1
    BY <1>3, <2>1
  <2>3. ledger' = [l EXCEPT !.estimated = e, !.requests = r, !.unsettled = u]
    BY <1>6, <2>2 DEF Ledger
  <2>4. QED
    BY <2>2, <2>3 DEF Ledger
<1>8. UNCHANGED <<proc, owner, spent, starts>>
  BY DEF Reserve
<1>9. /\ call'[c].at = at /\ call'[c].cost = cost /\ call'[c].charge = call[c].charge
      /\ call'[c].usage = call[c].usage /\ OthersStay(c)
  BY <1>1, <1>2 DEF OthersStay
<1>10. call' \in [Calls -> [at : Places, cost : Nat, charge : Nat, usage : Nat]]
  BY <1>1, <1>2, <1>3 DEF Places
<1>11. call[c].at = "idle" /\ Held(c) = 0 /\ call[c].charge = 0
  <2>1. call[c].at = "idle" /\ Held(c) = 0
    BY DEF Reserve, Held
  <2>2. QED
    BY <1>2, <2>1 DEF IInv, CallsAreSound
<1>12. Held(c)' = cost
  BY <1>9 DEF Held
<1>13. \A d \in Calls : d # c => Held(d)' = Held(d) /\ Slack'[d] = Slack[d]
  BY <1>9, OthersContribution
<1>14. Slack[c] = 0 /\ Slack'[c] = cost
  BY <1>3, <1>9, <1>11, <1>12 DEF Slack
<1>15. CallsAreSound'
  BY <1>3, <1>9, <1>11, <1>12, <1>13 DEF CallsAreSound, IInv, OthersStay
<1>16. TypeOK'
  BY <1>6, <1>7, <1>8, <1>10 DEF IInv, TypeOK
<1>17. Covered'
  <2>1. Slack' \in [Calls -> Nat]
    BY <1>15, <1>16, SlackStaysNatural
  <2>2. /\ ledger'.estimated \in Nat /\ ledger'.estimated = ledger.estimated + cost
        /\ ledger.estimated \in Nat /\ spent' = spent /\ spent \in Nat
    BY <1>2, <1>4, <1>5, <1>7, <1>8 DEF Ledger
  <2>3. ledger'.estimated - spent' = ledger.estimated - spent - Slack[c] + Slack'[c]
    BY <1>3, <1>14, <2>2
  <2>4. QED
    BY <1>13, <2>1, <2>2, <2>3, CoveredAfterChange
<1>18. CountsAreExact'
  <2>1. c \notin Counted /\ Counted \subseteq Calls /\ Counted' \subseteq Calls
    BY <1>11 DEF Counted, Sent
  <2>2. c \in Counted' /\ call'[c].at # "settled"
    BY <1>9 DEF Counted, Sent
  <2>3. \A d \in Calls : d # c => (d \in Counted' <=> d \in Counted)
    BY <1>9 DEF OthersStay, Counted, Sent
  <2>4. Counted' = Counted \cup {c}
    BY <2>1, <2>2, <2>3
  <2>5. Unsettled' = Unsettled \cup {c} /\ c \notin Unsettled
    BY <1>9, <2>1, <2>2, <2>4 DEF Unsettled, OthersStay
  <2>6. /\ IsFiniteSet(Counted) /\ IsFiniteSet(Unsettled)
        /\ ledger.requests = Cardinality(Counted) /\ ledger.unsettled = Cardinality(Unsettled)
    BY CountsAreFinite
  <2>7. Cardinality(Counted \cup {c}) = Cardinality(Counted) + 1
    BY <2>1, <2>6, FS_AddElement
  <2>8. Cardinality(Unsettled \cup {c}) = Cardinality(Unsettled) + 1
    BY <2>5, <2>6, FS_AddElement
  <2>9. ledger'.requests = Cardinality(Counted)' /\ ledger'.unsettled = Cardinality(Unsettled)'
    BY <1>4, <1>5, <1>7, <2>4, <2>5, <2>6, <2>7, <2>8
  <2>10. QED
    BY <2>9 DEF CountsAreExact, Unsettled
<1>19. LedgerIsWithin'
  <2>1. Readable(owner[c]) /\ SameLimit(owner[c]) /\ InLimits(owner[c])
    BY DEF Reserve
  <2>2. l.cap = proc[owner[c]].cap /\ l.limit = proc[owner[c]].limit
    BY <1>5, <2>1 DEF Readable, SameLimit
  <2>3. l.estimated + cost <= l.cap
    BY <1>1, <1>5, <2>2 DEF Fits
  <2>4. l.limit # NoLimit => l.requests < l.limit
    BY <1>5, <2>1, <2>2 DEF InLimits, Limited
  <2>5. /\ l.requests \in Nat /\ l.estimated \in Nat
        /\ l.limit = NoLimit \/ l.limit \in Nat
    BY <1>5, BudgetAssumption DEF Ledger
  <2>6. QED
    BY <1>7, <2>3, <2>4, <2>5 DEF LedgerIsWithin
<1>20. ElevatedIsLimited'
  <2>1. Elevated(l.cap) => l.limit # NoLimit
    BY <1>5 DEF Reserve, Readable
  <2>2. QED
    BY <1>7, <2>1 DEF ElevatedIsLimited, Elevated
<1>21. NotBegun'
  BY <1>6 DEF NotBegun
<1>22. QED
  BY <1>15, <1>16, <1>17, <1>18, <1>19, <1>20, <1>21 DEF IInv

LEMMA SettleKeeps == ASSUME IInv, NEW c \in Calls, Settle(c) PROVE IInv'
<1>1. /\ call \in [Calls -> [at : Places, cost : Nat, charge : Nat, usage : Nat]]
      /\ spent \in Nat /\ ledger \in Ledger
  BY DEF IInv, TypeOK
<1>2. call[c].at = "answered" /\ Replace(Settled(c)) /\ Moves(c, "settled")
  BY DEF Settle
<1>3. /\ call[c].cost \in Nat /\ call[c].usage \in Nat /\ call[c].charge \in Nat
      /\ call[c].charge <= call[c].usage /\ call[c].usage <= call[c].cost
  BY <1>1, <1>2 DEF IInv, CallsAreSound
<1>4. /\ call'[c].at = "settled" /\ call'[c].cost = call[c].cost
      /\ call'[c].charge = call[c].charge /\ call'[c].usage = call[c].usage /\ OthersStay(c)
      /\ call' \in [Calls -> [at : Places, cost : Nat, charge : Nat, usage : Nat]]
  BY <1>1, <1>2 DEF OthersStay, Moves, Places
<1>5. Held(c) = call[c].cost /\ Held(c)' = call[c].usage
  BY <1>2, <1>4 DEF Held
<1>6. \A d \in Calls : d # c => Held(d)' = Held(d) /\ Slack'[d] = Slack[d]
  BY <1>4, OthersContribution
<1>7. /\ Slack[c] = call[c].cost - call[c].charge
      /\ Slack'[c] = call[c].usage - call[c].charge
  BY <1>4, <1>5 DEF Slack
<1>8. CallsAreSound'
  BY <1>3, <1>4, <1>5, <1>6 DEF CallsAreSound, IInv, OthersStay
<1>9. /\ IsFiniteSet(Counted) /\ IsFiniteSet(Unsettled)
      /\ ledger.requests = Cardinality(Counted) /\ ledger.unsettled = Cardinality(Unsettled)
  BY CountsAreFinite
<1>10. c \in Counted /\ c \in Unsettled /\ Counted \subseteq Calls
  BY <1>2 DEF Counted, Sent, Unsettled
<1>11. Cardinality(Unsettled \ {c}) = Cardinality(Unsettled) - 1 /\ Cardinality(Unsettled \ {c}) \in Nat
  <2>1. IsFiniteSet(Unsettled \ {c})
    BY <1>9, FS_RemoveElement
  <2>2. QED
    BY <1>9, <1>10, <2>1, FS_RemoveElement, FS_CardinalityType
<1>12. /\ ledger' = [ledger EXCEPT !.estimated = @ - (call[c].cost - call[c].usage), !.unsettled = @ - 1]
       /\ exists' = TRUE /\ locked' = TRUE
  BY <1>2 DEF Replace, Settled
<1>13. /\ ledger'.estimated = ledger.estimated - (call[c].cost - call[c].usage)
       /\ ledger'.requests = ledger.requests /\ ledger'.unsettled = ledger.unsettled - 1
       /\ ledger'.cap = ledger.cap /\ ledger'.limit = ledger.limit
  BY <1>1, <1>12 DEF Ledger
<1>14. ledger'.estimated \in Nat /\ ledger'.estimated <= ledger.estimated
  <2>1. ledger.estimated \in Nat /\ spent + Slack[c] <= ledger.estimated
    BY RoomOfCall
  <2>2. QED
    BY <1>1, <1>3, <1>7, <1>13, <2>1
<1>15. ledger' \in Ledger
  <2>1. ledger'.unsettled \in Nat
    BY <1>9, <1>11, <1>13
  <2>2. PICK e \in Nat, u \in Nat : e = ledger'.estimated /\ u = ledger'.unsettled
    BY <1>14, <2>1
  <2>3. ledger' = [ledger EXCEPT !.estimated = e, !.unsettled = u]
    BY <1>1, <1>12, <1>13, <2>2 DEF Ledger
  <2>4. QED
    BY <1>1, <2>2, <2>3 DEF Ledger
<1>16. UNCHANGED <<proc, owner, spent, starts>>
  BY DEF Settle
<1>17. TypeOK'
  BY <1>4, <1>12, <1>15, <1>16 DEF IInv, TypeOK
<1>18. Covered'
  <2>1. Slack' \in [Calls -> Nat]
    BY <1>8, <1>17, SlackStaysNatural
  <2>2. ledger.estimated \in Nat /\ spent' = spent
    BY <1>1, <1>16 DEF Ledger
  <2>3. ledger'.estimated - spent' = ledger.estimated - spent - Slack[c] + Slack'[c]
    BY <1>1, <1>3, <1>7, <1>13, <2>2
  <2>4. QED
    BY <1>1, <1>6, <1>14, <2>1, <2>2, <2>3, CoveredAfterChange
<1>19. CountsAreExact'
  <2>1. Counted' \subseteq Calls /\ c \in Counted'
    BY <1>4 DEF Counted, Sent
  <2>2. \A d \in Calls : d # c => (d \in Counted' <=> d \in Counted)
    BY <1>4 DEF OthersStay, Counted, Sent
  <2>3. Counted' = Counted
    BY <1>10, <2>1, <2>2
  <2>4. Unsettled' = Unsettled \ {c}
    BY <1>4, <1>10, <2>3 DEF Unsettled, OthersStay
  <2>5. ledger'.requests = Cardinality(Counted)' /\ ledger'.unsettled = Cardinality(Unsettled)'
    BY <1>9, <1>11, <1>13, <2>3, <2>4
  <2>6. QED
    BY <2>5 DEF CountsAreExact, Unsettled
<1>20. LedgerIsWithin'
  <2>1. ledger.cap \in Nat /\ ledger.estimated \in Nat
    BY <1>1, BudgetAssumption DEF Ledger
  <2>2. QED
    BY <1>13, <1>14, <2>1 DEF LedgerIsWithin, IInv
<1>21. ElevatedIsLimited'
  BY <1>13 DEF Settle, ElevatedIsLimited, Elevated, IInv
<1>22. NotBegun'
  BY <1>12 DEF NotBegun
<1>23. QED
  BY <1>8, <1>17, <1>18, <1>19, <1>20, <1>21, <1>22 DEF IInv

-----------------------------------------------------------------------------
(***************************************************************************)
(* So does every step of a process.                                        *)
(***************************************************************************)

(* The calls stay, and what the ledger says of them.                       *)
LEMMA ProcessStepKeeps ==
  ASSUME IInv, UNCHANGED <<call, spent>>, ledger' \in Ledger, proc' \in [Processes -> Process],
         owner' = owner, starts' \in 0..MaxStarts, locked' \in BOOLEAN, exists' \in BOOLEAN,
         ledger'.estimated = ledger.estimated, ledger'.requests = ledger.requests,
         ledger'.unsettled = ledger.unsettled,
         ~exists' => ~exists, LedgerIsWithin', ElevatedIsLimited'
  PROVE  IInv'
<1>1. TypeOK'
  BY DEF IInv, TypeOK
<1>2. CallsAreSound' /\ Slack' = Slack /\ Counted' = Counted /\ Unsettled' = Unsettled
  BY DEF IInv, CallsAreSound, Held, Slack, Counted, Sent, Unsettled
<1>3. Covered'
  BY <1>2, CoveredUnchanged
<1>4. CountsAreExact'
  BY <1>2, CountsUnchanged
<1>5. NotBegun'
  BY DEF IInv, NotBegun
<1>6. QED
  BY <1>1, <1>2, <1>3, <1>4, <1>5 DEF IInv

LEMMA SetRequestLimitKeeps == ASSUME IInv, NEW p \in Processes, SetRequestLimit(p) PROVE IInv'
<1>1. PICK new \in Limits :
        /\ new >= ledger.requests /\ (ledger.limit # NoLimit => new > ledger.limit)
        /\ Replace([ledger EXCEPT !.limit = new]) /\ Learns(p, [proc[p] EXCEPT !.limit = new])
  BY DEF SetRequestLimit
<1>2. ledger \in Ledger /\ proc \in [Processes -> Process] /\ proc[p] \in Process
  BY DEF IInv, TypeOK
<1>3. /\ ledger' = [ledger EXCEPT !.limit = new] /\ exists' = TRUE /\ locked' = TRUE
      /\ UNCHANGED <<call, owner, spent, starts>>
  BY <1>1 DEF Replace, SetRequestLimit
<1>4. /\ ledger' \in Ledger /\ ledger'.estimated = ledger.estimated /\ ledger'.requests = ledger.requests
      /\ ledger'.unsettled = ledger.unsettled /\ ledger'.cap = ledger.cap /\ ledger'.limit = new
  BY <1>2, <1>3 DEF Ledger
<1>5. proc' \in [Processes -> Process]
  <2>1. [proc[p] EXCEPT !.limit = new] \in Process
    BY <1>2 DEF Process
  <2>2. QED
    BY <1>1, <1>2, <2>1 DEF Learns
<1>6. new \in Nat /\ new # NoLimit
  BY BudgetAssumption
<1>7. LedgerIsWithin'
  BY <1>1, <1>4 DEF LedgerIsWithin, IInv
<1>8. ElevatedIsLimited'
  BY <1>4, <1>6 DEF ElevatedIsLimited
<1>9. starts' \in 0..MaxStarts
  BY <1>3 DEF IInv, TypeOK
<1>10. QED
  BY <1>3, <1>4, <1>5, <1>7, <1>8, <1>9, ProcessStepKeeps

LEMMA IncreaseCapKeeps == ASSUME IInv, NEW p \in Processes, IncreaseCap(p) PROVE IInv'
<1>1. PICK new \in Caps :
        /\ Increase(p, new)
        /\ Replace([ledger EXCEPT !.cap = new]) /\ Learns(p, [proc[p] EXCEPT !.cap = new])
  BY DEF IncreaseCap
<1>2. ledger \in Ledger /\ proc \in [Processes -> Process] /\ proc[p] \in Process
  BY DEF IInv, TypeOK
<1>3. /\ ledger' = [ledger EXCEPT !.cap = new] /\ exists' = TRUE /\ locked' = TRUE
      /\ UNCHANGED <<call, owner, spent, starts>>
  BY <1>1 DEF Replace, IncreaseCap
<1>4. /\ ledger' \in Ledger /\ ledger'.estimated = ledger.estimated /\ ledger'.requests = ledger.requests
      /\ ledger'.unsettled = ledger.unsettled /\ ledger'.cap = new /\ ledger'.limit = ledger.limit
  BY <1>2, <1>3 DEF Ledger
<1>5. proc' \in [Processes -> Process]
  <2>1. [proc[p] EXCEPT !.cap = new] \in Process
    BY <1>2 DEF Process
  <2>2. QED
    BY <1>1, <1>2, <2>1 DEF Learns
<1>6. ledger.cap = proc[p].cap /\ ledger.limit = proc[p].limit
  BY ReadIsLedger DEF IncreaseCap, Readable, SameLimit
<1>7. LedgerIsWithin'
  <2>1. new \in Nat /\ ledger.cap \in Nat /\ ledger.estimated \in Nat
    BY <1>2, BudgetAssumption DEF Ledger
  <2>2. ledger.estimated <= ledger.cap /\ new > ledger.cap
    BY <1>1, <1>6 DEF Increase, LedgerIsWithin, IInv
  <2>3. QED
    BY <1>4, <2>1, <2>2 DEF LedgerIsWithin, IInv
<1>8. ElevatedIsLimited'
  BY <1>1, <1>4, <1>6 DEF ElevatedIsLimited, Increase
<1>9. starts' \in 0..MaxStarts
  BY <1>3 DEF IInv, TypeOK
<1>10. QED
  BY <1>3, <1>4, <1>5, <1>7, <1>8, <1>9, ProcessStepKeeps

LEMMA StartKeeps == ASSUME IInv, NEW p \in Processes, Start(p) PROVE IInv'
<1>1. proc' \in [Processes -> Process]
  BY DEF Start, IInv, TypeOK
<1>2. starts' \in 0..MaxStarts
  BY BudgetAssumption DEF Start, IInv, TypeOK
<1>3. UNCHANGED <<locked, exists, ledger, call, owner, spent>>
  BY DEF Start
<1>4. ledger' \in Ledger /\ locked' \in BOOLEAN /\ exists' \in BOOLEAN
  BY <1>3 DEF IInv, TypeOK
<1>5. LedgerIsWithin' /\ ElevatedIsLimited'
  BY <1>3 DEF IInv, LedgerIsWithin, ElevatedIsLimited
<1>6. QED
  BY <1>1, <1>2, <1>3, <1>4, <1>5, ProcessStepKeeps

LEMMA DiesKeepsStanding == ASSUME IInv, NEW p \in Processes, Dies(p) PROVE AllKeepStanding
<1>1. call \in [Calls -> [at : Places, cost : Nat, charge : Nat, usage : Nat]]
  BY DEF IInv, TypeOK
<1> DEFINE Left(at) == CASE at = "reserved" -> "unsent"
                         [] at \in {"dispatched", "answered"} -> "kept"
                         [] OTHER -> at
<1>2. \A d \in Calls :
        call'[d] = IF owner[d] # p THEN call[d] ELSE [call[d] EXCEPT !.at = Left(call[d].at)]
  BY DEF Dies
<1>3. \A d \in Calls : call[d].at \in Places /\ Left(call[d].at) \in Places
                         /\ Standing(Left(call[d].at)) = Standing(call[d].at)
                         /\ Left(call[d].at) \notin {"reserved", "answered"}
  BY <1>1 DEF Standing, Places
<1>4. call' \in [Calls -> [at : Places, cost : Nat, charge : Nat, usage : Nat]]
  <2>1. ASSUME NEW d \in Calls
        PROVE  call'[d] \in [at : Places, cost : Nat, charge : Nat, usage : Nat]
    <3>1. PICK r \in [at : Places, cost : Nat, charge : Nat, usage : Nat] : r = call[d]
      BY <1>1
    <3>2. PICK at \in Places : at = Left(call[d].at)
      BY <1>3
    <3>3. call'[d] = IF owner[d] # p THEN r ELSE [r EXCEPT !.at = at]
      BY <1>2, <3>1, <3>2
    <3>4. QED
      BY <3>3
  <2>2. call' = [d \in Calls |-> call'[d]]
    BY DEF Dies
  <2>3. QED
    BY <2>1, <2>2
<1>5. ASSUME NEW d \in Calls PROVE KeepsStanding(d)
  <2>1. PICK r \in [at : Places, cost : Nat, charge : Nat, usage : Nat] : r = call[d]
    BY <1>1
  <2>2. PICK at \in Places : at = Left(call[d].at)
    BY <1>3
  <2>3. CASE owner[d] # p
    BY <1>2, <2>3 DEF KeepsStanding
  <2>4. CASE owner[d] = p
    <3>1. call'[d] = [r EXCEPT !.at = at]
      BY <1>2, <2>1, <2>2, <2>4
    <3>2. /\ call'[d].at = at /\ call'[d].cost = r.cost /\ call'[d].charge = r.charge
          /\ call'[d].usage = r.usage
      BY <3>1
    <3>3. Standing(at) = Standing(call[d].at) /\ at \notin {"reserved", "answered"}
      BY <1>3, <2>2
    <3>4. QED
      BY <2>1, <3>2, <3>3 DEF KeepsStanding
  <2>5. QED
    BY <2>3, <2>4
<1>6. QED
  BY <1>4, <1>5 DEF AllKeepStanding

LEMMA DiesKeeps == ASSUME IInv, NEW p \in Processes, Dies(p) PROVE IInv'
<1>1. /\ call' \in [Calls -> [at : Places, cost : Nat, charge : Nat, usage : Nat]]
      /\ CallsAreSound' /\ Slack' = Slack /\ Counted' = Counted /\ Unsettled' = Unsettled
  BY DiesKeepsStanding, StandingKept
<1>2. UNCHANGED <<locked, exists, ledger, owner, spent, starts>>
  BY DEF Dies
<1>3. proc' \in [Processes -> Process]
  <2>1. NotUp \in Process
    BY BudgetAssumption DEF NotUp, AnyCap, Process
  <2>2. QED
    BY <2>1 DEF Dies, IInv, TypeOK
<1>4. TypeOK'
  BY <1>1, <1>2, <1>3 DEF IInv, TypeOK
<1>5. Covered'
  BY <1>1, <1>2, CoveredUnchanged
<1>6. CountsAreExact'
  BY <1>1, <1>2, CountsUnchanged
<1>7. NotBegun' /\ LedgerIsWithin' /\ ElevatedIsLimited'
  BY <1>2 DEF IInv, NotBegun, LedgerIsWithin, ElevatedIsLimited
<1>8. QED
  BY <1>1, <1>4, <1>5, <1>6, <1>7 DEF IInv

LEMMA NextKeeps == IInv /\ [Next]_vars => IInv'
<1> SUFFICES ASSUME IInv, [Next]_vars PROVE IInv'
  OBVIOUS
<1>1. ASSUME NEW c \in Calls, Reserve(c) PROVE IInv'
  BY <1>1, ReserveKeeps
<1>2. ASSUME NEW c \in Calls, ReserveFails(c) PROVE IInv'
  BY <1>2, ReserveFailsKeeps
<1>3. ASSUME NEW c \in Calls, DeadlinePassed(c) PROVE IInv'
  BY <1>3, DeadlinePassedKeeps
<1>4. ASSUME NEW c \in Calls, Dispatch(c) PROVE IInv'
  BY <1>4, DispatchKeeps
<1>5. ASSUME NEW c \in Calls, Answer(c) PROVE IInv'
  BY <1>5, AnswerKeeps
<1>6. ASSUME NEW c \in Calls, AnswerFails(c) PROVE IInv'
  BY <1>6, AnswerFailsKeeps
<1>7. ASSUME NEW c \in Calls, Settle(c) PROVE IInv'
  BY <1>7, SettleKeeps
<1>8. ASSUME NEW c \in Calls, SettleFails(c) PROVE IInv'
  BY <1>8, SettleFailsKeeps
<1>9. ASSUME NEW p \in Processes, SetRequestLimit(p) PROVE IInv'
  BY <1>9, SetRequestLimitKeeps
<1>10. ASSUME NEW p \in Processes, IncreaseCap(p) PROVE IInv'
  BY <1>10, IncreaseCapKeeps
<1>11. ASSUME NEW p \in Processes, Start(p) PROVE IInv'
  BY <1>11, StartKeeps
<1>12. ASSUME NEW p \in Processes, Dies(p) PROVE IInv'
  BY <1>12, DiesKeeps
<1>13. CASE UNCHANGED vars
  <2>1. ~exists' => ~exists
    BY <1>13 DEF vars
  <2>2. UNCHANGED <<locked, exists, ledger, proc, call, owner, spent, starts>>
    BY <1>13 DEF vars
  <2>3. /\ ledger' \in Ledger /\ proc' \in [Processes -> Process] /\ starts' \in 0..MaxStarts
        /\ locked' \in BOOLEAN /\ exists' \in BOOLEAN
    BY <2>2 DEF IInv, TypeOK
  <2>4. LedgerIsWithin' /\ ElevatedIsLimited'
    BY <2>2 DEF IInv, LedgerIsWithin, ElevatedIsLimited
  <2>5. QED
    BY <2>1, <2>2, <2>3, <2>4, ProcessStepKeeps
<1>14. QED
  BY <1>1, <1>2, <1>3, <1>4, <1>5, <1>6, <1>7, <1>8, <1>9, <1>10, <1>11, <1>12, <1>13 DEF Next

-----------------------------------------------------------------------------
(***************************************************************************)
(* What a step does to the ledger's amounts, and to what was sent.         *)
(***************************************************************************)

LEMMA StepRemembers == IInv /\ [Next]_vars => Remembers
<1> SUFFICES ASSUME IInv, [Next]_vars, exists PROVE
      /\ exists' /\ ledger'.requests >= ledger.requests /\ ledger'.cap >= ledger.cap
      /\ ledger.limit # NoLimit => ledger'.limit # NoLimit /\ ledger'.limit >= ledger.limit
  BY DEF Remembers
<1> DEFINE Goal == /\ exists' /\ ledger'.requests >= ledger.requests /\ ledger'.cap >= ledger.cap
                   /\ ledger.limit # NoLimit => ledger'.limit # NoLimit /\ ledger'.limit >= ledger.limit
<1>1. /\ ledger \in Ledger /\ ledger.requests \in Nat /\ ledger.cap \in Nat
      /\ ledger.limit = NoLimit \/ ledger.limit \in Nat
  BY BudgetAssumption DEF IInv, TypeOK, Ledger
<1>2. ASSUME exists', ledger' = ledger PROVE Goal
  BY <1>1, <1>2
<1>3. ASSUME NEW c \in Calls, Reserve(c) PROVE Goal
  <2>1. Read(owner[c]) = ledger
    BY ReadIsLedger DEF IInv, TypeOK
  <2>2. PICK cost \in Costs :
          Replace([ledger EXCEPT !.estimated = @ + cost, !.requests = @ + 1, !.unsettled = @ + 1])
    BY <1>3, <2>1 DEF Reserve
  <2>3. /\ exists' /\ ledger'.requests = ledger.requests + 1 /\ ledger'.cap = ledger.cap
        /\ ledger'.limit = ledger.limit
    BY <1>1, <2>2 DEF Replace, Ledger
  <2>4. QED
    BY <1>1, <2>3
<1>4. ASSUME NEW p \in Processes, Fruitless(p) PROVE Goal
  BY <1>1, <1>2, <1>4, FruitlessKeeps
<1>5. ASSUME NEW c \in Calls, Settle(c) PROVE Goal
  <2>1. /\ exists' /\ ledger'.requests = ledger.requests /\ ledger'.cap = ledger.cap
        /\ ledger'.limit = ledger.limit
    BY <1>1, <1>5 DEF Settle, Settled, Replace, Ledger
  <2>2. QED
    BY <1>1, <2>1
<1>6. ASSUME NEW p \in Processes, SetRequestLimit(p) PROVE Goal
  <2>1. PICK new \in Limits : /\ ledger.limit # NoLimit => new > ledger.limit
                              /\ Replace([ledger EXCEPT !.limit = new])
    BY <1>6 DEF SetRequestLimit
  <2>2. /\ exists' /\ ledger'.requests = ledger.requests /\ ledger'.cap = ledger.cap
        /\ ledger'.limit = new
    BY <1>1, <2>1 DEF Replace, Ledger
  <2>3. new \in Nat /\ new # NoLimit
    BY BudgetAssumption
  <2>4. QED
    BY <1>1, <2>1, <2>2, <2>3
<1>7. ASSUME NEW p \in Processes, IncreaseCap(p) PROVE Goal
  <2>1. PICK new \in Caps : Increase(p, new) /\ Replace([ledger EXCEPT !.cap = new])
    BY <1>7 DEF IncreaseCap
  <2>2. /\ exists' /\ ledger'.requests = ledger.requests /\ ledger'.cap = new
        /\ ledger'.limit = ledger.limit
    BY <1>1, <2>1 DEF Replace, Ledger
  <2>3. new \in Nat /\ new > ledger.cap
    BY <1>7, <2>1, ReadIsLedger, BudgetAssumption DEF IncreaseCap, Readable, Increase
  <2>4. QED
    BY <1>1, <2>2, <2>3
<1>8. ASSUME NEW c \in Calls,
             ReserveFails(c) \/ SettleFails(c) \/ DeadlinePassed(c) \/ Dispatch(c)
               \/ Answer(c) \/ AnswerFails(c)
      PROVE  Goal
  <2>1. owner[c] \in Processes
    BY DEF IInv, TypeOK
  <2>2. CASE ReserveFails(c) \/ SettleFails(c)
    BY <1>4, <2>1, <2>2 DEF ReserveFails, SettleFails
  <2>3. CASE DeadlinePassed(c) \/ Dispatch(c) \/ Answer(c) \/ AnswerFails(c)
    BY <1>2, <2>3 DEF DeadlinePassed, Dispatch, Answer, AnswerFails, AfterFailure
  <2>4. QED
    BY <1>8, <2>2, <2>3
<1>9. ASSUME NEW p \in Processes, Start(p) \/ Dies(p) PROVE Goal
  BY <1>2, <1>9 DEF Start, Dies
<1>10. CASE UNCHANGED vars
  BY <1>2, <1>10 DEF vars
<1>11. QED
  BY <1>3, <1>5, <1>6, <1>7, <1>8, <1>9, <1>10 DEF Next

NothingSent == Sent' = Sent /\ spent' = spent

(* Only a dispatch sends.                                                  *)
LEMMA OthersSendNothing ==
  ASSUME IInv, [Next]_vars, ~\E c \in Calls : Dispatch(c)
  PROVE  NothingSent
<1>0. call \in [Calls -> [at : Places, cost : Nat, charge : Nat, usage : Nat]]
  BY DEF IInv, TypeOK
<1>1. Sent \subseteq Calls /\ Sent' \subseteq Calls
  BY DEF Sent
<1>2. ASSUME NEW c \in Calls, OthersStay(c), spent' = spent, c \in Sent <=> c \in Sent'
      PROVE  NothingSent
  <2>1. \A d \in Calls : d # c => (d \in Sent' <=> d \in Sent)
    BY <1>2 DEF OthersStay, Sent
  <2>2. QED
    BY <1>1, <1>2, <2>1 DEF NothingSent
<1>3. ASSUME NEW c \in Calls, Reserve(c) PROVE NothingSent
  <2>1. PICK cost \in Costs, at \in {"reserved", "unsent"} :
          call' = [call EXCEPT ![c].at = at, ![c].cost = cost]
    BY <1>3 DEF Reserve
  <2>2. OthersStay(c) /\ call'[c].at = at
    BY <1>0, <2>1 DEF OthersStay
  <2>3. call[c].at = "idle" /\ spent' = spent
    BY <1>3 DEF Reserve
  <2>4. c \notin Sent /\ c \notin Sent'
    BY <2>2, <2>3 DEF Sent
  <2>5. QED
    BY <1>2, <2>2, <2>3, <2>4
<1>4. ASSUME NEW c \in Calls, NEW at \in Places, Moves(c, at), spent' = spent,
             (at \in {"dispatched", "answered", "kept", "settled"})
               <=> call[c].at \in {"dispatched", "answered", "kept", "settled"}
      PROVE  NothingSent
  <2>1. OthersStay(c) /\ call'[c].at = at
    BY <1>0, <1>4 DEF OthersStay, Moves
  <2>2. c \in Sent <=> c \in Sent'
    BY <1>4, <2>1 DEF Sent
  <2>3. QED
    BY <1>2, <1>4, <2>1, <2>2
<1>5. ASSUME NEW c \in Calls, ReserveFails(c) \/ DeadlinePassed(c) PROVE NothingSent
  BY <1>4, <1>5, "refused" \in Places, "unsent" \in Places DEF ReserveFails, DeadlinePassed, Places
<1>6. ASSUME NEW c \in Calls, AnswerFails(c) \/ Settle(c) \/ SettleFails(c) PROVE NothingSent
  BY <1>4, <1>6, "kept" \in Places, "settled" \in Places DEF AnswerFails, Settle, SettleFails, Places
<1>7. ASSUME NEW c \in Calls, Answer(c) PROVE NothingSent
  <2>1. PICK usage : call' = [call EXCEPT ![c].at = "answered", ![c].usage = usage]
    BY <1>7 DEF Answer
  <2>2. OthersStay(c) /\ call'[c].at = "answered"
    BY <1>0, <2>1 DEF OthersStay
  <2>3. c \in Sent /\ c \in Sent' /\ spent' = spent
    BY <1>7, <2>2 DEF Sent, Answer
  <2>4. QED
    BY <1>2, <2>2, <2>3
<1>8. ASSUME NEW p \in Processes, Dies(p) PROVE NothingSent
  <2>1. \A d \in Calls : call'[d].at \in {"dispatched", "answered", "kept", "settled"}
                            <=> call[d].at \in {"dispatched", "answered", "kept", "settled"}
    BY <1>0, <1>8 DEF Dies, Places
  <2>2. Sent' = Sent
    BY <1>1, <2>1 DEF Sent
  <2>3. QED
    BY <1>8, <2>2 DEF Dies, NothingSent
<1>9. ASSUME NEW p \in Processes, SetRequestLimit(p) \/ IncreaseCap(p) \/ Start(p) PROVE NothingSent
  BY <1>9 DEF SetRequestLimit, IncreaseCap, Start, NothingSent, Sent
<1>10. CASE UNCHANGED vars
  BY <1>10 DEF vars, NothingSent, Sent
<1>11. QED
  BY <1>3, <1>5, <1>6, <1>7, <1>8, <1>9, <1>10 DEF Next

-----------------------------------------------------------------------------
(***************************************************************************)
(* Theorems.                                                               *)
(***************************************************************************)

(* The invariant that the safety theorems rest on.                         *)
THEOREM Invariant == Spec => []IInv
<1>1. QED
  BY InitInv, NextKeeps, PTL DEF Spec

(* Every variable keeps its type: no ledger amount ever goes below zero.   *)
THEOREM TypeCorrect == Spec => []TypeOK
<1>1. IInv => TypeOK
  BY DEF IInv
<1>2. QED
  BY <1>1, Invariant, PTL

(* The ledger never shows less than the provider has charged, whichever    *)
(* processes fail, die or settle late, in any order.                       *)
THEOREM ChargesAreCovered == Spec => []SpendingIsCovered
<1>1. IInv => SpendingIsCovered
  <2> SUFFICES ASSUME IInv PROVE spent <= ledger.estimated
    BY DEF SpendingIsCovered
  <2>1. PICK G : IsSum(G, Slack) /\ ledger.estimated = spent + G[Calls]
    BY DEF IInv, Covered
  <2>2. G[Calls] \in Nat /\ spent \in Nat
    BY <2>1 DEF IsSum, IInv, TypeOK
  <2>3. QED
    BY <2>1, <2>2
<1>2. QED
  BY <1>1, Invariant, PTL

(* The estimate stays under the ledger's cap and the requests within its   *)
(* limit, whatever each process believes they are.                         *)
THEOREM AmountsAreWithin == Spec => []LedgerIsWithin
<1>1. IInv => LedgerIsWithin
  BY DEF IInv
<1>2. QED
  BY <1>1, Invariant, PTL

(* The ledger counts every reservation once, and as unsettled until its    *)
(* usage is known.                                                         *)
THEOREM RequestsAreCounted == Spec => []CountsAreExact
<1>1. IInv => CountsAreExact
  BY DEF IInv
<1>2. QED
  BY <1>1, Invariant, PTL

(* No cap above the default without a request limit.                       *)
THEOREM ElevationIsLimited == Spec => []ElevatedIsLimited
<1>1. IInv => ElevatedIsLimited
  BY DEF IInv
<1>2. QED
  BY <1>1, Invariant, PTL

(* The account is sound for every cap, limit, price and number of          *)
(* processes.                                                              *)
THEOREM LedgerStaysSound == Spec => []LedgerIsSound
<1>1. QED
  BY TypeCorrect, ChargesAreCovered, AmountsAreWithin, RequestsAreCounted,
     ElevationIsLimited, PTL DEF LedgerIsSound

(* A ledger is never begun anew; its count never falls, and its cap and    *)
(* limit only rise.                                                        *)
THEOREM NothingIsForgotten == Spec => LedgerRemembers
<1>1. IInv /\ [Next]_vars => [Remembers]_vars
  BY StepRemembers
<1>2. QED
  BY <1>1, Invariant, PTL DEF Spec, LedgerRemembers

(* A dispatch is a charge within the cap and the limit of the moment.      *)
LEMMA DispatchIsCharge ==
  ASSUME IInv, NEW c \in Calls, Dispatch(c)
  PROVE  Meter!Charge
<1>1. PICK charge \in 0..call[c].cost :
        /\ call' = [call EXCEPT ![c].at = "dispatched", ![c].charge = charge]
        /\ spent' = spent + charge
  BY DEF Dispatch
<1>2. /\ call \in [Calls -> [at : Places, cost : Nat, charge : Nat, usage : Nat]]
      /\ spent \in Nat /\ ledger \in Ledger
  BY DEF IInv, TypeOK
<1>3. /\ call'[c].at = "dispatched" /\ OthersStay(c) /\ call[c].at = "reserved"
      /\ UNCHANGED <<exists, ledger>>
  BY <1>1, <1>2 DEF OthersStay, Dispatch
<1>4. /\ IsFiniteSet(Sent) /\ IsFiniteSet(Counted) /\ ledger.requests = Cardinality(Counted)
  BY CountsAreFinite
<1>5. Sent' = Sent \cup {c} /\ c \notin Sent
  <2>1. \A d \in Calls : d # c => (d \in Sent' <=> d \in Sent)
    BY <1>3 DEF OthersStay, Sent
  <2>2. Sent \subseteq Calls /\ Sent' \subseteq Calls /\ c \in Sent' /\ c \notin Sent
    BY <1>3 DEF Sent
  <2>3. QED
    BY <2>1, <2>2
<1>6. Cardinality(Sent') = Cardinality(Sent) + 1
  BY <1>4, <1>5, FS_AddElement
<1>7. Cardinality(Sent) < ledger.requests /\ Cardinality(Sent) \in Nat /\ ledger.requests \in Nat
  <2>1. Sent \cup {c} \subseteq Counted
    BY <1>3 DEF Counted
  <2>2. Cardinality(Sent \cup {c}) = Cardinality(Sent) + 1
    BY <1>4, <1>5, FS_AddElement
  <2>3. Cardinality(Sent \cup {c}) <= Cardinality(Counted)
    BY <1>4, <2>1, FS_Subset
  <2>4. Cardinality(Sent) \in Nat /\ Cardinality(Counted) \in Nat
    BY <1>4, FS_CardinalityType
  <2>5. QED
    BY <1>4, <2>2, <2>3, <2>4
<1>8. exists
  BY <1>7 DEF IInv, NotBegun
<1>9. /\ ledger.limit = NoLimit \/ (ledger.limit \in Nat /\ Cardinality(Sent) < ledger.limit)
      /\ ledger.cap \in Nat /\ ledger.estimated \in Nat /\ ledger.estimated <= ledger.cap
  <2>1. /\ ledger.limit = NoLimit \/ ledger.limit \in Nat
        /\ ledger.cap \in Nat /\ ledger.estimated \in Nat
    BY <1>2, BudgetAssumption DEF Ledger
  <2>2. QED
    BY <1>7, <2>1 DEF IInv, LedgerIsWithin
<1>10. charge \in Nat /\ charge <= Slack[c] /\ Slack[c] \in Nat
  BY <1>1, <1>2, <1>3 DEF Slack, Held, IInv, CallsAreSound
<1>11. charge \in 0..(ledger.cap - spent)
  BY <1>2, <1>9, <1>10, RoomOfCall
<1>12. QED
  BY <1>1, <1>3, <1>6, <1>8, <1>9, <1>11 DEF Meter!Charge

(* Whatever else happens sends nothing and only raises the amounts.        *)
LEMMA OthersAuthorize ==
  ASSUME IInv, IInv', Remembers, NothingSent
  PROVE  Meter!Authorize
<1> DEFINE cap == IF exists THEN ledger.cap ELSE 0
           limit == IF exists THEN ledger.limit ELSE NoLimit
<1>1. /\ ledger.cap \in Nat /\ (ledger.limit = NoLimit \/ ledger.limit \in Nat)
      /\ ledger'.cap \in Nat /\ (ledger'.limit = NoLimit \/ ledger'.limit \in Nat)
      /\ ledger'.requests \in Nat
  BY BudgetAssumption DEF IInv, TypeOK, Ledger
<1>2. cap' \in Nat /\ cap' >= cap
  BY <1>1 DEF Remembers
<1>3. Cardinality(Sent') <= ledger'.requests /\ Cardinality(Sent') \in Nat
  <2>1. Sent' \subseteq Counted' /\ Counted' \subseteq Calls
    BY DEF Counted, Sent
  <2>2. IsFiniteSet(Counted') /\ ledger'.requests = Cardinality(Counted')
    BY <2>1, FS_Subset, BudgetAssumption DEF IInv, CountsAreExact
  <2>3. QED
    BY <2>1, <2>2, FS_Subset, FS_CardinalityType
<1>4. limit' = limit \/ (limit' \in Nat /\ limit' >= Cardinality(Sent) /\ (limit # NoLimit => limit' > limit))
  <2>1. Sent' = Sent
    BY DEF NothingSent
  <2>2. PICK n \in Nat : n = Cardinality(Sent) /\ n <= ledger'.requests
    BY <1>3, <2>1
  <2>3. ledger'.limit = NoLimit \/ (ledger'.limit \in Nat /\ n <= ledger'.limit)
    BY <1>1, <2>2 DEF IInv, LedgerIsWithin
  <2>4. QED
    BY <1>1, <2>2, <2>3 DEF Remembers
<1>5. UNCHANGED <<spent, Cardinality(Sent)>>
  BY DEF NothingSent
<1>6. QED
  BY <1>2, <1>4, <1>5 DEF Meter!Authorize

(* Processes that share a ledger, fail and restart implement one meter of  *)
(* what was charged: each step is a charge, an authorization or nothing.   *)
THEOREM BudgetIsMeter == Spec => ImplementsMeter
<1>1. Init => Meter!Init
  <2> SUFFICES ASSUME Init PROVE Meter!Init
    OBVIOUS
  <2>1. Sent = {}
    BY DEF Init, Idle, Sent
  <2>2. Cardinality(Sent) = 0
    BY <2>1, FS_EmptySet
  <2>3. QED
    BY <2>2 DEF Init, Meter!Init
<1>2. IInv /\ IInv' /\ [Next]_vars => [Meter!Next]_(Meter!vars)
  <2> SUFFICES ASSUME IInv, IInv', [Next]_vars PROVE Meter!Next
    OBVIOUS
  <2>1. CASE \E c \in Calls : Dispatch(c)
    BY <2>1, DispatchIsCharge DEF Meter!Next
  <2>2. CASE ~\E c \in Calls : Dispatch(c)
    <3>1. NothingSent
      BY <2>2, OthersSendNothing
    <3>2. Remembers
      BY StepRemembers
    <3>3. QED
      BY <3>1, <3>2, OthersAuthorize DEF Meter!Next
  <2>3. QED
    BY <2>1, <2>2
<1>3. QED
  BY <1>1, <1>2, Invariant, PTL DEF Spec, ImplementsMeter, Meter!Spec

-----------------------------------------------------------------------------
(***************************************************************************)
(* GameBatch: three paid games and the controllers that play them.         *)
(***************************************************************************)

Looks == [requests : Int, unsettled : Int]
Outcome == [completed : BOOLEAN, recorded : Int, spent : Int, total : Int, unsettled : Int,
            clean : BOOLEAN, finalized : BOOLEAN, terminal : BOOLEAN]
OneGame ==
  [at : {"none", "checking", "starting", "polling", "finalizing", "reporting", "teardown", "exited", "dead"},
   expected : Looks, base : Looks, services : BOOLEAN,
   native : {"none", "playing", "stuck", "over", "bare"}, attempt : {"none", "asked", "answered"},
   rows : Nat, made : Nat, clean : BOOLEAN, result : Outcome, printed : BOOLEAN]
OneReceipt == [qualified : BOOLEAN, before : Looks, after : Looks]
OneFolder ==
  [manifest : Looks,
   cursor : [status : {"none", "ready", "inflight", "stopped", "completed"}, next : 0..4],
   receipts : [Games -> OneReceipt], artifacts : SUBSET Games]
OneController ==
  [at : {"idle", "claiming", "freezing", "pointing", "resuming", "limiting", "capping", "looping",
         "launching", "waiting", "verifying", "closing"},
   in : Folders, next : 0..4, start : Looks, current : Looks, before : Looks]

BatchTypes ==
  /\ budget \in [requests : Nat, unsettled : Nat, limit : {"old", "new"}, cap : {"old", "new"}]
  /\ game \in [Games -> OneGame] /\ strangers \in Nat /\ faults \in Nat
  /\ lock \subseteq Controllers /\ ctl \in [Controllers -> OneController]
  /\ disk \in [Folders -> OneFolder] /\ claim \subseteq Dirs /\ last \in BOOLEAN
  /\ launched \in [Games -> Nat]

(* A request that a game waits for is among the unsettled ones.            *)
BudgetOK ==
  /\ budget.requests <= MaxRequests /\ budget.unsettled <= budget.requests
  /\ \A g \in Games : game[g].services /\ game[g].attempt = "asked" => budget.unsettled >= 1

(* A game writes no row for an attempt it did not make, and one that was   *)
(* seen to be over stays so.                                               *)
Fresh(c) == ~c.services /\ c.attempt = "none" /\ ~c.result.completed
PlayOK(c) ==
  /\ c.rows <= c.made /\ (c.attempt # "none" => c.rows < c.made)
  /\ c.result.completed => c.native = "over"
  /\ c.at \in {"checking", "starting"} => Fresh(c)

(* A receipt starts from the ledger its predecessor was closed with.       *)
FolderOK(f) ==
  LET s == disk[f].cursor.status
      n == disk[f].cursor.next
  IN  /\ s = "none" => disk[f].cursor = NoCursor /\ disk[f].artifacts = {} /\ \A g \in Games : ~Received(f, g)
      /\ s # "none" =>
           /\ disk[f].manifest # None /\ n >= First(f)
           /\ \A g \in Games \ {n} : g \in disk[f].artifacts <=> First(f) <= g /\ g < n
           /\ s = "ready" => n \notin disk[f].artifacts
      /\ \A g \in Games : Received(f, g) =>
           /\ g \in disk[f].artifacts
           /\ f # "batch" \/ g # 1 => disk[f].receipts[g].before = LedgerBefore(f, g)
      /\ \A g \in Games : g \in disk[f].artifacts /\ g # n => Received(f, g)
      /\ disk[f].manifest # None /\ f # "batch" => disk[f].manifest = StartsFrom(f)

(* The batch, the continuation that has the claim, and the last attempt    *)
(* follow one another.                                                     *)
LineOK ==
  /\ claim = {} \/ \E d \in Dirs : claim = {d}
  /\ claim # {} => StoppedAt("batch", 1)
  /\ \A d \in Dirs : disk[d].manifest # None => claim = {d}
  /\ last => \E d \in claim : StoppedAt(d, 2)
  /\ disk["final"].manifest # None => last

LockOK ==
  /\ lock = {} \/ \E p \in Controllers : lock = {p}
  /\ \A p \in Controllers : ctl[p].at # "idle" <=> p \in lock

(* What a controller found in its folder, and holds in memory.             *)
PlaceOK(p) ==
  LET f == ctl[p].in
      g == ctl[p].next
      at == ctl[p].at
  IN  at # "idle" =>
      /\ Entitled(f)
      /\ at = "claiming" => f # "batch" /\ disk[f].manifest = None /\ ~Claimed(f)
      /\ at = "freezing" => /\ disk[f].manifest = None
                            /\ f \in Dirs => claim = {f}
                            /\ f = "final" => last
      /\ at \in {"claiming", "freezing"} => ctl[p].start # None /\ (f # "batch" => ctl[p].start = StartsFrom(f))
      /\ at = "pointing" => /\ disk[f].manifest # None /\ disk[f].cursor.status = "none"
                            /\ f = "final" => ctl[p].start = disk[f].manifest
      /\ at = "resuming" => f # "final" /\ disk[f].cursor.status # "none"
      /\ at \in {"limiting", "capping"} => f = "batch"
      /\ at \in {"limiting", "capping", "looping"} =>
           disk[f].cursor = Ready(g) /\ (f # "batch" \/ g # 1 => ctl[p].current = LedgerBefore(f, g))
      /\ at \in {"launching", "waiting", "verifying", "closing"} =>
           g \in Games /\ disk[f].cursor = [status |-> "inflight", next |-> g]
      /\ at \in {"launching", "waiting", "verifying"} =>
           ~Received(f, g) /\ (f # "batch" \/ g # 1 => ctl[p].before = LedgerBefore(f, g))
      /\ at = "launching" => g \notin disk[f].artifacts /\ ctl[p].before.requests <= budget.requests
      /\ at \in {"waiting", "verifying", "closing"} => g \in disk[f].artifacts
      /\ at \in {"waiting", "verifying"} => ctl[p].before.requests + game[g].made <= budget.requests
      /\ at \in {"verifying", "closing"} => ~Alive(g)
      /\ at = "closing" => Received(f, g)

(* A game lives only while a cursor says that it is in flight.             *)
GamesOK ==
  \A g \in Games :
    /\ PlayOK(game[g])
    /\ Alive(g) => \E f \in Folders : disk[f].cursor = [status |-> "inflight", next |-> g]
    /\ launched[g] <= 1 /\ (launched[g] > 0 => \E f \in Folders : g \in disk[f].artifacts)

BatchInv ==
  /\ BatchTypes /\ BudgetOK /\ LockOK /\ LineOK /\ GamesOK /\ QualifiedIsExact
  /\ (\A f \in Folders : FolderOK(f)) /\ (\A p \in Controllers : PlaceOK(p))

(***************************************************************************)
(* The folders: which of them is in use, and what the others hold.         *)
(***************************************************************************)

LEMMA GamesAre == Games = {1, 2, 3}
BY BatchAssumption

LEMMA FoldersAre ==
  /\ "batch" \in Folders /\ "final" \in Folders /\ Dirs \subseteq Folders
  /\ "batch" \notin Dirs /\ "final" \notin Dirs
  /\ \A f \in Folders : f = "batch" \/ f = "final" \/ f \in Dirs
  /\ First("batch") = 1 /\ First("final") = 3 /\ \A d \in Dirs : First(d) = 2
<1>1. "batch" \notin Dirs /\ "final" \notin Dirs
  BY BatchAssumption
<1>2. First("batch") = 1 /\ First("final") = 3
  BY DEF First
<1>3. \A d \in Dirs : First(d) = 2
  BY <1>1 DEF First
<1>4. QED
  BY <1>1, <1>2, <1>3 DEF Folders

LEMMA StartsAre ==
  /\ \A d \in Dirs : StartsFrom(d) = disk["batch"].receipts[1].after
  /\ \A d : claim = {d} => StartsFrom("final") = disk[d].receipts[2].after
<1>1. ASSUME NEW d \in Dirs
      PROVE  StartsFrom(d) = disk["batch"].receipts[1].after
  BY FoldersAre DEF StartsFrom
<1>2. ASSUME NEW d, claim = {d}
      PROVE  StartsFrom("final") = disk[d].receipts[2].after
  <2>1. d = CHOOSE x \in claim : TRUE
    BY <1>2
  <2>2. StartsFrom("final") = IF claim = {} THEN None
                              ELSE disk[CHOOSE x \in claim : TRUE].receipts[2].after
    BY DEF StartsFrom
  <2>3. QED
    BY <1>2, <2>1, <2>2
<1>3. QED
  BY <1>1, <1>2

(* A folder that another one follows has stopped, and its later games were *)
(* not begun.                                                              *)
Bare(f) == disk[f].cursor.status = "none" /\ disk[f].artifacts = {} /\ \A g \in Games : ~Received(f, g)

Order ==
  /\ \A d \in Dirs : disk[d].manifest # None => claim = {d} /\ StoppedAt("batch", 1)
  /\ disk["final"].manifest # None =>
       last /\ \E d \in Dirs : claim = {d} /\ StoppedAt(d, 2) /\ StoppedAt("batch", 1)
  /\ \A f \in Folders : disk[f].manifest = None => Bare(f)

LEMMA OrderHolds ==
  ASSUME BatchInv
  PROVE  Order
<1>1. ASSUME NEW d \in Dirs, disk[d].manifest # None
      PROVE  claim = {d} /\ StoppedAt("batch", 1)
  BY <1>1 DEF BatchInv, LineOK
<1>2. ASSUME disk["final"].manifest # None
      PROVE  last /\ \E d \in Dirs : claim = {d} /\ StoppedAt(d, 2) /\ StoppedAt("batch", 1)
  <2>1. last
    BY <1>2 DEF BatchInv, LineOK
  <2>2. PICK d \in claim : StoppedAt(d, 2)
    BY <2>1 DEF BatchInv, LineOK
  <2>3. d \in Dirs /\ claim = {d} /\ StoppedAt("batch", 1)
    BY <2>2 DEF BatchInv, LineOK
  <2>4. QED
    BY <2>1, <2>2, <2>3
<1>3. ASSUME NEW f \in Folders, disk[f].manifest = None
      PROVE  Bare(f)
  <2>1. FolderOK(f)
    BY DEF BatchInv
  <2>2. disk[f].cursor.status = "none"
    BY <1>3, <2>1 DEF FolderOK
  <2>3. QED
    BY <2>1, <2>2 DEF FolderOK, Bare
<1>4. QED
  BY <1>1, <1>2, <1>3 DEF Order

(* Where a game's artifacts can be.                                        *)
LEMMA Within ==
  ASSUME BatchInv, NEW f \in Folders
  PROVE  /\ \A g \in disk[f].artifacts : g \in Games /\ First(f) <= g
         /\ \A g \in Games : Received(f, g) => g \in disk[f].artifacts
         /\ \A n \in Games : StoppedAt(f, n) => \A g \in disk[f].artifacts : g <= n
<1>1. FolderOK(f) /\ disk[f].artifacts \subseteq Games
  BY DEF BatchInv, BatchTypes, OneFolder
<1>2. \A g \in Games : Received(f, g) => g \in disk[f].artifacts
  BY <1>1 DEF FolderOK
<1>3. ASSUME NEW g \in disk[f].artifacts
      PROVE  g \in Games /\ First(f) <= g
  <2>1. g \in Games /\ disk[f].cursor.status # "none"
    BY <1>1, <1>3 DEF FolderOK
  <2>2. disk[f].cursor.next >= First(f) /\ \A h \in Games \ {disk[f].cursor.next} :
          h \in disk[f].artifacts <=> First(f) <= h /\ h < disk[f].cursor.next
    BY <1>1, <2>1 DEF FolderOK
  <2>3. CASE g = disk[f].cursor.next
    BY <2>1, <2>2, <2>3
  <2>4. CASE g # disk[f].cursor.next
    BY <1>3, <2>1, <2>2, <2>4
  <2>5. QED
    BY <2>1, <2>3, <2>4
<1>4. ASSUME NEW n \in Games, StoppedAt(f, n), NEW g \in disk[f].artifacts
      PROVE  g <= n
  BY <1>1, <1>4, GamesAre DEF StoppedAt
<1>5. QED
  BY <1>2, <1>3, <1>4

(* No game has artifacts in two folders.                                   *)
LEMMA Apart ==
  ASSUME BatchInv, NEW f \in Folders, NEW h \in Folders, f # h,
         NEW g \in disk[f].artifacts
  PROVE  g \notin disk[h].artifacts
<1>0. Order
  BY OrderHolds
<1> DEFINE Begun(x) == disk[x].manifest # None
<1>1. \A x \in Folders : disk[x].artifacts # {} => Begun(x)
  BY <1>0 DEF Order, Bare
<1>2. \A x \in Folders : \A y \in disk[x].artifacts : y \in Games /\ First(x) <= y
  BY Within
<1>3. \A x \in Folders, n \in Games : StoppedAt(x, n) => \A y \in disk[x].artifacts : y <= n
  BY Within
<1>4. SUFFICES ASSUME g \in disk[h].artifacts PROVE FALSE
  OBVIOUS
<1>5. Begun(f) /\ Begun(h)
  BY <1>1, <1>4
<1>6. \A d \in Dirs : Begun(d) => claim = {d} /\ \A y \in disk["batch"].artifacts : y <= 1
  <2>1. ASSUME NEW d \in Dirs, Begun(d)
        PROVE  claim = {d} /\ \A y \in disk["batch"].artifacts : y <= 1
    <3>1. claim = {d} /\ StoppedAt("batch", 1)
      BY <1>0, <2>1 DEF Order
    <3>2. QED
      BY <1>3, <3>1, FoldersAre, GamesAre
  <2>2. QED
    BY <2>1
<1>7. Begun("final") =>
        \E d \in Dirs : /\ claim = {d} /\ \A y \in disk[d].artifacts : y <= 2
                        /\ \A y \in disk["batch"].artifacts : y <= 1
  <2>1. SUFFICES ASSUME Begun("final")
                 PROVE  \E d \in Dirs : /\ claim = {d} /\ \A y \in disk[d].artifacts : y <= 2
                                        /\ \A y \in disk["batch"].artifacts : y <= 1
    OBVIOUS
  <2>2. PICK d \in Dirs : claim = {d} /\ StoppedAt(d, 2) /\ StoppedAt("batch", 1)
    BY <1>0, <2>1 DEF Order
  <2>3. d \in Folders /\ \A y \in disk[d].artifacts : y <= 2
    BY <1>3, <2>2, FoldersAre, GamesAre
  <2>4. \A y \in disk["batch"].artifacts : y <= 1
    BY <1>3, <2>2, FoldersAre, GamesAre
  <2>5. QED
    BY <2>2, <2>3, <2>4
<1>8. First(f) <= g /\ First(h) <= g /\ g \in {1, 2, 3}
  BY <1>2, <1>4, GamesAre
<1>9. CASE f = "batch" \/ h = "batch"
  <2>1. PICK x \in Folders : x # "batch" /\ x \in {f, h}
    OBVIOUS
  <2>2. x = "final" \/ x \in Dirs
    BY <2>1, FoldersAre
  <2>3. g <= 1
    BY <1>4, <1>5, <1>6, <1>7, <1>9, <2>1, <2>2
  <2>4. First(x) <= g /\ First(x) \in {2, 3}
    BY <1>8, <2>1, <2>2, FoldersAre
  <2>5. QED
    BY <1>8, <2>3, <2>4
<1>10. CASE f \in Dirs /\ h \in Dirs
  BY <1>5, <1>6, <1>10
<1>11. CASE (f = "final" /\ h \in Dirs) \/ (h = "final" /\ f \in Dirs)
  <2>1. PICK x \in Dirs : x \in {f, h} /\ Begun(x) /\ Begun("final") /\ g \in disk[x].artifacts
    BY <1>4, <1>5, <1>11
  <2>2. PICK d \in Dirs : claim = {d} /\ \A y \in disk[d].artifacts : y <= 2
    BY <1>7, <2>1
  <2>3. x = d
    BY <1>6, <2>1, <2>2
  <2>4. g <= 2
    BY <2>1, <2>2, <2>3
  <2>5. First("final") <= g
    BY <1>8, <1>11
  <2>6. QED
    BY <1>8, <2>4, <2>5, FoldersAre
<1>12. QED
  BY <1>9, <1>10, <1>11, FoldersAre

(* No two folders are in use, and so no two games are alive.               *)
Used(f) == disk[f].cursor.status \in {"ready", "inflight"}

LEMMA OneUsed ==
  ASSUME BatchInv, NEW f \in Folders, NEW h \in Folders, Used(f), disk[h].manifest # None
  PROVE  f = h \/ StoppedAt(h, First(h))
<1>0. Order
  BY OrderHolds
<1>1. disk[f].manifest # None /\ \A n \in Games : ~StoppedAt(f, n)
  BY <1>0 DEF Order, Bare, Used, StoppedAt
<1>2. QED
  BY <1>0, <1>1, FoldersAre, GamesAre DEF Order

LEMMA OneAlive ==
  ASSUME BatchInv, NEW g \in Games, NEW h \in Games, Alive(g), Alive(h)
  PROVE  g = h
<1>0. Order
  BY OrderHolds
<1>1. PICK f \in Folders : disk[f].cursor = [status |-> "inflight", next |-> g]
  BY DEF BatchInv, GamesOK
<1>2. PICK e \in Folders : disk[e].cursor = [status |-> "inflight", next |-> h]
  BY DEF BatchInv, GamesOK
<1>3. Used(f) /\ Used(e) /\ disk[e].manifest # None /\ ~StoppedAt(e, First(e))
  BY <1>0, <1>1, <1>2 DEF Order, Bare, Used, StoppedAt
<1>4. f = e
  BY <1>3, OneUsed
<1>5. QED
  BY <1>1, <1>2, <1>4

(***************************************************************************)
(* One game, as its launcher and its services play it.                     *)
(***************************************************************************)

(* What every step of a game has in common.                                *)
Became(g, v) == Alive(g) /\ v \in OneGame /\ PlayOK(v) /\ game' = [game EXCEPT ![g] = v]
Free(v) == ~v.services \/ v.attempt # "asked"
Asked(v) == v.services /\ v.attempt = "asked"
Counts(b) == b \in [requests : Nat, unsettled : Nat, limit : {"old", "new"}, cap : {"old", "new"}]
             /\ b.requests <= MaxRequests /\ b.unsettled <= b.requests
Played(g) ==
  \E v \in OneGame :
    /\ Became(g, v)
    /\ Counts(budget') /\ budget'.requests - budget.requests = v.made - game[g].made
    /\ v.made >= game[g].made
    /\ Asked(v) => budget'.unsettled >= 1
    /\ faults' \in Nat /\ strangers' \in Nat

LEMMA LooksAreTyped ==
  ASSUME BatchInv
  PROVE  Counts(budget) /\ Snapshot \in Looks /\ None \in Looks /\ faults \in Nat /\ strangers \in Nat
<1>1. Counts(budget)
  BY DEF BatchInv, BatchTypes, BudgetOK, Counts
<1>2. budget.requests \in Int /\ budget.unsettled \in Int
  BY <1>1 DEF Counts
<1>3. Snapshot \in Looks
  BY <1>2 DEF Snapshot, Looks
<1>4. None \in Looks
  BY DEF None, Looks
<1>5. QED
  BY <1>1, <1>3, <1>4 DEF BatchInv, BatchTypes

(* A step that leaves the ledger alone and makes no attempt.               *)
LEMMA QuietStep ==
  ASSUME BatchInv, NEW g \in Games, NEW v \in OneGame, Became(g, v),
         v.made = game[g].made, Asked(v) => Asked(game[g]),
         budget' = budget, faults' \in Nat, strangers' = strangers
  PROVE  Played(g)
<1>1. Counts(budget) /\ strangers \in Nat
  BY LooksAreTyped
<1>2. game[g].made \in Nat
  BY DEF BatchInv, BatchTypes, OneGame
<1>3. Asked(game[g]) => budget.unsettled >= 1
  BY DEF BatchInv, BudgetOK, Asked
<1>4. budget.requests - budget.requests = v.made - game[g].made /\ v.made >= game[g].made
  BY <1>1, <1>2 DEF Counts
<1>5. QED
  BY <1>1, <1>3, <1>4 DEF Played

(* A step that changes only where the launcher stands.                     *)
LEMMA PlaceStep ==
  ASSUME BatchInv, NEW g \in Games, Alive(g),
         NEW place \in {"checking", "starting", "polling", "finalizing", "reporting",
                        "teardown", "exited", "dead"},
         place \in {"checking", "starting"} => Fresh(game[g]),
         Goes(g, place), budget' = budget, faults' \in Nat, strangers' = strangers
  PROVE  Played(g)
<1>1. PICK c \in OneGame : c = game[g] /\ PlayOK(c)
  BY DEF BatchInv, BatchTypes, GamesOK
<1>2. PICK v : v = [c EXCEPT !.at = place]
  OBVIOUS
<1>3. v \in OneGame
  BY <1>2 DEF OneGame
<1>4. /\ v.rows = c.rows /\ v.made = c.made /\ v.attempt = c.attempt /\ v.native = c.native
      /\ v.result = c.result /\ v.services = c.services /\ v.at = place
  BY <1>2 DEF OneGame
<1>5. PlayOK(v)
  BY <1>1, <1>4 DEF PlayOK, Fresh
<1>6. game' = [game EXCEPT ![g] = v]
  BY <1>1, <1>2 DEF Goes, BatchInv, BatchTypes
<1>7. Became(g, v)
  BY <1>3, <1>5, <1>6 DEF Became
<1>8. QED
  BY <1>1, <1>3, <1>4, <1>7, QuietStep DEF Asked

LEMMA ChecksPlays ==
  ASSUME BatchInv, NEW g \in Games, Checks(g)
  PROVE  Played(g)
<1>1. Alive(g) /\ budget' = budget /\ faults' = faults /\ strangers' = strangers
  BY DEF Checks, At, Alive
<1>2. Fresh(game[g])
  BY DEF Checks, At, BatchInv, GamesOK, PlayOK
<1>3. faults' \in Nat
  BY <1>1, LooksAreTyped
<1>4. CASE Goes(g, "starting")
  BY <1>1, <1>2, <1>3, <1>4, PlaceStep
<1>5. CASE Goes(g, "exited")
  BY <1>1, <1>2, <1>3, <1>5, PlaceStep
<1>6. QED
  BY <1>4, <1>5 DEF Checks

LEMMA FailsPlays ==
  ASSUME BatchInv, NEW g \in Games, Fails(g)
  PROVE  Played(g)
<1>1. Alive(g) /\ budget' = budget /\ faults' = faults /\ strangers' = strangers /\ Goes(g, "teardown")
  BY DEF Fails, At, Alive
<1>2. faults' \in Nat
  BY <1>1, LooksAreTyped
<1>3. QED
  BY <1>1, <1>2, PlaceStep

LEMMA DiesPlays ==
  ASSUME BatchInv, NEW g \in Games, LauncherDies(g)
  PROVE  Played(g)
<1>1. Alive(g) /\ budget' = budget /\ faults' = faults + 1 /\ strangers' = strangers /\ Goes(g, "dead")
  BY DEF LauncherDies, Fault, Alive
<1>2. faults' \in Nat
  BY <1>1, LooksAreTyped
<1>3. QED
  BY <1>1, <1>2, PlaceStep

LEMMA StartsPlays ==
  ASSUME BatchInv, NEW g \in Games, Starts(g)
  PROVE  Played(g)
<1>1. PICK c \in OneGame : c = game[g] /\ PlayOK(c)
  BY DEF BatchInv, BatchTypes, GamesOK
<1>2. PICK s \in Looks : s = Snapshot
  BY LooksAreTyped
<1>3. PICK t \in BOOLEAN : t = TRUE
  OBVIOUS
<1>4. Alive(g) /\ budget' = budget /\ faults' = faults /\ strangers' = strangers /\ c.at = "starting"
  BY <1>1 DEF Starts, At, Alive
<1>5. Fresh(c)
  BY <1>1, <1>4 DEF PlayOK
<1>6. faults' \in Nat
  BY <1>4, LooksAreTyped
<1>7. CASE game' = [game EXCEPT ![g].services = TRUE, ![g].at = "polling",
                                ![g].base = Snapshot, ![g].native = "playing"]
  <2>1. PICK v : v = [c EXCEPT !.services = t, !.at = "polling", !.base = s, !.native = "playing"]
    OBVIOUS
  <2>2. v \in OneGame
    BY <2>1 DEF OneGame
  <2>3. /\ v.rows = c.rows /\ v.made = c.made /\ v.attempt = c.attempt
        /\ v.result = c.result /\ v.at = "polling"
    BY <2>1 DEF OneGame
  <2>4. game' = [game EXCEPT ![g] = v]
    BY <1>1, <1>2, <1>3, <1>7, <2>1 DEF BatchInv, BatchTypes
  <2>5. PlayOK(v) /\ ~Asked(v)
    BY <1>1, <1>5, <2>3 DEF PlayOK, Fresh, Asked
  <2>6. Became(g, v)
    BY <1>4, <2>2, <2>4, <2>5 DEF Became
  <2>7. QED
    BY <1>1, <1>4, <1>6, <2>2, <2>3, <2>5, <2>6, QuietStep
<1>8. CASE game' = [game EXCEPT ![g].services = TRUE, ![g].at = "teardown"]
  <2>1. PICK v : v = [c EXCEPT !.services = t, !.at = "teardown"]
    OBVIOUS
  <2>2. v \in OneGame
    BY <2>1 DEF OneGame
  <2>3. /\ v.rows = c.rows /\ v.made = c.made /\ v.attempt = c.attempt
        /\ v.result = c.result /\ v.at = "teardown"
    BY <2>1 DEF OneGame
  <2>4. game' = [game EXCEPT ![g] = v]
    BY <1>1, <1>3, <1>8, <2>1 DEF BatchInv, BatchTypes
  <2>5. PlayOK(v) /\ ~Asked(v)
    BY <1>1, <1>5, <2>3 DEF PlayOK, Fresh, Asked
  <2>6. Became(g, v)
    BY <1>4, <2>2, <2>4, <2>5 DEF Became
  <2>7. QED
    BY <1>1, <1>4, <1>6, <2>2, <2>3, <2>5, <2>6, QuietStep
<1>9. QED
  BY <1>7, <1>8 DEF Starts

LEMMA PollsPlays ==
  ASSUME BatchInv, NEW g \in Games, Polls(g)
  PROVE  Played(g)
<1>1. PICK c \in OneGame : c = game[g] /\ PlayOK(c)
  BY DEF BatchInv, BatchTypes, GamesOK
<1>2. PICK t \in BOOLEAN : t = (c.native = "over")
  OBVIOUS
<1>3. Alive(g) /\ budget' = budget /\ faults' = faults /\ strangers' = strangers
  BY DEF Polls, At, Alive
<1>4. PICK r \in Outcome : r = [c.result EXCEPT !.completed = t]
  BY DEF OneGame, Outcome
<1>5. r.completed = t
  BY <1>4 DEF OneGame, Outcome
<1>6. PICK v : v = [c EXCEPT !.at = "finalizing", !.result = r]
  OBVIOUS
<1>7. v \in OneGame
  BY <1>6 DEF OneGame
<1>8. /\ v.rows = c.rows /\ v.made = c.made /\ v.attempt = c.attempt /\ v.native = c.native
      /\ v.result = r /\ v.services = c.services /\ v.at = "finalizing"
  BY <1>6 DEF OneGame
<1>9. game' = [game EXCEPT ![g] = v]
  <2>1. game' = [game EXCEPT ![g].at = "finalizing", ![g].result.completed = game[g].native = "over"]
    BY DEF Polls
  <2>2. game' = [game EXCEPT ![g].at = "finalizing", ![g].result.completed = t]
    BY <1>1, <1>2, <2>1
  <2>3. QED
    BY <1>1, <1>4, <1>6, <2>2 DEF BatchInv, BatchTypes, OneGame
<1>10. PlayOK(v)
  BY <1>1, <1>2, <1>5, <1>8 DEF PlayOK
<1>11. Became(g, v) /\ faults' \in Nat
  BY <1>3, <1>7, <1>9, <1>10, LooksAreTyped DEF Became
<1>12. QED
  BY <1>1, <1>3, <1>7, <1>8, <1>11, QuietStep DEF Asked

LEMMA FinalizesPlays ==
  ASSUME BatchInv, NEW g \in Games, Finalizes(g)
  PROVE  Played(g)
<1>1. PICK c \in OneGame : c = game[g] /\ PlayOK(c)
  BY DEF BatchInv, BatchTypes, GamesOK
<1>2. PICK flagged \in BOOLEAN :
        game' = Summarized(g, flagged, game[g].rows >= budget.requests - game[g].base.requests)
  BY DEF Finalizes, Flags
<1>3. PICK k \in BOOLEAN : k = (c.clean /\ ~flagged)
  OBVIOUS
<1>20. PICK t \in BOOLEAN : t = (game[g].rows >= budget.requests - game[g].base.requests)
  <2>1. PICK x \in Int, y \in Int : x = game[g].rows /\ y = budget.requests - game[g].base.requests
    BY <1>1, LooksAreTyped DEF Counts, OneGame, Looks
  <2>2. (x >= y) \in BOOLEAN
    OBVIOUS
  <2>3. QED
    BY <2>1, <2>2, Zenon
<1>4. Alive(g) /\ budget' = budget /\ faults' = faults /\ strangers' = strangers
  BY DEF Finalizes, At, Alive
<1>5. PICK m \in Int : m = c.rows
  BY DEF OneGame
<1>6. PICK r : r = [c.result EXCEPT !.recorded = m, !.clean = k, !.finalized = t]
  OBVIOUS
<1>7. r \in Outcome /\ r.completed = c.result.completed
  BY <1>6 DEF OneGame, Outcome
<1>8. PICK v : v = [c EXCEPT !.at = "reporting", !.result = r]
  OBVIOUS
<1>9. v \in OneGame
  BY <1>7, <1>8 DEF OneGame
<1>10. /\ v.rows = c.rows /\ v.made = c.made /\ v.attempt = c.attempt /\ v.native = c.native
       /\ v.result = r /\ v.services = c.services /\ v.at = "reporting"
  BY <1>8 DEF OneGame
<1>11. game' = [game EXCEPT ![g] = v]
  <2>1. game' = [game EXCEPT ![g].at = "reporting", ![g].result.recorded = m,
                              ![g].result.clean = k, ![g].result.finalized = t]
    BY <1>1, <1>2, <1>3, <1>5, <1>20 DEF Summarized
  <2>2. QED
    BY <1>1, <1>6, <1>8, <2>1 DEF BatchInv, BatchTypes, OneGame
<1>12. PlayOK(v)
  BY <1>1, <1>7, <1>10 DEF PlayOK
<1>13. Became(g, v) /\ faults' \in Nat
  BY <1>4, <1>9, <1>11, <1>12, LooksAreTyped DEF Became
<1>14. QED
  BY <1>1, <1>4, <1>9, <1>10, <1>13, QuietStep DEF Asked

LEMMA ReportsPlays ==
  ASSUME BatchInv, NEW g \in Games, Reports(g)
  PROVE  Played(g)
<1>1. PICK c \in OneGame : c = game[g] /\ PlayOK(c)
  BY DEF BatchInv, BatchTypes, GamesOK
<1>2. PICK kept \in BOOLEAN :
        game' = [game EXCEPT
         ![g].at = "teardown", ![g].printed = TRUE, ![g].result.terminal = kept,
         ![g].result.spent = budget.requests - game[g].base.requests,
         ![g].result.total = budget.requests, ![g].result.unsettled = budget.unsettled]
  BY DEF Reports
<1>3. PICK t \in BOOLEAN : t = TRUE
  OBVIOUS
<1>4. Alive(g) /\ budget' = budget /\ faults' = faults /\ strangers' = strangers
  BY DEF Reports, At, Alive
<1>5. budget.requests \in Int /\ budget.unsettled \in Int /\ c.base.requests \in Int
  BY LooksAreTyped DEF Counts, OneGame, Looks
<1>6. PICK m \in Int : m = budget.requests - c.base.requests
  BY <1>5
<1>7. PICK n \in Int, u \in Int : n = budget.requests /\ u = budget.unsettled
  BY <1>5
<1>8. PICK r : r = [c.result EXCEPT !.terminal = kept, !.spent = m, !.total = n, !.unsettled = u]
  OBVIOUS
<1>9. r \in Outcome /\ r.completed = c.result.completed
  BY <1>8 DEF OneGame, Outcome
<1>10. PICK v : v = [c EXCEPT !.at = "teardown", !.printed = t, !.result = r]
  OBVIOUS
<1>11. v \in OneGame
  BY <1>9, <1>10 DEF OneGame
<1>12. /\ v.rows = c.rows /\ v.made = c.made /\ v.attempt = c.attempt /\ v.native = c.native
       /\ v.result = r /\ v.services = c.services /\ v.at = "teardown"
  BY <1>10 DEF OneGame
<1>13. game' = [game EXCEPT ![g] = v]
  <2>1. game' = [game EXCEPT ![g].at = "teardown", ![g].printed = t, ![g].result.terminal = kept,
                   ![g].result.spent = m, ![g].result.total = n, ![g].result.unsettled = u]
    BY <1>1, <1>2, <1>3, <1>6, <1>7
  <2>2. PICK w : w = [game[g] EXCEPT !.at = "teardown", !.printed = t, !.result.terminal = kept,
                                     !.result.spent = m, !.result.total = n, !.result.unsettled = u]
    OBVIOUS
  <2>3. game' = [game EXCEPT ![g] = w]
    BY ONLY <2>1, <2>2, ZenonT(60)
  <2>4. w = v
    BY <1>1, <1>8, <1>10, <2>2 DEF OneGame, Outcome
  <2>5. QED
    BY <2>3, <2>4
<1>14. PlayOK(v)
  BY <1>1, <1>9, <1>12 DEF PlayOK
<1>15. Became(g, v) /\ faults' \in Nat
  BY <1>4, <1>11, <1>13, <1>14, LooksAreTyped DEF Became
<1>16. QED
  BY <1>1, <1>4, <1>11, <1>12, <1>15, QuietStep DEF Asked

LEMMA TearsDownPlays ==
  ASSUME BatchInv, NEW g \in Games, TearsDown(g)
  PROVE  Played(g)
<1>1. PICK c \in OneGame : c = game[g] /\ PlayOK(c)
  BY DEF BatchInv, BatchTypes, GamesOK
<1>2. PICK t \in BOOLEAN : t = FALSE
  OBVIOUS
<1>3. Alive(g) /\ budget' = budget /\ faults' = faults /\ strangers' = strangers
  BY DEF TearsDown, At, Alive
<1>4. PICK v : v = [c EXCEPT !.at = "exited", !.services = t]
  OBVIOUS
<1>5. v \in OneGame
  BY <1>4 DEF OneGame
<1>6. /\ v.rows = c.rows /\ v.made = c.made /\ v.attempt = c.attempt /\ v.native = c.native
      /\ v.result = c.result /\ v.services = t /\ v.at = "exited"
  BY <1>4 DEF OneGame
<1>7. game' = [game EXCEPT ![g] = v]
  BY <1>1, <1>2, <1>4 DEF TearsDown, BatchInv, BatchTypes
<1>8. PlayOK(v) /\ ~Asked(v)
  BY <1>1, <1>2, <1>6 DEF PlayOK, Asked
<1>9. Became(g, v) /\ faults' \in Nat
  BY <1>3, <1>5, <1>7, <1>8, LooksAreTyped DEF Became
<1>10. QED
  BY <1>1, <1>3, <1>5, <1>6, <1>8, <1>9, QuietStep

LEMMA EndsPlays ==
  ASSUME BatchInv, NEW g \in Games, Ends(g)
  PROVE  Played(g)
<1>1. PICK c \in OneGame : c = game[g] /\ PlayOK(c)
  BY DEF BatchInv, BatchTypes, GamesOK
<1>2. PICK end \in {"over", "bare"} : game' = [game EXCEPT ![g].native = end]
  BY DEF Ends
<1>3. /\ Alive(g) /\ budget' = budget /\ faults' = faults /\ strangers' = strangers
      /\ c.native = "playing" /\ c.at = "polling"
  BY <1>1 DEF Ends, Playing, At, Alive
<1>4. PICK v : v = [c EXCEPT !.native = end]
  OBVIOUS
<1>5. v \in OneGame
  BY <1>4 DEF OneGame
<1>6. /\ v.rows = c.rows /\ v.made = c.made /\ v.attempt = c.attempt
      /\ v.result = c.result /\ v.services = c.services /\ v.at = c.at
  BY <1>4 DEF OneGame
<1>7. game' = [game EXCEPT ![g] = v]
  BY <1>1, <1>2, <1>4 DEF BatchInv, BatchTypes
<1>8. PlayOK(v)
  BY <1>1, <1>3, <1>6 DEF PlayOK
<1>9. Became(g, v) /\ faults' \in Nat
  BY <1>3, <1>5, <1>7, <1>8, LooksAreTyped DEF Became
<1>10. QED
  BY <1>1, <1>3, <1>5, <1>6, <1>9, QuietStep DEF Asked

LEMMA WritesPlays ==
  ASSUME BatchInv, NEW g \in Games, Writes(g)
  PROVE  Played(g)
<1>1. PICK c \in OneGame : c = game[g] /\ PlayOK(c)
  BY DEF BatchInv, BatchTypes, GamesOK
<1>2. PICK end \in {game[g].native} \cup (IF Playing(g) /\ ~game[g].clean THEN {"stuck"} ELSE {}) :
        game' = [game EXCEPT ![g].attempt = "none", ![g].rows = @ + 1, ![g].native = end]
  BY DEF Writes
<1>3. /\ Alive(g) /\ budget' = budget /\ faults' = faults /\ strangers' = strangers
      /\ c.attempt = "answered"
  BY <1>1 DEF Writes, Alive
<1>4. end \in {"none", "playing", "stuck", "over", "bare"} /\ (c.native = "over" => end = "over")
  <2>1. end = c.native \/ (end = "stuck" /\ Playing(g))
    BY <1>1, <1>2
  <2>2. Playing(g) => c.native = "playing"
    BY <1>1 DEF Playing
  <2>3. c.native \in {"none", "playing", "stuck", "over", "bare"}
    BY DEF OneGame
  <2>4. QED
    BY <2>1, <2>2, <2>3
<1>5. c.rows \in Nat
  BY DEF OneGame
<1>6. PICK m \in Nat : m = c.rows + 1
  BY <1>5
<1>7. PICK v : v = [c EXCEPT !.attempt = "none", !.rows = m, !.native = end]
  OBVIOUS
<1>8. v \in OneGame
  BY <1>4, <1>7 DEF OneGame
<1>9. /\ v.rows = m /\ v.made = c.made /\ v.attempt = "none" /\ v.native = end
      /\ v.result = c.result /\ v.services = c.services /\ v.at = c.at
  BY <1>7 DEF OneGame
<1>10. game' = [game EXCEPT ![g] = v]
  BY <1>1, <1>2, <1>6, <1>7 DEF BatchInv, BatchTypes, OneGame
<1>11. c.made \in Nat
  BY DEF OneGame
<1>12. v.rows <= v.made
  BY <1>1, <1>3, <1>5, <1>6, <1>9, <1>11 DEF PlayOK
<1>13. PlayOK(v) /\ ~Asked(v)
  BY <1>1, <1>3, <1>4, <1>9, <1>12 DEF PlayOK, Fresh, Asked
<1>14. Became(g, v) /\ faults' \in Nat
  BY <1>3, <1>8, <1>10, <1>13, LooksAreTyped DEF Became
<1>15. QED
  BY <1>1, <1>3, <1>8, <1>9, <1>13, <1>14, QuietStep

LEMMA AsksPlays ==
  ASSUME BatchInv, NEW g \in Games, Asks(g)
  PROVE  Played(g)
<1>1. PICK c \in OneGame : c = game[g] /\ PlayOK(c)
  BY DEF BatchInv, BatchTypes, GamesOK
<1>2. /\ Alive(g) /\ faults' = faults /\ strangers' = strangers
      /\ c.native = "playing" /\ c.services /\ c.attempt = "none"
  BY <1>1 DEF Asks, Playing, Alive
<1>3. faults' \in Nat /\ strangers' \in Nat /\ Counts(budget)
  BY <1>2, LooksAreTyped
<1>4. c.rows \in Nat /\ c.made \in Nat /\ c.rows <= c.made
  BY <1>1 DEF OneGame, PlayOK
<1>5. CASE budget.requests < MaxRequests
  <2>1. PICK x \in Nat, y \in Nat, m \in Nat :
          x = budget.requests + 1 /\ y = budget.unsettled + 1 /\ m = c.made + 1
    BY <1>3, <1>4 DEF Counts
  <2>2. budget' = [budget EXCEPT !.requests = x, !.unsettled = y]
    BY <1>3, <1>5, <2>1 DEF Asks, Counts
  <2>3. Counts(budget') /\ budget'.requests = x /\ budget'.unsettled = y
    <3>1. budget' \in [requests : Nat, unsettled : Nat, limit : {"old", "new"}, cap : {"old", "new"}]
      BY <1>3, <2>2 DEF Counts
    <3>2. budget'.requests = x /\ budget'.unsettled = y
      BY <1>3, <2>2 DEF Counts
    <3>3. x <= MaxRequests /\ y <= x
      BY <1>3, <1>5, <2>1, PodAssumption DEF Counts
    <3>4. QED
      BY <3>1, <3>2, <3>3 DEF Counts
  <2>4. PICK v : v = [c EXCEPT !.attempt = "asked", !.made = m]
    OBVIOUS
  <2>5. v \in OneGame
    BY <2>4 DEF OneGame
  <2>6. /\ v.rows = c.rows /\ v.made = m /\ v.attempt = "asked" /\ v.native = c.native
        /\ v.result = c.result /\ v.services = c.services /\ v.at = c.at
    BY <2>4 DEF OneGame
  <2>7. game' = [game EXCEPT ![g] = v]
    BY <1>1, <1>5, <2>1, <2>4 DEF Asks, BatchInv, BatchTypes, OneGame
  <2>8. v.rows <= v.made /\ v.rows < v.made
    BY <1>4, <2>1, <2>6
  <2>9. PlayOK(v)
    BY <1>1, <1>2, <2>6, <2>8 DEF PlayOK, Fresh
  <2>10. Became(g, v)
    BY <1>2, <2>5, <2>7, <2>9 DEF Became
  <2>11. budget'.requests - budget.requests = v.made - game[g].made /\ v.made >= game[g].made
    BY <1>1, <1>3, <1>4, <2>1, <2>3, <2>6 DEF Counts
  <2>12. budget'.unsettled >= 1
    BY <1>3, <2>1, <2>3 DEF Counts
  <2>13. QED
    BY <1>3, <2>3, <2>5, <2>10, <2>11, <2>12 DEF Played
<1>6. CASE ~(budget.requests < MaxRequests)
  <2>1. PICK v : v = [c EXCEPT !.native = "stuck"]
    OBVIOUS
  <2>2. v \in OneGame
    BY <2>1 DEF OneGame
  <2>3. /\ v.rows = c.rows /\ v.made = c.made /\ v.attempt = c.attempt
        /\ v.result = c.result /\ v.services = c.services /\ v.at = c.at
    BY <2>1 DEF OneGame
  <2>4. game' = [game EXCEPT ![g] = v] /\ budget' = budget
    BY <1>1, <1>6, <2>1 DEF Asks, BatchInv, BatchTypes
  <2>5. PlayOK(v)
    BY <1>1, <1>2, <2>3 DEF PlayOK, Fresh
  <2>6. Became(g, v)
    BY <1>2, <2>2, <2>4, <2>5 DEF Became
  <2>7. QED
    BY <1>1, <1>2, <1>3, <2>2, <2>3, <2>4, <2>6, QuietStep DEF Asked
<1>7. QED
  BY <1>5, <1>6

LEMMA AnswersPlays ==
  ASSUME BatchInv, NEW g \in Games, Answers(g)
  PROVE  Played(g)
<1>1. PICK c \in OneGame : c = game[g] /\ PlayOK(c)
  BY DEF BatchInv, BatchTypes, GamesOK
<1>2. /\ Alive(g) /\ strangers' = strangers /\ c.services /\ c.attempt = "asked"
      /\ c.rows \in Nat /\ c.made \in Nat
  BY <1>1 DEF Answers, Alive, OneGame
<1>3. strangers' \in Nat /\ Counts(budget) /\ budget.unsettled >= 1 /\ faults \in Nat
  BY <1>1, <1>2, LooksAreTyped DEF BatchInv, BudgetOK
<1>4. faults' \in Nat
  BY <1>3 DEF Answers, Fault
<1>5. PICK s \in {0, 1} : budget' = [budget EXCEPT !.unsettled = @ - s]
  BY DEF Answers
<1>6. PICK y \in Nat : y = budget.unsettled - s
  BY <1>3 DEF Counts
<1>7. Counts(budget') /\ budget'.requests = budget.requests
  <2>1. budget' = [budget EXCEPT !.unsettled = y]
    BY <1>3, <1>5, <1>6 DEF Counts
  <2>2. budget' \in [requests : Nat, unsettled : Nat, limit : {"old", "new"}, cap : {"old", "new"}]
    BY <1>3, <2>1 DEF Counts
  <2>3. budget'.requests = budget.requests /\ budget'.unsettled = y
    BY <1>3, <2>1 DEF Counts
  <2>4. y <= budget.requests
    BY <1>3, <1>6 DEF Counts
  <2>5. QED
    BY <1>3, <2>2, <2>3, <2>4 DEF Counts
<1>8. PICK k \in BOOLEAN : game' = [game EXCEPT ![g].attempt = "answered", ![g].clean = k]
  <2>1. CASE game' = [game EXCEPT ![g].attempt = "answered"]
    <3>1. PICK k \in BOOLEAN : k = c.clean
      BY DEF OneGame
    <3>2. [game EXCEPT ![g].attempt = "answered"] = [game EXCEPT ![g].attempt = "answered", ![g].clean = k]
      BY <1>1, <3>1 DEF BatchInv, BatchTypes, OneGame
    <3>3. QED
      BY <2>1, <3>2
  <2>2. CASE game' = [game EXCEPT ![g].attempt = "answered", ![g].clean = FALSE]
    <3>1. PICK k \in BOOLEAN : k = FALSE
      OBVIOUS
    <3>2. QED
      BY <2>2, <3>1
  <2>3. QED
    BY <2>1, <2>2 DEF Answers
<1>9. PICK v : v = [c EXCEPT !.attempt = "answered", !.clean = k]
  OBVIOUS
<1>10. v \in OneGame
  BY <1>9 DEF OneGame
<1>11. /\ v.rows = c.rows /\ v.made = c.made /\ v.attempt = "answered" /\ v.native = c.native
       /\ v.result = c.result /\ v.services = c.services /\ v.at = c.at
  BY <1>9 DEF OneGame
<1>12. game' = [game EXCEPT ![g] = v]
  BY <1>1, <1>8, <1>9 DEF BatchInv, BatchTypes
<1>13. PlayOK(v) /\ ~Asked(v)
  BY <1>1, <1>2, <1>11 DEF PlayOK, Fresh, Asked
<1>14. Became(g, v)
  BY <1>2, <1>10, <1>12, <1>13 DEF Became
<1>15. budget'.requests - budget.requests = v.made - game[g].made /\ v.made >= game[g].made
  BY <1>1, <1>2, <1>3, <1>7, <1>11 DEF Counts
<1>16. QED
  BY <1>3, <1>4, <1>7, <1>10, <1>13, <1>14, <1>15 DEF Played

(* Every step of a game is of that kind.                                   *)
LEMMA GamesPlay ==
  ASSUME BatchInv, NEW g \in Games, Launcher(g) \/ Services(g) \/ LauncherDies(g)
  PROVE  Played(g)
BY ChecksPlays, StartsPlays, PollsPlays, FinalizesPlays, ReportsPlays, FailsPlays, TearsDownPlays,
   AsksPlays, AnswersPlays, WritesPlays, EndsPlays, DiesPlays
   DEF Launcher, Services

(* The controllers and their folders are untouched.                        *)
LEMMA OneGamePlays ==
  ASSUME BatchInv, NEW g \in Games, Played(g), UNCHANGED batchVars
  PROVE  BatchInv'
<1>1. PICK v \in OneGame :
        /\ Became(g, v)
        /\ Counts(budget') /\ budget'.requests - budget.requests = v.made - game[g].made
        /\ v.made >= game[g].made
        /\ Asked(v) => budget'.unsettled >= 1
        /\ faults' \in Nat /\ strangers' \in Nat
  BY DEF Played
<1>2. UNCHANGED <<lock, ctl, disk, claim, last, launched>>
  BY DEF batchVars
<1>3. /\ Alive(g) /\ game' \in [Games -> OneGame] /\ game'[g] = v
      /\ \A h \in Games : h # g => game'[h] = game[h] /\ ~Alive(h)
      /\ game \in [Games -> OneGame]
  <2>1. ASSUME NEW h \in Games, h # g
        PROVE  game'[h] = game[h] /\ ~Alive(h)
    BY <1>1, <2>1, OneAlive DEF Became, BatchInv, BatchTypes
  <2>2. QED
    BY <1>1, <2>1 DEF Became, BatchInv, BatchTypes
<1>4. BatchTypes'
  BY <1>1, <1>2, <1>3 DEF BatchInv, BatchTypes, Counts, Folders
<1>5. BudgetOK'
  <2>1. ASSUME NEW h \in Games, game'[h].services, game'[h].attempt = "asked"
        PROVE  budget'.unsettled >= 1
    <3>1. h = g
      BY <1>3, <2>1 DEF Alive
    <3>2. QED
      BY <1>1, <1>3, <2>1, <3>1 DEF Asked
  <2>2. QED
    BY <1>1, <2>1 DEF BudgetOK, Counts
<1>6. LockOK' /\ LineOK' /\ (\A f \in Folders : FolderOK(f)')
  <2>1. LockOK' /\ LineOK'
    BY <1>2 DEF BatchInv, LockOK, LineOK, StoppedAt, Received
  <2>2. ASSUME NEW f \in Folders
        PROVE  FolderOK(f)'
    BY <1>2 DEF BatchInv, FolderOK, Received, LedgerBefore, StartsFrom
  <2>3. QED
    BY <2>1, <2>2
<1>7. \A h \in Games : ~Alive(h) => ~Alive(h)' /\ game'[h] = game[h]
  BY <1>3 DEF Alive
<1>8. GamesOK'
  <2>1. ASSUME NEW h \in Games
        PROVE  PlayOK(game'[h]) /\ (Alive(h)' => Alive(h))
    <3>1. PlayOK(game'[h])
      BY <1>1, <1>3 DEF Became, BatchInv, GamesOK
    <3>2. QED
      BY <1>7, <3>1
  <2>2. QED
    BY <1>2, <2>1 DEF BatchInv, GamesOK
<1>9. QualifiedIsExact'
  BY <1>2, <1>7 DEF BatchInv, QualifiedIsExact
<1>10. ASSUME NEW p \in Controllers
       PROVE  PlaceOK(p)'
  <2>1. PlaceOK(p)
    BY DEF BatchInv
  <2>2. budget.requests <= budget'.requests
    <3>1. v.made \in Nat /\ game[g].made \in Nat /\ budget.requests \in Nat /\ budget'.requests \in Nat
      BY <1>1, <1>3, LooksAreTyped DEF OneGame, Counts
    <3>2. QED
      BY <1>1, <3>1
  <2>3. ctl[p].at = "launching" => ctl[p].before.requests <= budget'.requests
    BY <2>1, <2>2, LooksAreTyped, <1>1 DEF PlaceOK, Counts, BatchInv, BatchTypes, OneController, Looks
  <2>4. ASSUME ctl[p].at \in {"waiting", "verifying"}
        PROVE  ctl[p].before.requests + game'[ctl[p].next].made <= budget'.requests
    <3>1. ctl[p].before.requests + game[ctl[p].next].made <= budget.requests /\ ctl[p].next \in Games
      BY <2>1, <2>4 DEF PlaceOK
    <3>2. PICK b \in Int : b = ctl[p].before.requests
      BY DEF BatchInv, BatchTypes, OneController, Looks
    <3>3. v.made \in Nat /\ game[g].made \in Nat /\ budget.requests \in Nat /\ budget'.requests \in Nat
          /\ game[ctl[p].next].made \in Nat
      BY <1>1, <1>3, <3>1, LooksAreTyped DEF OneGame, Counts
    <3>4. CASE ctl[p].next = g
      BY <1>1, <1>3, <3>1, <3>2, <3>3, <3>4
    <3>5. CASE ctl[p].next # g
      BY <1>3, <2>2, <3>1, <3>2, <3>3, <3>5
    <3>6. QED
      BY <3>4, <3>5
  <2>5. ctl[p].at \in {"verifying", "closing"} =>
          ~Alive(ctl[p].next) /\ game'[ctl[p].next] = game[ctl[p].next]
    BY <1>7, <2>1 DEF PlaceOK
  <2>6. QED
    BY <1>2, <2>1, <2>3, <2>4, <2>5
       DEF PlaceOK, Entitled, StoppedAt, Received, Claimed, StartsFrom, LedgerBefore, Alive
<1>11. QED
  BY <1>4, <1>5, <1>6, <1>8, <1>9, <1>10 DEF BatchInv

(* Another run spends.                                                     *)
LEMMA StrangerPlays ==
  ASSUME BatchInv, Stranger, UNCHANGED batchVars
  PROVE  BatchInv'
<1>1. UNCHANGED <<lock, ctl, disk, claim, last, launched, game, faults>>
  BY DEF batchVars, Stranger
<1>2. PICK lost \in {0, 1} :
        budget.requests < MaxRequests /\ strangers' = strangers + 1
        /\ budget' = [budget EXCEPT !.requests = @ + 1, !.unsettled = @ + lost]
  BY DEF Stranger
<1>3. Counts(budget) /\ faults \in Nat /\ strangers' \in Nat
  BY <1>2, LooksAreTyped
<1>4. PICK x \in Nat, y \in Nat : x = budget.requests + 1 /\ y = budget.unsettled + lost
  BY <1>3 DEF Counts
<1>5. budget' = [budget EXCEPT !.requests = x, !.unsettled = y]
  BY <1>2, <1>3, <1>4 DEF Counts
<1>6. /\ budget' \in [requests : Nat, unsettled : Nat, limit : {"old", "new"}, cap : {"old", "new"}]
      /\ budget'.requests = x /\ budget'.unsettled = y
  BY <1>3, <1>5 DEF Counts
<1>7. x <= MaxRequests /\ y <= x /\ budget.requests <= x /\ budget.unsettled <= y
  BY <1>2, <1>3, <1>4, PodAssumption DEF Counts
<1>8. BatchTypes'
  BY <1>1, <1>3, <1>6 DEF BatchInv, BatchTypes, Folders
<1>9. BudgetOK'
  <2>1. ASSUME NEW h \in Games, game'[h].services, game'[h].attempt = "asked"
        PROVE  budget'.unsettled >= 1
    BY <1>1, <1>3, <1>6, <1>7, <2>1 DEF BatchInv, BudgetOK, Counts
  <2>2. QED
    BY <1>6, <1>7, <2>1 DEF BudgetOK
<1>10. LockOK' /\ LineOK' /\ (\A f \in Folders : FolderOK(f)')
  <2>1. LockOK' /\ LineOK'
    BY <1>1 DEF BatchInv, LockOK, LineOK, StoppedAt, Received
  <2>2. ASSUME NEW f \in Folders
        PROVE  FolderOK(f)'
    BY <1>1 DEF BatchInv, FolderOK, Received, LedgerBefore, StartsFrom
  <2>3. QED
    BY <2>1, <2>2
<1>11. GamesOK' /\ QualifiedIsExact'
  BY <1>1 DEF BatchInv, GamesOK, QualifiedIsExact, Alive
<1>12. ASSUME NEW p \in Controllers
       PROVE  PlaceOK(p)'
  <2>1. PlaceOK(p)
    BY DEF BatchInv
  <2>2. PICK b \in Int : b = ctl[p].before.requests
    BY DEF BatchInv, BatchTypes, OneController, Looks
  <2>3. ctl[p].at = "launching" => b <= budget'.requests
    BY <1>3, <1>6, <1>7, <2>1, <2>2 DEF PlaceOK, Counts
  <2>4. ASSUME ctl[p].at \in {"waiting", "verifying"}
        PROVE  b + game[ctl[p].next].made <= budget'.requests
    <3>1. ctl[p].next \in Games /\ b + game[ctl[p].next].made <= budget.requests
      BY <2>1, <2>2, <2>4 DEF PlaceOK
    <3>2. game[ctl[p].next].made \in Nat
      BY <3>1 DEF BatchInv, BatchTypes, OneGame
    <3>3. QED
      BY <1>3, <1>6, <1>7, <3>1, <3>2 DEF Counts
  <2>5. QED
    BY <1>1, <2>1, <2>2, <2>3, <2>4
       DEF PlaceOK, Entitled, StoppedAt, Received, Claimed, StartsFrom, LedgerBefore, Alive
<1>13. QED
  BY <1>8, <1>9, <1>10, <1>11, <1>12 DEF BatchInv

(***************************************************************************)
(* The controllers: one of them holds the lock.                            *)
(***************************************************************************)

Taken(p, w) ==
  /\ LockOK' /\ ctl' \in [Controllers -> OneController] /\ lock' \subseteq Controllers
  /\ ctl'[p] = w /\ \A q \in Controllers : q # p => PlaceOK(q)'

LEMMA Takes ==
  ASSUME BatchInv, NEW p \in Controllers, NEW w \in OneController,
         ctl' = [ctl EXCEPT ![p] = w], lock = {} \/ lock = {p},
         IF w.at = "idle" THEN lock' = {} ELSE lock' = {p}
  PROVE  Taken(p, w)
<1>1. ctl' \in [Controllers -> OneController] /\ ctl'[p] = w
      /\ \A q \in Controllers : q # p => ctl'[q] = ctl[q]
  BY DEF BatchInv, BatchTypes
<1>2. \A q \in Controllers : q # p => ctl'[q].at = "idle"
  BY <1>1 DEF BatchInv, LockOK
<1>3. lock' \subseteq Controllers /\ (lock' = {} \/ lock' = {p})
  OBVIOUS
<1>4. LockOK'
  <2>1. \A q \in Controllers : (ctl'[q].at # "idle") <=> q \in lock'
    <3>1. ASSUME NEW q \in Controllers
          PROVE  (ctl'[q].at # "idle") <=> q \in lock'
      <4>1. CASE q = p
        BY <1>1, <4>1
      <4>2. CASE q # p
        BY <1>2, <1>3, <4>2
      <4>3. QED
        BY <4>1, <4>2
    <3>2. QED
      BY <3>1
  <2>2. QED
    BY <1>3, <2>1 DEF LockOK
<1>5. \A q \in Controllers : q # p => PlaceOK(q)'
  BY <1>2 DEF PlaceOK
<1>6. QED
  BY <1>1, <1>3, <1>4, <1>5 DEF Taken

LEMMA LockIsOurs ==
  ASSUME BatchInv, NEW p \in Controllers, ctl[p].at # "idle"
  PROVE  lock = {p} /\ lock \ {p} = {}
BY DEF BatchInv, LockOK

LEMMA NoControllerIsOne == NoController \in OneController
<1>1. None \in Looks /\ "batch" \in Folders
  BY FoldersAre DEF None, Looks
<1>2. QED
  BY <1>1 DEF NoController, OneController

(* What a step that leaves the folders alone leaves true of them.          *)
LEMMA FilesStay ==
  ASSUME BatchInv, UNCHANGED <<disk, claim, last>>
  PROVE  LineOK' /\ (\A f \in Folders : FolderOK(f)')
<1>1. LineOK'
  BY DEF BatchInv, LineOK, StoppedAt, Received
<1>2. ASSUME NEW f \in Folders
      PROVE  FolderOK(f)'
  BY DEF BatchInv, FolderOK, Received, LedgerBefore, StartsFrom
<1>3. QED
  BY <1>1, <1>2

LEMMA GamesStay ==
  ASSUME BatchInv, UNCHANGED <<disk, game, launched>>
  PROVE  GamesOK' /\ QualifiedIsExact'
BY DEF BatchInv, GamesOK, QualifiedIsExact, Alive

(* A controller leaves, and nothing else happens but a fault.              *)
LEMMA JustLeaves ==
  ASSUME BatchInv, NEW p \in Controllers, ctl[p].at # "idle", Leaves(p),
         UNCHANGED <<budget, game, strangers, disk, claim, last, launched>>, faults' \in Nat
  PROVE  BatchInv'
<1>1. Taken(p, NoController)
  BY LockIsOurs, NoControllerIsOne, Takes DEF Leaves, NoController
<1>2. PlaceOK(p)'
  BY <1>1 DEF Taken, PlaceOK, NoController
<1>3. BatchTypes'
  BY <1>1 DEF Taken, BatchInv, BatchTypes, Folders
<1>4. BudgetOK'
  BY DEF BatchInv, BudgetOK
<1>5. QED
  BY <1>1, <1>2, <1>3, <1>4, FilesStay, GamesStay DEF Taken, BatchInv

LEMMA KilledKeeps ==
  ASSUME BatchInv, NEW p \in Controllers, Killed(p)
  PROVE  BatchInv'
<1>1. ctl[p].at # "idle" /\ Leaves(p) /\ faults' \in Nat
      /\ UNCHANGED <<budget, game, strangers, disk, claim, last, launched>>
  BY LooksAreTyped DEF Killed, Is, Fault, files
<1>2. QED
  BY <1>1, JustLeaves

LEMMA UnverifiedKeeps ==
  ASSUME BatchInv, NEW p \in Controllers, Unverified(p)
  PROVE  BatchInv'
<1>1. ctl[p].at # "idle" /\ Leaves(p) /\ faults' \in Nat
      /\ UNCHANGED <<budget, game, strangers, disk, claim, last, launched>>
  BY LooksAreTyped DEF Unverified, Is, Fault, files
<1>2. QED
  BY <1>1, JustLeaves

(***************************************************************************)
(* A folder is opened, claimed and resumed.                                *)
(***************************************************************************)

LEMMA ControllersAre ==
  ASSUME BatchInv, NEW p \in Controllers
  PROVE  \E c \in OneController : c = ctl[p] /\ PlaceOK(p)
BY DEF BatchInv, BatchTypes

LEMMA OpensKeeps ==
  ASSUME BatchInv, NEW p \in Controllers, NEW f \in Folders, Opens(p, f)
  PROVE  BatchInv'
<1>0. PICK c \in OneController : c = ctl[p]
  BY ControllersAre
<1>1. lock = {} /\ lock' = {p} /\ UNCHANGED <<budget, game, strangers, faults, disk, claim, last, launched>>
  BY DEF Opens, podVars, files
<1>2. BudgetOK' /\ LineOK' /\ (\A h \in Folders : FolderOK(h)') /\ GamesOK' /\ QualifiedIsExact'
  BY <1>1, FilesStay, GamesStay DEF BatchInv, BudgetOK
<1>3. \E w \in OneController :
        ctl' = [ctl EXCEPT ![p] = w] /\ w.at # "idle" /\ (Taken(p, w) => PlaceOK(p)')
  <2>1. CASE MayResume(f) /\ ctl' = [ctl EXCEPT ![p].at = "resuming", ![p].in = f]
    <3>1. PICK w : w = [c EXCEPT !.at = "resuming", !.in = f]
      OBVIOUS
    <3>2. w \in OneController /\ w.at = "resuming" /\ w.in = f
      BY <3>1 DEF OneController
    <3>3. ctl' = [ctl EXCEPT ![p] = w]
      BY <1>0, <2>1, <3>1 DEF BatchInv, BatchTypes
    <3>4. Entitled(f) /\ f # "final" /\ disk[f].cursor.status # "none"
      BY <2>1 DEF MayResume, BatchInv, FolderOK
    <3>5. Entitled(f)'
      BY <1>1, <3>4 DEF Entitled, StoppedAt, Received
    <3>6. Taken(p, w) => PlaceOK(p)'
      BY <1>1, <3>2, <3>4, <3>5 DEF Taken, PlaceOK
    <3>7. QED
      BY <3>2, <3>3, <3>6
  <2>2. CASE /\ MayFreeze(f)
             /\ ctl' = [ctl EXCEPT ![p].at = IF f = "batch" THEN "freezing" ELSE "claiming",
                                   ![p].in = f, ![p].start = Snapshot]
    <3>1. PICK a \in {"freezing", "claiming"} : a = IF f = "batch" THEN "freezing" ELSE "claiming"
      OBVIOUS
    <3>2. PICK s \in Looks : s = Snapshot
      BY LooksAreTyped
    <3>3. s # None
      BY <3>2, LooksAreTyped DEF Snapshot, None, Counts
    <3>4. PICK w : w = [c EXCEPT !.at = a, !.in = f, !.start = s]
      OBVIOUS
    <3>5. w \in OneController /\ w.at = a /\ w.in = f /\ w.start = s
      BY <3>4 DEF OneController
    <3>6. ctl' = [ctl EXCEPT ![p] = w]
      BY <1>0, <2>2, <3>1, <3>2, <3>4 DEF BatchInv, BatchTypes
    <3>7. Entitled(f) /\ disk[f].manifest = None /\ ~Claimed(f) /\ s = StartsFrom(f)
      BY <2>2, <3>2 DEF MayFreeze, NoFolder
    <3>8. Entitled(f)' /\ ~Claimed(f)' /\ s = StartsFrom(f)'
      BY <1>1, <3>7 DEF Entitled, StoppedAt, Received, Claimed, StartsFrom
    <3>9. Taken(p, w) => PlaceOK(p)'
      BY <1>1, <3>1, <3>3, <3>5, <3>7, <3>8, FoldersAre DEF Taken, PlaceOK
    <3>10. QED
      BY <3>1, <3>5, <3>6, <3>9
  <2>3. QED
    BY <2>1, <2>2 DEF Opens
<1>4. PICK w \in OneController :
        ctl' = [ctl EXCEPT ![p] = w] /\ w.at # "idle" /\ (Taken(p, w) => PlaceOK(p)')
  BY <1>3
<1>5. Taken(p, w)
  BY <1>1, <1>4, Takes
<1>6. BatchTypes'
  BY <1>1, <1>5 DEF Taken, BatchInv, BatchTypes, Folders
<1>7. QED
  BY <1>2, <1>4, <1>5, <1>6 DEF Taken, BatchInv

(* The controller moves to another place and the lock stays with it.       *)
LEMMA MovesIsTaken ==
  ASSUME BatchInv, NEW p \in Controllers, ctl[p].at # "idle", lock' = lock,
         NEW place \in {"claiming", "freezing", "pointing", "resuming", "limiting", "capping",
                        "looping", "launching", "waiting", "verifying", "closing"},
         MovesTo(p, place)
  PROVE  \E w \in OneController :
           /\ Taken(p, w) /\ w.at = place /\ w.in = ctl[p].in /\ w.next = ctl[p].next
           /\ w.start = ctl[p].start /\ w.current = ctl[p].current /\ w.before = ctl[p].before
<1>1. PICK c \in OneController : c = ctl[p]
  BY ControllersAre
<1>2. PICK w : w = [c EXCEPT !.at = place]
  OBVIOUS
<1>3. /\ w \in OneController /\ w.at = place /\ w.in = c.in /\ w.next = c.next
      /\ w.start = c.start /\ w.current = c.current /\ w.before = c.before
  BY <1>2 DEF OneController
<1>4. ctl' = [ctl EXCEPT ![p] = w]
  BY <1>1, <1>2 DEF MovesTo, BatchInv, BatchTypes
<1>5. Taken(p, w)
  BY <1>3, <1>4, LockIsOurs, Takes
<1>6. QED
  BY <1>1, <1>3, <1>5

LEMMA ClaimsKeeps ==
  ASSUME BatchInv, NEW p \in Controllers, Claims(p)
  PROVE  BatchInv'
<1>0. PICK f \in Folders : f = ctl[p].in
  BY ControllersAre DEF OneController
<1>1. /\ ctl[p].at = "claiming" /\ MovesTo(p, "freezing")
      /\ UNCHANGED <<budget, game, strangers, faults, lock, disk, launched>>
  BY DEF Claims, Is, podVars
<1>2. f # "batch" /\ Entitled(f) /\ disk[f].manifest = None /\ ~Claimed(f)
      /\ ctl[p].start # None /\ ctl[p].start = StartsFrom(f)
  <2>1. PlaceOK(p)
    BY ControllersAre
  <2>2. QED
    BY <1>0, <1>1, <2>1 DEF PlaceOK
<1>3. PICK w \in OneController :
           /\ Taken(p, w) /\ w.at = "freezing" /\ w.in = ctl[p].in /\ w.next = ctl[p].next
           /\ w.start = ctl[p].start /\ w.current = ctl[p].current /\ w.before = ctl[p].before
  BY <1>1, MovesIsTaken
<1>4. StoppedAt("batch", 1)
  BY <1>2 DEF Entitled
<1>5. CASE f = "final"
  <2>1. last' = TRUE /\ claim' = claim
    BY <1>0, <1>5 DEF Claims, In
  <2>2. \E d \in claim : StoppedAt(d, 2)
    BY <1>2, <1>5 DEF Entitled
  <2>3. LineOK'
    BY <1>1, <2>1, <2>2 DEF BatchInv, LineOK, StoppedAt, Received
  <2>4. \A h \in Folders : FolderOK(h)'
    <3>1. ASSUME NEW h \in Folders
          PROVE  FolderOK(h)'
      BY <1>1, <2>1 DEF BatchInv, FolderOK, Received, LedgerBefore, StartsFrom
    <3>2. QED
      BY <3>1
  <2>5. Entitled(f)' /\ StartsFrom(f)' = StartsFrom(f)
    BY <1>1, <1>2, <2>1 DEF Entitled, StoppedAt, Received, StartsFrom
  <2>6. PlaceOK(p)'
    BY <1>0, <1>1, <1>2, <1>3, <1>5, <2>1, <2>5, FoldersAre DEF Taken, PlaceOK
  <2>7. BatchTypes'
    BY <1>1, <1>3, <2>1 DEF Taken, BatchInv, BatchTypes, Folders
  <2>8. GamesOK' /\ QualifiedIsExact' /\ BudgetOK'
    BY <1>1, GamesStay DEF BatchInv, BudgetOK
  <2>9. QED
    BY <1>3, <2>3, <2>4, <2>6, <2>7, <2>8 DEF Taken, BatchInv
<1>6. CASE f # "final"
  <2>1. f \in Dirs /\ claim = {} /\ claim' = {f} /\ last' = last
    <3>1. f \in Dirs
      BY <1>2, <1>6, FoldersAre
    <3>2. claim = {}
      BY <1>2, <1>6, <3>1, FoldersAre DEF Claimed
    <3>3. QED
      BY <1>0, <1>6, <3>1, <3>2 DEF Claims, In
  <2>2. ~last /\ disk["final"].manifest = None /\ \A d \in Dirs : disk[d].manifest = None
    BY <2>1 DEF BatchInv, LineOK
  <2>3. StoppedAt("batch", 1)'
    BY <1>1, <1>4 DEF StoppedAt, Received
  <2>4. LineOK'
    BY <1>1, <2>1, <2>2, <2>3 DEF LineOK
  <2>5. \A h \in Folders : FolderOK(h)'
    <3>1. ASSUME NEW h \in Folders
          PROVE  FolderOK(h)'
      <4>1. disk[h].manifest # None => h = "batch"
        BY <2>2, FoldersAre
      <4>2. FolderOK(h)
        BY DEF BatchInv
      <4>3. QED
        BY <1>1, <4>1, <4>2 DEF FolderOK, Received, LedgerBefore
    <3>2. QED
      BY <3>1
  <2>6. Entitled(f)' /\ StartsFrom(f)' = StartsFrom(f)
    <3>1. StartsFrom(f)' = StartsFrom(f)
      BY <1>1, <2>1, FoldersAre DEF StartsFrom
    <3>2. QED
      BY <1>6, <2>3, <3>1 DEF Entitled
  <2>7. PlaceOK(p)'
    BY <1>0, <1>1, <1>2, <1>3, <1>6, <2>1, <2>6, FoldersAre DEF Taken, PlaceOK
  <2>8. BatchTypes'
    BY <1>1, <1>3, <2>1, <2>2 DEF Taken, BatchInv, BatchTypes, Folders
  <2>9. GamesOK' /\ QualifiedIsExact' /\ BudgetOK'
    BY <1>1, GamesStay DEF BatchInv, BudgetOK
  <2>10. QED
    BY <1>3, <2>4, <2>5, <2>7, <2>8, <2>9 DEF Taken, BatchInv
<1>7. QED
  BY <1>5, <1>6

LEMMA ResumesKeeps ==
  ASSUME BatchInv, NEW p \in Controllers, Resumes(p)
  PROVE  BatchInv'
<1>0. PICK c \in OneController, f \in Folders, g \in 0..4 :
        c = ctl[p] /\ f = ctl[p].in /\ g = disk[f].cursor.next
  <2>1. PICK c \in OneController : c = ctl[p]
    BY ControllersAre
  <2>2. PICK f \in Folders : f = ctl[p].in
    BY <2>1 DEF OneController
  <2>3. disk[f].cursor.next \in 0..4
    BY DEF BatchInv, BatchTypes, OneFolder
  <2>4. QED
    BY <2>1, <2>2, <2>3
<1>1. c.at = "resuming" /\ UNCHANGED <<budget, game, strangers, faults, disk, claim, last, launched>>
  BY <1>0 DEF Resumes, Is, podVars, files
<1>2. CASE Leaves(p)
  BY <1>0, <1>1, <1>2, LooksAreTyped, JustLeaves
<1>3. CASE /\ disk[f].cursor.status = "ready" /\ Snapshot = LedgerBefore(f, g) /\ lock' = lock
           /\ ctl' = [ctl EXCEPT ![p].at = IF f = "batch" THEN "limiting" ELSE "looping",
                                 ![p].next = g, ![p].current = LedgerBefore(f, g)]
  <2>1. PICK a \in {"limiting", "looping"} : a = IF f = "batch" THEN "limiting" ELSE "looping"
    OBVIOUS
  <2>2. PICK s \in Looks : s = LedgerBefore(f, g)
    BY <1>3, LooksAreTyped
  <2>3. PICK w : w = [c EXCEPT !.at = a, !.next = g, !.current = s]
    OBVIOUS
  <2>4. w \in OneController /\ w.at = a /\ w.next = g /\ w.current = s /\ w.in = f
    BY <1>0, <2>3 DEF OneController
  <2>5. ctl' = [ctl EXCEPT ![p] = w]
    BY <1>0, <1>3, <2>1, <2>2, <2>3 DEF BatchInv, BatchTypes
  <2>6. lock' = {p} /\ lock = {p}
    BY <1>0, <1>1, <1>3, LockIsOurs
  <2>7. Taken(p, w)
    BY <2>1, <2>4, <2>5, <2>6, Takes
  <2>8. disk[f].cursor = Ready(g)
    BY <1>0, <1>3 DEF Ready, BatchInv, BatchTypes, OneFolder
  <2>9. Entitled(f)
    BY <1>0, <1>1, ControllersAre DEF PlaceOK
  <2>10. Entitled(f)' /\ s = LedgerBefore(f, g)'
    BY <1>1, <2>2, <2>9 DEF Entitled, StoppedAt, Received, LedgerBefore
  <2>11. PlaceOK(p)'
    BY <1>1, <2>1, <2>4, <2>7, <2>8, <2>10 DEF Taken, PlaceOK
  <2>12. BatchTypes'
    BY <1>1, <2>7 DEF Taken, BatchInv, BatchTypes, Folders
  <2>13. BudgetOK'
    BY <1>1 DEF BatchInv, BudgetOK
  <2>14. QED
    BY <1>1, <2>7, <2>11, <2>12, <2>13, FilesStay, GamesStay DEF Taken, BatchInv
<1>4. QED
  BY <1>0, <1>2, <1>3 DEF Resumes, In

(* The limit and the cap, before the first game.                           *)
LEMMA RaisesKeeps ==
  ASSUME BatchInv, NEW p \in Controllers, NEW at \in {"limiting", "capping"},
         NEW what \in {"limit", "cap"}, NEW then \in {"capping", "looping"},
         Raises(p, at, what, then)
  PROVE  BatchInv'
<1>0. PICK c \in OneController : c = ctl[p] /\ PlaceOK(p)
  BY ControllersAre
<1>1. c.at = at /\ UNCHANGED <<game, strangers, faults, disk, claim, last, launched>>
  BY <1>0 DEF Raises, Is, files
<1>2. /\ Entitled(c.in) /\ c.in = "batch" /\ disk["batch"].cursor = Ready(c.next)
      /\ c.next # 1 => c.current = LedgerBefore("batch", c.next)
  BY <1>0, <1>1 DEF PlaceOK
<1>3. CASE Leaves(p) /\ budget' = budget
  BY <1>0, <1>1, <1>3, LooksAreTyped, JustLeaves
<1>4. ASSUME NEW w \in OneController, Taken(p, w), w.at = then, w.in = c.in, w.next = c.next,
             w.next # 1 => w.current = c.current
      PROVE  PlaceOK(p)'
  <2>1. Entitled(w.in)'
    BY <1>1, <1>2, <1>4, FoldersAre DEF Entitled
  <2>2. w.next # 1 => w.current = LedgerBefore("batch", w.next)'
    BY <1>1, <1>2, <1>4 DEF LedgerBefore
  <2>3. QED
    BY <1>1, <1>2, <1>4, <2>1, <2>2 DEF Taken, PlaceOK
<1>5. CASE MovesTo(p, then) /\ UNCHANGED <<budget, lock>>
  <2>1. PICK w \in OneController :
           /\ Taken(p, w) /\ w.at = then /\ w.in = ctl[p].in /\ w.next = ctl[p].next
           /\ w.start = ctl[p].start /\ w.current = ctl[p].current /\ w.before = ctl[p].before
    BY <1>0, <1>1, <1>5, MovesIsTaken
  <2>2. PlaceOK(p)'
    BY <1>0, <1>4, <2>1
  <2>3. BatchTypes' /\ BudgetOK'
    BY <1>1, <1>5, <2>1 DEF Taken, BatchInv, BatchTypes, Folders, BudgetOK
  <2>4. QED
    BY <1>1, <2>1, <2>2, <2>3, FilesStay, GamesStay DEF Taken, BatchInv
<1>6. CASE /\ Turn(p) = 1 /\ lock' = lock
           /\ budget' = [budget EXCEPT ![what] = "new"]
           /\ ctl' = [ctl EXCEPT ![p].at = then, ![p].current = Snapshot]
  <2>1. PICK s \in Looks : s = Snapshot
    BY LooksAreTyped
  <2>2. PICK w : w = [c EXCEPT !.at = then, !.current = s]
    OBVIOUS
  <2>3. w \in OneController /\ w.at = then /\ w.next = c.next /\ w.current = s /\ w.in = c.in
    BY <2>2 DEF OneController
  <2>4. ctl' = [ctl EXCEPT ![p] = w]
    BY <1>0, <1>6, <2>1, <2>2 DEF BatchInv, BatchTypes
  <2>5. lock' = {p} /\ lock = {p}
    BY <1>0, <1>1, <1>6, LockIsOurs
  <2>6. Taken(p, w)
    BY <2>3, <2>4, <2>5, Takes
  <2>7. PlaceOK(p)'
    BY <1>0, <1>4, <1>6, <2>3, <2>6 DEF Turn
  <2>8. Counts(budget)
    BY LooksAreTyped
  <2>9. /\ budget' \in [requests : Nat, unsettled : Nat, limit : {"old", "new"}, cap : {"old", "new"}]
        /\ budget'.requests = budget.requests /\ budget'.unsettled = budget.unsettled
    BY <1>6, <2>8 DEF Counts
  <2>10. BatchTypes' /\ BudgetOK'
    BY <1>1, <2>6, <2>9 DEF Taken, BatchInv, BatchTypes, Folders, BudgetOK
  <2>11. QED
    BY <1>1, <2>6, <2>7, <2>10, FilesStay, GamesStay DEF Taken, BatchInv
<1>7. QED
  BY <1>3, <1>5, <1>6 DEF Raises

(***************************************************************************)
(* A folder is written by the controller that holds the lock.              *)
(***************************************************************************)

Writing == {"freezing", "pointing", "looping", "launching", "waiting", "verifying", "closing"}

(* No other folder is in use, and none that follows was begun.             *)
OnlyWriter(f) ==
  /\ Entitled(f) /\ \A n \in Games : ~StoppedAt(f, n)
  /\ f = "batch" => claim = {} /\ ~last
  /\ f \in Dirs => claim = {f} /\ StoppedAt("batch", 1) /\ ~last
  /\ f = "final" => last /\ \E d \in Dirs : claim = {d} /\ StoppedAt(d, 2) /\ StoppedAt("batch", 1)

LEMMA WriterIsAlone ==
  ASSUME BatchInv, NEW p \in Controllers, ctl[p].at \in Writing,
         NEW f \in Folders, f = ctl[p].in
  PROVE  OnlyWriter(f)
<1>0. PlaceOK(p) /\ FolderOK(f) /\ Order
  BY ControllersAre, OrderHolds DEF BatchInv
<1>1. Entitled(f) /\ disk[f].cursor.status # "stopped"
  <2>1. CASE ctl[p].at = "freezing"
    BY <1>0, <2>1 DEF PlaceOK, Order, Bare
  <2>2. CASE ctl[p].at # "freezing"
    BY <1>0, <2>2 DEF PlaceOK, Ready, Writing
  <2>3. QED
    BY <2>1, <2>2
<1>2. \A n \in Games : ~StoppedAt(f, n)
  BY <1>1 DEF StoppedAt
<1>3. disk[f].manifest # None \/ ((f \in Dirs => claim = {f}) /\ (f = "final" => last))
  <2>1. CASE ctl[p].at = "freezing"
    BY <1>0, <2>1 DEF PlaceOK
  <2>2. CASE ctl[p].at = "pointing"
    BY <1>0, <2>2 DEF PlaceOK
  <2>3. CASE ctl[p].at \notin {"freezing", "pointing"}
    <3>1. disk[f].cursor.status # "none"
      BY <1>0, <2>3 DEF PlaceOK, Ready, Writing
    <3>2. QED
      BY <1>0, <3>1 DEF FolderOK
  <2>4. QED
    BY <2>1, <2>2, <2>3
<1>4. /\ claim # {} => StoppedAt("batch", 1)
      /\ last => \E d \in claim : StoppedAt(d, 2)
      /\ claim = {} \/ \E d \in Dirs : claim = {d}
      /\ (f \in Dirs => claim = {f}) /\ (f = "final" => last)
  BY <1>3 DEF BatchInv, LineOK
<1>5. CASE f = "batch"
  BY <1>1, <1>2, <1>4, <1>5, FoldersAre, GamesAre DEF OnlyWriter
<1>6. CASE f \in Dirs
  BY <1>1, <1>2, <1>4, <1>6, FoldersAre, GamesAre DEF OnlyWriter
<1>7. CASE f = "final"
  <2>1. PICK d \in claim : StoppedAt(d, 2)
    BY <1>4, <1>7
  <2>2. d \in Dirs /\ claim = {d} /\ StoppedAt("batch", 1)
    BY <1>4, <2>1
  <2>3. QED
    BY <1>1, <1>2, <1>4, <1>7, <2>1, <2>2, FoldersAre DEF OnlyWriter
<1>8. QED
  BY <1>5, <1>6, <1>7, FoldersAre

Wrote(f, v) ==
  /\ v \in OneFolder /\ disk' = [disk EXCEPT ![f] = v] /\ claim' = claim /\ last' = last

Kept(f, v) ==
  /\ LineOK' /\ (\A h \in Folders : h # f => FolderOK(h)' /\ disk'[h] = disk[h])
  /\ disk'[f] = v /\ disk' \in [Folders -> OneFolder]
  /\ Entitled(f)' /\ (f # "batch" => StartsFrom(f)' = StartsFrom(f))

LEMMA WriteKeeps ==
  ASSUME BatchInv, NEW f \in Folders, OnlyWriter(f), NEW v, Wrote(f, v)
  PROVE  Kept(f, v)
<1>1. /\ disk'[f] = v /\ disk' \in [Folders -> OneFolder] /\ claim' = claim /\ last' = last
      /\ \A h \in Folders : h # f => disk'[h] = disk[h]
  BY DEF Wrote, BatchInv, BatchTypes
<1>2. Order /\ LineOK
  BY OrderHolds DEF BatchInv
<1>3. \A h \in Folders, n \in Games : h # f /\ StoppedAt(h, n) => StoppedAt(h, n)'
  BY <1>1 DEF StoppedAt, Received
<1>4. 1 \in Games /\ 2 \in Games
  BY GamesAre
<1>5. CASE f = "batch"
  <2>1. claim = {} /\ ~last
    BY <1>5 DEF OnlyWriter
  <2>2. disk["final"].manifest = None /\ \A d \in Dirs : disk[d].manifest = None
    BY <1>2, <2>1 DEF LineOK
  <2>3. disk'["final"].manifest = None /\ \A d \in Dirs : disk'[d].manifest = None
    BY <1>1, <1>5, <2>2, FoldersAre
  <2>4. LineOK'
    BY <1>1, <2>1, <2>3 DEF LineOK
  <2>5. ASSUME NEW h \in Folders, h # f
        PROVE  FolderOK(h)'
    <3>1. disk'[h].manifest = None /\ disk'[h] = disk[h]
      BY <1>1, <1>5, <2>3, <2>5, FoldersAre
    <3>2. FolderOK(h)
      BY DEF BatchInv
    <3>3. QED
      BY <3>1, <3>2 DEF FolderOK, Received
  <2>6. Entitled(f)'
    BY <1>5, FoldersAre DEF Entitled
  <2>7. QED
    BY <1>1, <1>5, <2>4, <2>5, <2>6 DEF Kept
<1>6. CASE f \in Dirs
  <2>1. claim = {f} /\ StoppedAt("batch", 1) /\ ~last /\ f # "batch" /\ f # "final"
    BY <1>6, FoldersAre DEF OnlyWriter
  <2>2. disk["final"].manifest = None /\ \A d \in Dirs : d # f => disk[d].manifest = None
    BY <1>2, <2>1 DEF LineOK
  <2>3. disk'["final"].manifest = None /\ \A d \in Dirs : d # f => disk'[d].manifest = None
    BY <1>1, <2>1, <2>2, FoldersAre
  <2>4. StoppedAt("batch", 1)'
    BY <1>3, <1>4, <2>1, FoldersAre
  <2>5. LineOK'
    BY <1>1, <1>6, <2>1, <2>3, <2>4 DEF LineOK
  <2>6. ASSUME NEW h \in Folders, h # f
        PROVE  FolderOK(h)'
    <3>1. (disk'[h].manifest = None \/ h = "batch") /\ disk'[h] = disk[h]
      BY <1>1, <2>3, <2>6, FoldersAre
    <3>2. FolderOK(h)
      BY DEF BatchInv
    <3>3. QED
      BY <3>1, <3>2 DEF FolderOK, Received, LedgerBefore
  <2>7. Entitled(f)' /\ StartsFrom(f)' = StartsFrom(f)
    <3>1. disk'["batch"] = disk["batch"]
      BY <1>1, <2>1, FoldersAre
    <3>2. StartsFrom(f)' = StartsFrom(f)
      BY <2>1, <3>1 DEF StartsFrom
    <3>3. QED
      BY <2>1, <2>4, <3>2 DEF Entitled
  <2>8. QED
    BY <1>1, <2>5, <2>6, <2>7 DEF Kept
<1>7. CASE f = "final"
  <2>1. PICK d \in Dirs : claim = {d} /\ StoppedAt(d, 2) /\ StoppedAt("batch", 1) /\ last
    BY <1>7 DEF OnlyWriter
  <2>2. d \in Folders /\ d # f /\ "batch" # f
    BY <1>7, FoldersAre
  <2>3. StoppedAt("batch", 1)' /\ StoppedAt(d, 2)' /\ disk'[d] = disk[d]
    BY <1>1, <1>3, <1>4, <2>1, <2>2, FoldersAre
  <2>4. LineOK'
    <3>1. \A e \in Dirs : disk'[e] = disk[e]
      BY <1>1, <1>7, FoldersAre
    <3>2. QED
      BY <1>1, <1>2, <2>1, <2>3, <3>1 DEF LineOK
  <2>5. ASSUME NEW h \in Folders, h # f
        PROVE  FolderOK(h)'
    <3>1. disk'[h] = disk[h] /\ disk'["batch"] = disk["batch"]
      BY <1>1, <2>2, <2>5, FoldersAre
    <3>2. h # "batch" => StartsFrom(h)' = StartsFrom(h)
      BY <1>7, <2>5, <3>1, FoldersAre DEF StartsFrom
    <3>3. FolderOK(h)
      BY DEF BatchInv
    <3>4. QED
      BY <3>1, <3>2, <3>3 DEF FolderOK, Received, LedgerBefore
  <2>6. Entitled(f)' /\ StartsFrom(f)' = StartsFrom(f)
    <3>1. Entitled(f)'
      BY <1>1, <2>1, <2>3 DEF Entitled
    <3>2. d = CHOOSE x \in claim : TRUE
      BY <2>1
    <3>3. StartsFrom(f) = disk[CHOOSE x \in claim : TRUE].receipts[2].after
      BY <1>7, <2>1 DEF StartsFrom
    <3>4. StartsFrom(f)' = disk'[CHOOSE x \in claim : TRUE].receipts[2].after
      BY <1>1, <1>7, <2>1 DEF StartsFrom
    <3>5. QED
      BY <2>3, <3>1, <3>2, <3>3, <3>4
  <2>7. QED
    BY <1>1, <2>4, <2>5, <2>6 DEF Kept
<1>8. QED
  BY <1>5, <1>6, <1>7, FoldersAre

(* A receipt that accounts for its game.                                   *)
Exact(r, c) ==
  /\ r.after.requests - r.before.requests = c.made
  /\ r.after.unsettled = r.before.unsettled
  /\ c.rows = c.made /\ c.native = "over"
  /\ ~c.services /\ c.at \in {"none", "exited", "dead"}

LEMMA ExactIsExact ==
  /\ QualifiedIsExact <=> \A f \in Folders, g \in Games :
       disk[f].receipts[g].qualified => Exact(disk[f].receipts[g], game[g])
  /\ QualifiedIsExact' <=> \A f \in Folders, g \in Games :
       disk'[f].receipts[g].qualified => Exact(disk'[f].receipts[g], game'[g])
BY DEF QualifiedIsExact, Exact, Alive

(* A step that writes the manifest or the cursor of a folder, and starts   *)
(* or settles no game.                                                     *)
LEMMA GamesStayWritten ==
  ASSUME BatchInv, NEW f \in Folders, NEW v, Wrote(f, v), UNCHANGED <<game, launched>>,
         v.receipts = disk[f].receipts, v.artifacts = disk[f].artifacts,
         disk[f].cursor.status # "inflight"
  PROVE  GamesOK' /\ QualifiedIsExact'
<1>1. /\ \A h \in Folders : h # f => disk'[h] = disk[h]
      /\ disk'[f] = v
  BY DEF Wrote, BatchInv, BatchTypes
<1>2. \A h \in Folders : disk'[h].receipts = disk[h].receipts /\ disk'[h].artifacts = disk[h].artifacts
  BY <1>1
<1>3. ASSUME NEW g \in Games, Alive(g)'
      PROVE  \E h \in Folders : disk'[h].cursor = [status |-> "inflight", next |-> g]
  <2>1. Alive(g)
    BY <1>3 DEF Alive
  <2>2. PICK h \in Folders : disk[h].cursor = [status |-> "inflight", next |-> g]
    BY <2>1 DEF BatchInv, GamesOK
  <2>3. h # f
    BY <2>2
  <2>4. QED
    BY <1>1, <2>2, <2>3
<1>4. GamesOK'
  <2>1. ASSUME NEW g \in Games
        PROVE  /\ PlayOK(game'[g]) /\ launched'[g] <= 1
               /\ launched'[g] > 0 => \E h \in Folders : g \in disk'[h].artifacts
    BY <1>2 DEF BatchInv, GamesOK
  <2>2. QED
    BY <1>3, <2>1 DEF GamesOK
<1>5. QualifiedIsExact'
  <2>1. ASSUME NEW h \in Folders, NEW g \in Games
        PROVE  disk'[h].receipts[g] = disk[h].receipts[g] /\ game'[g] = game[g]
    BY <1>2
  <2>2. QED
    BY <2>1, ExactIsExact DEF BatchInv
<1>6. QED
  BY <1>4, <1>5

LEMMA FreezesKeeps ==
  ASSUME BatchInv, NEW p \in Controllers, Freezes(p)
  PROVE  BatchInv'
<1>0. PICK c \in OneController, f \in Folders, x \in OneFolder :
        c = ctl[p] /\ f = c.in /\ x = disk[f] /\ PlaceOK(p) /\ FolderOK(f)
  <2>1. PICK c \in OneController : c = ctl[p] /\ PlaceOK(p)
    BY ControllersAre
  <2>2. c.in \in Folders /\ disk[c.in] \in OneFolder /\ FolderOK(c.in)
    BY DEF OneController, BatchInv, BatchTypes
  <2>3. QED
    BY <2>1, <2>2
<1>1. /\ c.at = "freezing" /\ MovesTo(p, "pointing")
      /\ UNCHANGED <<budget, game, strangers, faults, lock, claim, last, launched>>
      /\ disk' = [disk EXCEPT ![f].manifest = c.start]
  BY <1>0 DEF Freezes, Is, podVars, In
<1>2. /\ Entitled(f) /\ x.manifest = None /\ c.start # None /\ (f # "batch" => c.start = StartsFrom(f))
      /\ x.cursor = NoCursor /\ x.artifacts = {} /\ \A g \in Games : ~Received(f, g)
  <2>1. x.cursor.status = "none"
    BY <1>0, <1>1 DEF PlaceOK, FolderOK
  <2>2. QED
    BY <1>0, <1>1, <2>1 DEF PlaceOK, FolderOK
<1>3. PICK w \in OneController :
           /\ Taken(p, w) /\ w.at = "pointing" /\ w.in = ctl[p].in /\ w.next = ctl[p].next
           /\ w.start = ctl[p].start /\ w.current = ctl[p].current /\ w.before = ctl[p].before
  BY <1>0, <1>1, MovesIsTaken
<1>4. PICK v : v = [x EXCEPT !.manifest = c.start]
  OBVIOUS
<1>5. /\ v \in OneFolder /\ v.manifest = c.start /\ v.cursor = x.cursor
      /\ v.receipts = x.receipts /\ v.artifacts = x.artifacts
  BY <1>4 DEF OneFolder, OneController
<1>6. Wrote(f, v)
  BY <1>0, <1>1, <1>4, <1>5 DEF Wrote, BatchInv, BatchTypes
<1>7. Kept(f, v)
  BY <1>0, <1>1, <1>6, WriterIsAlone, WriteKeeps DEF Writing
<1>8. FolderOK(f)'
  <2>1. disk'[f] = v /\ (f # "batch" => v.manifest = StartsFrom(f)')
    BY <1>2, <1>5, <1>7 DEF Kept
  <2>2. \A g \in Games : ~Received(f, g)'
    BY <1>0, <1>2, <1>5, <2>1 DEF Received
  <2>3. v.cursor = NoCursor /\ v.cursor.status = "none" /\ v.artifacts = {}
    BY <1>2, <1>5 DEF NoCursor
  <2>4. QED
    BY <2>1, <2>2, <2>3 DEF FolderOK
<1>9. \A h \in Folders : FolderOK(h)'
  BY <1>7, <1>8 DEF Kept
<1>10. PlaceOK(p)'
  <2>1. disk'[f] = v /\ Entitled(f)' /\ v.manifest # None /\ v.cursor.status = "none"
    BY <1>2, <1>5, <1>7 DEF Kept, NoCursor
  <2>2. QED
    BY <1>0, <1>3, <1>5, <2>1 DEF Taken, PlaceOK
<1>11. BatchTypes' /\ BudgetOK' /\ LineOK'
  BY <1>1, <1>3, <1>7 DEF Taken, Kept, BatchInv, BatchTypes, Folders, BudgetOK
<1>12. GamesOK' /\ QualifiedIsExact'
  <2>1. /\ v.receipts = disk[f].receipts /\ v.artifacts = disk[f].artifacts
        /\ disk[f].cursor.status # "inflight"
    BY <1>0, <1>2, <1>5 DEF NoCursor
  <2>2. UNCHANGED <<game, launched>>
    BY <1>1
  <2>3. QED
    BY <1>6, <2>1, <2>2, GamesStayWritten
<1>13. QED
  BY <1>3, <1>9, <1>10, <1>11, <1>12 DEF Taken, BatchInv

LEMMA PointsKeeps ==
  ASSUME BatchInv, NEW p \in Controllers, Points(p)
  PROVE  BatchInv'
<1>0. PICK c \in OneController, f \in Folders, x \in OneFolder :
        c = ctl[p] /\ f = c.in /\ x = disk[f] /\ PlaceOK(p) /\ FolderOK(f)
  <2>1. PICK c \in OneController : c = ctl[p] /\ PlaceOK(p)
    BY ControllersAre
  <2>2. c.in \in Folders /\ disk[c.in] \in OneFolder /\ FolderOK(c.in)
    BY DEF OneController, BatchInv, BatchTypes
  <2>3. QED
    BY <2>1, <2>2
<1>1. /\ c.at = "pointing" /\ UNCHANGED <<budget, game, strangers, faults, lock, claim, last, launched>>
      /\ disk' = [disk EXCEPT ![f].cursor = Ready(First(f))]
      /\ ctl' = IF f = "final"
                THEN [ctl EXCEPT ![p].at = "looping", ![p].next = Last, ![p].current = c.start]
                ELSE [ctl EXCEPT ![p].at = "resuming"]
  BY <1>0 DEF Points, Is, podVars, In
<1>2. /\ Entitled(f) /\ x.manifest # None /\ x.cursor.status = "none" /\ x.artifacts = {}
      /\ (f = "final" => c.start = x.manifest) /\ (f # "batch" => x.manifest = StartsFrom(f))
      /\ \A g \in Games : ~Received(f, g)
  <2>1. x.cursor.status = "none" /\ x.manifest # None /\ Entitled(f) /\ (f = "final" => c.start = x.manifest)
    BY <1>0, <1>1 DEF PlaceOK
  <2>2. QED
    BY <1>0, <2>1 DEF FolderOK
<1>3. PICK n \in 1..3 : n = First(f)
  BY FoldersAre
<1>4. PICK v : v = [x EXCEPT !.cursor = Ready(n)]
  OBVIOUS
<1>5. /\ v \in OneFolder /\ v.manifest = x.manifest /\ v.cursor = Ready(n)
      /\ v.receipts = x.receipts /\ v.artifacts = x.artifacts
  <2>1. Ready(n) \in [status : {"none", "ready", "inflight", "stopped", "completed"}, next : 0..4]
    BY DEF Ready
  <2>2. QED
    BY <1>4, <2>1 DEF OneFolder
<1>6. Wrote(f, v)
  BY <1>0, <1>1, <1>3, <1>4, <1>5 DEF Wrote, BatchInv, BatchTypes
<1>7. Kept(f, v)
  BY <1>0, <1>1, <1>6, WriterIsAlone, WriteKeeps DEF Writing
<1>8. FolderOK(f)'
  <2>1. disk'[f] = v /\ (f # "batch" => v.manifest = StartsFrom(f)')
    BY <1>2, <1>5, <1>7 DEF Kept
  <2>2. \A g \in Games : ~Received(f, g)'
    BY <1>0, <1>2, <1>5, <2>1 DEF Received
  <2>3. v.cursor.status = "ready" /\ v.cursor.next = n /\ v.artifacts = {} /\ v.manifest # None
    BY <1>2, <1>5 DEF Ready
  <2>4. QED
    BY <1>3, <2>1, <2>2, <2>3, GamesAre DEF FolderOK
<1>9. \A h \in Folders : FolderOK(h)'
  BY <1>7, <1>8 DEF Kept
<1>10. lock = {p} /\ lock' = {p}
  BY <1>0, <1>1, LockIsOurs
<1>11. \E w \in OneController : ctl' = [ctl EXCEPT ![p] = w] /\ w.at # "idle" /\ (Taken(p, w) => PlaceOK(p)')
  <2>0. disk'[f] = v /\ Entitled(f)' /\ v.cursor.status # "none"
    BY <1>5, <1>7 DEF Kept, Ready
  <2>1. CASE f = "final"
    <3>0. PICK m \in 0..4, s \in Looks : m = 3 /\ s = c.start
      BY DEF OneController
    <3>1. PICK w : w = [c EXCEPT !.at = "looping", !.next = m, !.current = s]
      OBVIOUS
    <3>2. w \in OneController /\ w.at = "looping" /\ w.in = f /\ w.next = 3 /\ w.current = c.start
      BY <1>0, <3>0, <3>1 DEF OneController
    <3>3. ctl' = [ctl EXCEPT ![p] = w]
      BY <1>0, <1>1, <2>1, <3>0, <3>1 DEF BatchInv, BatchTypes, Last
    <3>4. LedgerBefore(f, 3)' = v.manifest /\ v.cursor = Ready(3)
      BY <1>3, <1>5, <2>0, <2>1, FoldersAre DEF LedgerBefore
    <3>5. Taken(p, w) => PlaceOK(p)'
      BY <1>2, <1>5, <2>0, <2>1, <3>2, <3>4 DEF Taken, PlaceOK
    <3>6. QED
      BY <3>2, <3>3, <3>5
  <2>2. CASE f # "final"
    <3>1. PICK w : w = [c EXCEPT !.at = "resuming"]
      OBVIOUS
    <3>2. w \in OneController /\ w.at = "resuming" /\ w.in = f
      BY <1>0, <3>1 DEF OneController
    <3>3. ctl' = [ctl EXCEPT ![p] = w]
      BY <1>0, <1>1, <2>2, <3>1 DEF BatchInv, BatchTypes
    <3>4. Taken(p, w) => PlaceOK(p)'
      BY <2>0, <2>2, <3>2 DEF Taken, PlaceOK
    <3>5. QED
      BY <3>2, <3>3, <3>4
  <2>3. QED
    BY <2>1, <2>2
<1>12. PICK w \in OneController : Taken(p, w) /\ PlaceOK(p)'
  BY <1>10, <1>11, Takes
<1>13. BatchTypes' /\ BudgetOK' /\ LineOK'
  BY <1>1, <1>7, <1>12 DEF Taken, Kept, BatchInv, BatchTypes, Folders, BudgetOK
<1>14. GamesOK' /\ QualifiedIsExact'
  <2>1. /\ v.receipts = disk[f].receipts /\ v.artifacts = disk[f].artifacts
        /\ disk[f].cursor.status # "inflight"
    BY <1>0, <1>2, <1>5
  <2>2. UNCHANGED <<game, launched>>
    BY <1>1
  <2>3. QED
    BY <1>6, <2>1, <2>2, GamesStayWritten
<1>15. QED
  BY <1>9, <1>12, <1>13, <1>14 DEF Taken, BatchInv

LEMMA LoopsKeeps ==
  ASSUME BatchInv, NEW p \in Controllers, Loops(p)
  PROVE  BatchInv'
<1>0. PICK c \in OneController, f \in Folders, x \in OneFolder :
        c = ctl[p] /\ f = c.in /\ x = disk[f] /\ PlaceOK(p) /\ FolderOK(f)
  <2>1. PICK c \in OneController : c = ctl[p] /\ PlaceOK(p)
    BY ControllersAre
  <2>2. c.in \in Folders /\ disk[c.in] \in OneFolder /\ FolderOK(c.in)
    BY DEF OneController, BatchInv, BatchTypes
  <2>3. QED
    BY <2>1, <2>2
<1>1. PICK g \in 0..4 : g = c.next
  BY DEF OneController
<1>2. c.at = "looping" /\ UNCHANGED <<budget, game, strangers, faults, claim, last, launched>>
  BY <1>0 DEF Loops, Is, podVars
<1>3. Entitled(f) /\ x.cursor = Ready(g) /\ (f # "batch" \/ g # 1 => c.current = LedgerBefore(f, g))
  BY <1>0, <1>1, <1>2 DEF PlaceOK
<1>4. x.cursor.status = "ready" /\ x.cursor.next = g
  BY <1>3 DEF Ready
<1>5. ctl[p].at # "idle" /\ BudgetOK'
  BY <1>0, <1>2 DEF BatchInv, BudgetOK
<1>6. CASE Leaves(p) /\ UNCHANGED disk
  BY <1>2, <1>5, <1>6, LooksAreTyped, JustLeaves
<1>7. ASSUME NEW s \in {"stopped", "inflight"},
             disk' = [disk EXCEPT ![f].cursor = [status |-> s, next |-> g]]
      PROVE  \E v \in OneFolder :
               /\ Kept(f, v) /\ v.cursor = [status |-> s, next |-> g]
               /\ v.manifest = x.manifest /\ v.receipts = x.receipts /\ v.artifacts = x.artifacts
               /\ (\A h \in Folders : FolderOK(h)') /\ GamesOK' /\ QualifiedIsExact'
  <2>1. PICK v : v = [x EXCEPT !.cursor = [status |-> s, next |-> g]]
    OBVIOUS
  <2>2. /\ v \in OneFolder /\ v.manifest = x.manifest /\ v.cursor = [status |-> s, next |-> g]
        /\ v.receipts = x.receipts /\ v.artifacts = x.artifacts
    BY <2>1 DEF OneFolder
  <2>3. Wrote(f, v)
    BY <1>0, <1>2, <1>7, <2>1, <2>2 DEF Wrote, BatchInv, BatchTypes
  <2>4. Kept(f, v)
    BY <1>0, <1>2, <2>3, WriterIsAlone, WriteKeeps DEF Writing
  <2>5. disk'[f] = v /\ (f # "batch" => StartsFrom(f)' = StartsFrom(f))
    BY <2>4 DEF Kept
  <2>6. \A h \in Games : Received(f, h)' <=> Received(f, h)
    BY <1>0, <2>2, <2>5 DEF Received
  <2>7. \A h \in Games : LedgerBefore(f, h)' = LedgerBefore(f, h)
    BY <1>0, <2>2, <2>5 DEF LedgerBefore
  <2>8. FolderOK(f)'
    <3>1. /\ x.manifest # None /\ g >= First(f)
          /\ \A h \in Games \ {g} : h \in x.artifacts <=> First(f) <= h /\ h < g
      BY <1>0, <1>4 DEF FolderOK
    <3>2. \A h \in Games : Received(f, h) =>
             /\ h \in x.artifacts
             /\ f # "batch" \/ h # 1 => x.receipts[h].before = LedgerBefore(f, h)
      BY <1>0 DEF FolderOK
    <3>3. \A h \in Games : h \in x.artifacts /\ h # g => Received(f, h)
      BY <1>0, <1>4 DEF FolderOK
    <3>4. f # "batch" => x.manifest = StartsFrom(f)
      BY <1>0, <3>1 DEF FolderOK
    <3>5. v.cursor.status = s /\ v.cursor.next = g
      BY <2>2
    <3>6. QED
      BY <2>2, <2>5, <2>6, <2>7, <3>1, <3>2, <3>3, <3>4, <3>5 DEF FolderOK
  <2>9. \A h \in Folders : FolderOK(h)'
    BY <2>4, <2>8 DEF Kept
  <2>10. GamesOK' /\ QualifiedIsExact'
    <3>1. /\ v.receipts = disk[f].receipts /\ v.artifacts = disk[f].artifacts
          /\ disk[f].cursor.status # "inflight"
      BY <1>0, <1>4, <2>2
    <3>2. UNCHANGED <<game, launched>>
      BY <1>2
    <3>3. QED
      BY <2>3, <3>1, <3>2, GamesStayWritten
  <2>11. QED
    BY <2>2, <2>4, <2>9, <2>10
<1>8. CASE Leaves(p) /\ disk' = [disk EXCEPT ![f].cursor = [status |-> "stopped", next |-> g]]
  <2>1. PICK v \in OneFolder :
           Kept(f, v) /\ (\A h \in Folders : FolderOK(h)') /\ GamesOK' /\ QualifiedIsExact'
    BY <1>7, <1>8
  <2>2. Taken(p, NoController)
    BY <1>5, <1>8, LockIsOurs, NoControllerIsOne, Takes DEF Leaves, NoController
  <2>3. PlaceOK(p)'
    BY <2>2 DEF Taken, PlaceOK, NoController
  <2>4. BatchTypes' /\ LineOK'
    BY <1>2, <2>1, <2>2 DEF Taken, Kept, BatchInv, BatchTypes, Folders
  <2>5. QED
    BY <1>5, <2>1, <2>2, <2>3, <2>4 DEF Taken, BatchInv
<1>9. CASE /\ ~(g > Last \/ Snapshot # c.current \/ g \in x.artifacts) /\ lock' = lock
           /\ ctl' = [ctl EXCEPT ![p].at = "launching", ![p].before = Snapshot]
           /\ disk' = [disk EXCEPT ![f].cursor = [status |-> "inflight", next |-> g]]
  <2>1. PICK v \in OneFolder :
           /\ Kept(f, v) /\ v.cursor = [status |-> "inflight", next |-> g]
           /\ v.manifest = x.manifest /\ v.receipts = x.receipts /\ v.artifacts = x.artifacts
           /\ (\A h \in Folders : FolderOK(h)') /\ GamesOK' /\ QualifiedIsExact'
    BY <1>7, <1>9
  <2>2. PICK s \in Looks : s = Snapshot
    BY LooksAreTyped
  <2>3. PICK w : w = [c EXCEPT !.at = "launching", !.before = s]
    OBVIOUS
  <2>4. w \in OneController /\ w.at = "launching" /\ w.next = g /\ w.before = s /\ w.in = f
    BY <1>0, <1>1, <2>3 DEF OneController
  <2>5. ctl' = [ctl EXCEPT ![p] = w]
    BY <1>0, <1>9, <2>2, <2>3 DEF BatchInv, BatchTypes
  <2>6. Taken(p, w)
    BY <1>5, <1>9, <2>4, <2>5, LockIsOurs, Takes
  <2>7. g \in Games
    BY <1>0, <1>4, <1>9, FoldersAre, GamesAre DEF FolderOK, Last
  <2>8. g \notin x.artifacts /\ ~Received(f, g)
    BY <1>0, <1>9, <2>7 DEF FolderOK
  <2>9. disk'[f] = v /\ Entitled(f)'
    BY <2>1 DEF Kept
  <2>10. ~Received(f, g)' /\ LedgerBefore(f, g)' = LedgerBefore(f, g)
    BY <1>0, <2>1, <2>8, <2>9 DEF Received, LedgerBefore
  <2>11. s.requests <= budget'.requests
    BY <1>2, <2>2, LooksAreTyped DEF Snapshot, Counts
  <2>12. f # "batch" \/ g # 1 => s = LedgerBefore(f, g)'
    BY <1>3, <1>9, <2>2, <2>10
  <2>13. PlaceOK(p)'
    BY <2>1, <2>4, <2>6, <2>7, <2>8, <2>9, <2>10, <2>11, <2>12 DEF Taken, PlaceOK
  <2>14. BatchTypes' /\ LineOK'
    BY <1>2, <2>1, <2>6 DEF Taken, Kept, BatchInv, BatchTypes, Folders
  <2>15. QED
    BY <1>5, <2>1, <2>6, <2>13, <2>14 DEF Taken, BatchInv
<1>10. QED
  BY <1>0, <1>1, <1>6, <1>8, <1>9 DEF Loops, In, Turn

(***************************************************************************)
(* One game is dispatched, stopped, received and closed.                   *)
(***************************************************************************)

(* The game of a folder in use has no artifacts elsewhere.                 *)
LEMMA NowhereElse ==
  ASSUME BatchInv, NEW f \in Folders, OnlyWriter(f), NEW g \in Games, First(f) <= g,
         NEW e \in Folders, e # f
  PROVE  g \notin disk[e].artifacts /\ ~Received(e, g)
<1>0. Order /\ LineOK
  BY OrderHolds DEF BatchInv
<1>1. \A h \in disk[e].artifacts, n \in Games : StoppedAt(e, n) => h <= n
  BY Within
<1>2. disk[e].manifest = None => g \notin disk[e].artifacts
  BY <1>0 DEF Order, Bare
<1>3. g \notin disk[e].artifacts
  <2>1. CASE f = "batch"
    BY <1>0, <1>2, <2>1, FoldersAre DEF OnlyWriter, LineOK
  <2>2. CASE f \in Dirs
    <3>1. claim = {f} /\ StoppedAt("batch", 1) /\ ~last /\ g >= 2
      BY <2>2, FoldersAre, GamesAre DEF OnlyWriter
    <3>2. disk[e].manifest = None \/ e = "batch"
      BY <1>0, <2>2, <3>1, FoldersAre DEF LineOK
    <3>3. e = "batch" => \A h \in disk[e].artifacts : h <= 1
      BY <1>1, <3>1, GamesAre
    <3>4. QED
      BY <1>2, <3>1, <3>2, <3>3, GamesAre
  <2>3. CASE f = "final"
    <3>1. PICK d \in Dirs : claim = {d} /\ StoppedAt(d, 2) /\ StoppedAt("batch", 1)
      BY <2>3 DEF OnlyWriter
    <3>2. g >= 3
      BY <2>3, FoldersAre
    <3>3. disk[e].manifest = None \/ e = "batch" \/ e = d
      BY <1>0, <2>3, <3>1, FoldersAre DEF LineOK
    <3>4. e = "batch" \/ e = d => \A h \in disk[e].artifacts : h <= 2
      BY <1>1, <3>1, Within, GamesAre
    <3>5. QED
      BY <1>2, <3>2, <3>3, <3>4, GamesAre
  <2>4. QED
    BY <2>1, <2>2, <2>3, FoldersAre
<1>4. QED
  BY <1>3, Within

(* A controller whose game is in flight.                                   *)
Dispatching(p, c, f, x, g) ==
  /\ c = ctl[p] /\ f = c.in /\ x = disk[f] /\ g = c.next
  /\ PlaceOK(p) /\ FolderOK(f) /\ OnlyWriter(f) /\ First(f) <= g
  /\ x.cursor = [status |-> "inflight", next |-> g] /\ x.manifest # None

LEMMA Dispatches ==
  ASSUME BatchInv, NEW p \in Controllers,
         ctl[p].at \in {"launching", "waiting", "verifying", "closing"}
  PROVE  \E c \in OneController, f \in Folders, x \in OneFolder, g \in Games :
           Dispatching(p, c, f, x, g)
<1>1. PICK c \in OneController : c = ctl[p] /\ PlaceOK(p)
  BY ControllersAre
<1>2. PICK f \in Folders, x \in OneFolder : f = c.in /\ x = disk[f] /\ FolderOK(f)
  BY DEF OneController, BatchInv, BatchTypes
<1>3. PICK g \in Games : g = c.next /\ x.cursor = [status |-> "inflight", next |-> g]
  BY <1>1, <1>2 DEF PlaceOK
<1>4. x.cursor.status # "none" /\ x.cursor.next = g
  BY <1>3
<1>5. x.manifest # None /\ First(f) <= g
  BY <1>2, <1>4, FoldersAre, GamesAre DEF FolderOK
<1>6. OnlyWriter(f)
  BY <1>1, <1>2, WriterIsAlone DEF Writing
<1>7. QED
  BY <1>1, <1>2, <1>3, <1>5, <1>6 DEF Dispatching

LEMMA LaunchesKeeps ==
  ASSUME BatchInv, NEW p \in Controllers, Launches(p)
  PROVE  BatchInv'
<1>0. PICK c \in OneController, f \in Folders, x \in OneFolder, g \in Games : Dispatching(p, c, f, x, g)
  BY Dispatches DEF Launches, Is
<1>1. /\ c.at = "launching" /\ MovesTo(p, "waiting")
      /\ UNCHANGED <<budget, strangers, faults, lock, claim, last>>
      /\ game' = [game EXCEPT ![g] = [NoGame EXCEPT !.at = "checking", !.expected = c.before]]
      /\ disk' = [disk EXCEPT ![f].artifacts = @ \cup {g}]
      /\ launched' = [launched EXCEPT ![g] = @ + 1]
  BY <1>0 DEF Launches, Is, In, Turn, Dispatching
<1>2. /\ ~Received(f, g) /\ g \notin x.artifacts /\ c.before.requests <= budget.requests
      /\ (f # "batch" \/ g # 1 => c.before = LedgerBefore(f, g))
  BY <1>0, <1>1 DEF Dispatching, PlaceOK
<1>3. PICK w \in OneController :
           /\ Taken(p, w) /\ w.at = "waiting" /\ w.in = f /\ w.next = g /\ w.before = c.before
  BY <1>0, <1>1, MovesIsTaken DEF Dispatching
<1>4. PICK v : v = [x EXCEPT !.artifacts = x.artifacts \cup {g}]
  OBVIOUS
<1>5. /\ v \in OneFolder /\ v.manifest = x.manifest /\ v.cursor = x.cursor
      /\ v.receipts = x.receipts /\ v.artifacts = x.artifacts \cup {g}
  BY <1>4 DEF OneFolder
<1>6. Wrote(f, v)
  <2>1. disk' = [disk EXCEPT ![f] = v]
    BY <1>0, <1>1, <1>4 DEF Dispatching, BatchInv, BatchTypes
  <2>2. QED
    BY <1>1, <1>5, <2>1 DEF Wrote
<1>7. Kept(f, v)
  BY <1>0, <1>6, WriteKeeps DEF Dispatching
<1>8. disk'[f] = v /\ (f # "batch" => StartsFrom(f)' = StartsFrom(f))
      /\ \A e \in Folders : e # f => disk'[e] = disk[e]
  BY <1>7 DEF Kept
<1>9. /\ \A h \in Games : Received(f, h)' <=> Received(f, h)
      /\ \A h \in Games : LedgerBefore(f, h)' = LedgerBefore(f, h)
  BY <1>0, <1>5, <1>8 DEF Received, LedgerBefore, Dispatching
<1>10. FolderOK(f)'
  <2>1. /\ x.manifest # None /\ g >= First(f) /\ x.cursor.status = "inflight" /\ x.cursor.next = g
        /\ \A h \in Games \ {g} : h \in x.artifacts <=> First(f) <= h /\ h < g
    BY <1>0 DEF FolderOK, Dispatching
  <2>2. \A h \in Games : Received(f, h) =>
           /\ h \in x.artifacts
           /\ f # "batch" \/ h # 1 => x.receipts[h].before = LedgerBefore(f, h)
    BY <1>0 DEF FolderOK, Dispatching
  <2>3. \A h \in Games : h \in x.artifacts /\ h # g => Received(f, h)
    BY <1>0, <2>1 DEF FolderOK, Dispatching
  <2>4. f # "batch" => x.manifest = StartsFrom(f)
    BY <1>0, <2>1 DEF FolderOK, Dispatching
  <2>5. QED
    BY <1>5, <1>8, <1>9, <2>1, <2>2, <2>3, <2>4 DEF FolderOK
<1>11. \A h \in Folders : FolderOK(h)'
  BY <1>7, <1>10 DEF Kept
<1>12. PICK b \in Looks : b = c.before
  BY DEF OneController
<1>13. PICK u : u = [NoGame EXCEPT !.at = "checking", !.expected = b]
  OBVIOUS
<1>14. /\ u \in OneGame /\ PlayOK(u) /\ u.made = 0 /\ ~u.services
  <2>1. NoGame \in OneGame
    <3>1. NoResult \in Outcome /\ None \in Looks
      BY LooksAreTyped DEF NoResult, Outcome
    <3>2. QED
      BY <3>1 DEF NoGame, OneGame
  <2>2. u \in OneGame
    BY <1>13, <2>1 DEF OneGame
  <2>3. /\ u.at = "checking" /\ u.services = FALSE /\ u.attempt = "none" /\ u.rows = 0 /\ u.made = 0
        /\ u.result = NoResult
    BY <1>13 DEF NoGame
  <2>4. QED
    BY <2>2, <2>3 DEF PlayOK, Fresh, NoResult
<1>15. game' = [game EXCEPT ![g] = u]
  BY <1>1, <1>12, <1>13
<1>16. /\ game' \in [Games -> OneGame] /\ game'[g] = u
       /\ \A h \in Games : h # g => game'[h] = game[h]
  BY <1>14, <1>15 DEF BatchInv, BatchTypes
<1>17. \A e \in Folders : g \notin disk[e].artifacts /\ ~Received(e, g)
  BY <1>0, <1>2, NowhereElse DEF Dispatching
<1>18. /\ launched' \in [Games -> Nat] /\ launched'[g] = 1
       /\ \A h \in Games : h # g => launched'[h] = launched[h]
  <2>1. launched \in [Games -> Nat] /\ launched[g] = 0
    <3>1. launched \in [Games -> Nat]
      BY DEF BatchInv, BatchTypes
    <3>2. ~(launched[g] > 0)
      BY <1>17 DEF BatchInv, GamesOK
    <3>3. launched[g] \in Nat
      BY <3>1
    <3>4. QED
      BY <3>1, <3>2, <3>3
  <2>2. QED
    BY <1>1, <2>1
<1>19. GamesOK'
  <2>1. ASSUME NEW h \in Games
        PROVE  /\ PlayOK(game'[h])
               /\ launched'[h] <= 1 /\ (launched'[h] > 0 => \E e \in Folders : h \in disk'[e].artifacts)
    <3>1. CASE h = g
      BY <1>5, <1>8, <1>14, <1>16, <1>18, <3>1
    <3>2. CASE h # g
      <4>1. PlayOK(game[h]) /\ launched[h] <= 1 /\ (launched[h] > 0 => \E e \in Folders : h \in disk[e].artifacts)
        BY DEF BatchInv, GamesOK
      <4>2. \A e \in Folders : h \in disk[e].artifacts => h \in disk'[e].artifacts
        BY <1>0, <1>5, <1>8 DEF Dispatching
      <4>3. QED
        BY <1>16, <1>18, <3>2, <4>1, <4>2
    <3>3. QED
      BY <3>1, <3>2
  <2>2. ASSUME NEW h \in Games, Alive(h)'
        PROVE  \E e \in Folders : disk'[e].cursor = [status |-> "inflight", next |-> h]
    <3>1. CASE h = g
      BY <1>0, <1>5, <1>8, <3>1 DEF Dispatching
    <3>2. CASE h # g
      <4>1. Alive(h)
        BY <1>16, <2>2, <3>2 DEF Alive
      <4>2. PICK e \in Folders : disk[e].cursor = [status |-> "inflight", next |-> h]
        BY <4>1 DEF BatchInv, GamesOK
      <4>3. disk'[e].cursor = disk[e].cursor
        BY <1>0, <1>5, <1>8 DEF Dispatching
      <4>4. QED
        BY <4>2, <4>3
    <3>3. QED
      BY <3>1, <3>2
  <2>3. QED
    BY <2>1, <2>2 DEF GamesOK
<1>20. QualifiedIsExact'
  <2>1. ASSUME NEW e \in Folders, NEW h \in Games, disk'[e].receipts[h].qualified
        PROVE  Exact(disk'[e].receipts[h], game'[h])
    <3>1. disk'[e].receipts = disk[e].receipts
      BY <1>0, <1>5, <1>8 DEF Dispatching
    <3>2. h # g
      BY <1>17, <2>1, <3>1 DEF Received, NoReceipt
    <3>3. QED
      BY <1>16, <2>1, <3>1, <3>2, ExactIsExact DEF BatchInv
  <2>2. QED
    BY <2>1, ExactIsExact
<1>21. BudgetOK'
  <2>1. \A h \in Games : game'[h].services => game'[h] = game[h]
    BY <1>14, <1>16
  <2>2. QED
    BY <1>1, <2>1 DEF BatchInv, BudgetOK
<1>22. PlaceOK(p)'
  <2>1. b.requests + u.made <= budget'.requests
    BY <1>1, <1>2, <1>12, <1>14, LooksAreTyped DEF Looks, Counts
  <2>2. Entitled(f)' /\ ~Received(f, g)' /\ LedgerBefore(f, g)' = LedgerBefore(f, g)
    BY <1>2, <1>7, <1>9 DEF Kept
  <2>3. disk'[f].cursor = [status |-> "inflight", next |-> g] /\ g \in disk'[f].artifacts
    BY <1>0, <1>5, <1>8 DEF Dispatching
  <2>4. QED
    BY <1>2, <1>3, <1>12, <1>16, <2>1, <2>2, <2>3 DEF Taken, PlaceOK
<1>23. BatchTypes' /\ LineOK'
  BY <1>1, <1>3, <1>7, <1>16, <1>18 DEF Taken, Kept, BatchInv, BatchTypes, Folders
<1>24. QED
  BY <1>3, <1>11, <1>19, <1>20, <1>21, <1>22, <1>23 DEF Taken, BatchInv

LEMMA StopsGroupKeeps ==
  ASSUME BatchInv, NEW p \in Controllers, StopsGroup(p)
  PROVE  BatchInv'
<1>0. PICK c \in OneController, f \in Folders, x \in OneFolder, g \in Games : Dispatching(p, c, f, x, g)
  BY Dispatches DEF StopsGroup, Is
<1>1. /\ c.at = "waiting" /\ UNCHANGED <<budget, strangers, disk, claim, last, launched>>
      /\ game' = [game EXCEPT ![g].services = FALSE,
                              ![g].at = IF @ = "exited" THEN "exited" ELSE "dead"]
  BY <1>0 DEF StopsGroup, Is, In, Turn, Dispatching, files
<1>2. /\ ~Received(f, g) /\ g \in x.artifacts /\ c.before.requests + game[g].made <= budget.requests
      /\ (f # "batch" \/ g # 1 => c.before = LedgerBefore(f, g))
  BY <1>0, <1>1 DEF Dispatching, PlaceOK
<1>3. PICK d \in OneGame : d = game[g] /\ PlayOK(d)
  BY DEF BatchInv, BatchTypes, GamesOK
<1>4. PICK a \in {"exited", "dead"} : a = IF d.at = "exited" THEN "exited" ELSE "dead"
  OBVIOUS
<1>5. PICK t \in BOOLEAN : t = FALSE
  OBVIOUS
<1>6. PICK u : u = [d EXCEPT !.services = t, !.at = a]
  OBVIOUS
<1>7. /\ u \in OneGame /\ u.services = FALSE /\ u.at = a /\ u.rows = d.rows /\ u.made = d.made
      /\ u.native = d.native /\ u.attempt = d.attempt /\ u.result = d.result
  BY <1>5, <1>6 DEF OneGame
<1>8. PlayOK(u)
  BY <1>3, <1>7 DEF PlayOK
<1>9. game' = [game EXCEPT ![g] = u]
  <2>1. game' = [game EXCEPT ![g].services = t, ![g].at = a]
    BY <1>1, <1>3, <1>4, <1>5 DEF BatchInv, BatchTypes, OneGame
  <2>2. QED
    BY <1>3, <1>6, <2>1 DEF BatchInv, BatchTypes
<1>10. /\ game' \in [Games -> OneGame] /\ game'[g] = u
       /\ \A h \in Games : h # g => game'[h] = game[h]
  BY <1>7, <1>9 DEF BatchInv, BatchTypes
<1>11. \A h \in Games : ~Alive(h) => ~Alive(h)'
  BY <1>7, <1>10 DEF Alive
<1>12. ~Alive(g)'
  BY <1>7, <1>10 DEF Alive
<1>13. GamesOK'
  <2>1. ASSUME NEW h \in Games
        PROVE  PlayOK(game'[h]) /\ (Alive(h)' => Alive(h))
    BY <1>8, <1>10, <1>11 DEF BatchInv, GamesOK
  <2>2. QED
    BY <1>1, <2>1 DEF BatchInv, GamesOK
<1>14. QualifiedIsExact'
  <2>1. ASSUME NEW e \in Folders, NEW h \in Games, disk'[e].receipts[h].qualified
        PROVE  Exact(disk'[e].receipts[h], game'[h])
    <3>1. Exact(disk[e].receipts[h], game[h]) /\ disk' = disk
      BY <1>1, <2>1, ExactIsExact DEF BatchInv
    <3>2. CASE h = g
      BY <1>3, <1>7, <1>10, <3>1, <3>2 DEF Exact
    <3>3. CASE h # g
      BY <1>10, <3>1, <3>3
    <3>4. QED
      BY <3>2, <3>3
  <2>2. QED
    BY <2>1, ExactIsExact
<1>15. BudgetOK'
  <2>1. \A h \in Games : game'[h].services => game'[h] = game[h]
    BY <1>7, <1>10
  <2>2. QED
    BY <1>1, <2>1 DEF BatchInv, BudgetOK
<1>16. LineOK' /\ (\A h \in Folders : FolderOK(h)')
  BY <1>1, FilesStay
<1>17. CASE Leaves(p) /\ Fault
  <2>1. Taken(p, NoController)
    BY <1>0, <1>1, <1>17, LockIsOurs, NoControllerIsOne, Takes DEF Leaves, NoController, Dispatching
  <2>2. PlaceOK(p)'
    BY <2>1 DEF Taken, PlaceOK, NoController
  <2>3. faults' \in Nat
    BY <1>17, LooksAreTyped DEF Fault
  <2>4. BatchTypes'
    BY <1>1, <1>10, <2>1, <2>3 DEF Taken, BatchInv, BatchTypes, Folders
  <2>5. QED
    BY <1>13, <1>14, <1>15, <1>16, <2>1, <2>2, <2>4 DEF Taken, BatchInv
<1>18. CASE MovesTo(p, "verifying") /\ UNCHANGED <<lock, faults>>
  <2>1. PICK w \in OneController :
           /\ Taken(p, w) /\ w.at = "verifying" /\ w.in = f /\ w.next = g /\ w.before = c.before
    BY <1>0, <1>1, <1>18, MovesIsTaken DEF Dispatching
  <2>2. Entitled(f)' /\ ~Received(f, g)' /\ LedgerBefore(f, g)' = LedgerBefore(f, g)
    BY <1>0, <1>1, <1>2 DEF Dispatching, OnlyWriter, Entitled, StoppedAt, Received, LedgerBefore
  <2>3. disk'[f].cursor = [status |-> "inflight", next |-> g] /\ g \in disk'[f].artifacts
    BY <1>0, <1>1, <1>2 DEF Dispatching
  <2>4. c.before.requests + game'[g].made <= budget'.requests
    BY <1>1, <1>2, <1>3, <1>7, <1>10
  <2>5. PlaceOK(p)'
    BY <1>2, <1>12, <2>1, <2>2, <2>3, <2>4 DEF Taken, PlaceOK
  <2>6. BatchTypes'
    BY <1>1, <1>10, <1>18, <2>1 DEF Taken, BatchInv, BatchTypes, Folders
  <2>7. QED
    BY <1>13, <1>14, <1>15, <1>16, <2>1, <2>5, <2>6 DEF Taken, BatchInv
<1>19. QED
  BY <1>17, <1>18 DEF StopsGroup

LEMMA ReceivesKeeps ==
  ASSUME BatchInv, NEW p \in Controllers, Receives(p)
  PROVE  BatchInv'
<1>0. PICK c \in OneController, f \in Folders, x \in OneFolder, g \in Games : Dispatching(p, c, f, x, g)
  BY Dispatches DEF Receives, Is
<1>1. /\ c.at = "verifying" /\ MovesTo(p, "closing")
      /\ UNCHANGED <<budget, game, strangers, faults, lock, claim, last, launched>>
      /\ disk' = [disk EXCEPT ![f].receipts[g] =
           [qualified |-> Verifies(g, c.before, x.manifest), before |-> c.before, after |-> Snapshot]]
  BY <1>0 DEF Receives, Is, In, Turn, Dispatching, podVars
<1>2. /\ ~Received(f, g) /\ g \in x.artifacts /\ c.before.requests + game[g].made <= budget.requests
      /\ (f # "batch" \/ g # 1 => c.before = LedgerBefore(f, g)) /\ ~Alive(g)
  BY <1>0, <1>1 DEF Dispatching, PlaceOK
<1>3. PICK w \in OneController :
           /\ Taken(p, w) /\ w.at = "closing" /\ w.in = f /\ w.next = g
  BY <1>0, <1>1, MovesIsTaken DEF Dispatching
<1>4. PICK b \in Looks, s \in Looks : b = c.before /\ s = Snapshot
  BY LooksAreTyped DEF OneController
<1>5. PICK k \in BOOLEAN : k = Verifies(g, c.before, x.manifest)
  BY DEF Verifies
<1>6. PICK r \in OneReceipt : r = [qualified |-> k, before |-> b, after |-> s]
  BY DEF OneReceipt
<1>7. r.qualified = k /\ r.before = b /\ r.after = s /\ r # NoReceipt
  <2>1. s # None
    BY <1>4, LooksAreTyped DEF Snapshot, None, Counts
  <2>2. QED
    BY <1>6, <2>1 DEF NoReceipt
<1>8. PICK R \in [Games -> OneReceipt] : R = [x.receipts EXCEPT ![g] = r]
  BY DEF OneFolder
<1>9. R[g] = r /\ \A h \in Games : h # g => R[h] = x.receipts[h]
  BY <1>8 DEF OneFolder
<1>10. PICK v : v = [x EXCEPT !.receipts = R]
  OBVIOUS
<1>11. /\ v \in OneFolder /\ v.manifest = x.manifest /\ v.cursor = x.cursor
       /\ v.receipts = R /\ v.artifacts = x.artifacts
  BY <1>10 DEF OneFolder
<1>12. Wrote(f, v)
  <2>1. disk' = [disk EXCEPT ![f].receipts[g] = r]
    BY <1>1, <1>4, <1>5, <1>6
  <2>2. disk' = [disk EXCEPT ![f] = v]
    BY <1>0, <1>8, <1>10, <2>1 DEF Dispatching, BatchInv, BatchTypes, OneFolder
  <2>3. QED
    BY <1>1, <1>11, <2>2 DEF Wrote
<1>13. Kept(f, v)
  BY <1>0, <1>12, WriteKeeps DEF Dispatching
<1>14. disk'[f] = v /\ (f # "batch" => StartsFrom(f)' = StartsFrom(f))
       /\ \A e \in Folders : e # f => disk'[e] = disk[e]
  BY <1>13 DEF Kept
<1>15. /\ Received(f, g)' /\ \A h \in Games : h # g => (Received(f, h)' <=> Received(f, h))
  BY <1>0, <1>7, <1>9, <1>11, <1>14 DEF Received, Dispatching
<1>16. \A h \in Games : First(f) <= h /\ h <= g => LedgerBefore(f, h)' = LedgerBefore(f, h)
  <2>1. ASSUME NEW h \in Games, First(f) <= h, h <= g
        PROVE  LedgerBefore(f, h)' = LedgerBefore(f, h)
    <3>1. CASE h = First(f)
      BY <1>0, <1>11, <1>14, <3>1 DEF LedgerBefore, Dispatching
    <3>2. CASE h # First(f)
      <4>1. First(f) \in Games
        BY FoldersAre, GamesAre
      <4>2. h - 1 \in Games /\ h - 1 # g
        BY <2>1, <3>2, <4>1, GamesAre
      <4>3. QED
        BY <1>0, <1>9, <1>11, <1>14, <3>2, <4>2 DEF LedgerBefore, Dispatching
    <3>3. QED
      BY <3>1, <3>2
  <2>2. QED
    BY <2>1
<1>17. FolderOK(f)'
  <2>1. /\ x.manifest # None /\ g >= First(f) /\ x.cursor.status = "inflight" /\ x.cursor.next = g
        /\ \A h \in Games \ {g} : h \in x.artifacts <=> First(f) <= h /\ h < g
    BY <1>0 DEF FolderOK, Dispatching
  <2>2. \A h \in Games : Received(f, h) =>
           /\ h \in x.artifacts
           /\ f # "batch" \/ h # 1 => x.receipts[h].before = LedgerBefore(f, h)
    BY <1>0 DEF FolderOK, Dispatching
  <2>3. \A h \in Games : h \in x.artifacts /\ h # g => Received(f, h)
    BY <1>0, <2>1 DEF FolderOK, Dispatching
  <2>4. f # "batch" => x.manifest = StartsFrom(f)
    BY <1>0, <2>1 DEF FolderOK, Dispatching
  <2>5. ASSUME NEW h \in Games, Received(f, h)'
        PROVE  /\ h \in x.artifacts
               /\ f # "batch" \/ h # 1 => R[h].before = LedgerBefore(f, h)'
    <3>1. CASE h = g
      BY <1>2, <1>4, <1>7, <1>9, <1>16, <2>1, <3>1, GamesAre
    <3>2. CASE h # g
      <4>1. Received(f, h) /\ R[h] = x.receipts[h]
        BY <1>9, <1>15, <2>5, <3>2
      <4>2. First(f) <= h /\ h < g
        BY <2>1, <2>2, <3>2, <4>1
      <4>3. LedgerBefore(f, h)' = LedgerBefore(f, h)
        BY <1>16, <4>2, GamesAre
      <4>4. QED
        BY <2>2, <4>1, <4>3
    <3>3. QED
      BY <3>1, <3>2
  <2>6. \A h \in Games : h \in x.artifacts /\ h # g => Received(f, h)'
    BY <1>15, <2>3
  <2>7. QED
    BY <1>11, <1>14, <2>1, <2>4, <2>5, <2>6 DEF FolderOK
<1>18. \A h \in Folders : FolderOK(h)'
  BY <1>13, <1>17 DEF Kept
<1>19. GamesOK'
  <2>1. \A e \in Folders : disk'[e].cursor = disk[e].cursor /\ disk'[e].artifacts = disk[e].artifacts
    BY <1>0, <1>11, <1>14 DEF Dispatching
  <2>2. ASSUME NEW h \in Games
        PROVE  /\ PlayOK(game'[h]) /\ launched'[h] <= 1
               /\ launched'[h] > 0 => \E e \in Folders : h \in disk'[e].artifacts
               /\ Alive(h)' => \E e \in Folders : disk'[e].cursor = [status |-> "inflight", next |-> h]
    BY <1>1, <2>1 DEF BatchInv, GamesOK, Alive
  <2>3. QED
    BY <2>2 DEF GamesOK
<1>20. k => Exact(r, game[g])
  <2>1. SUFFICES ASSUME Verifies(g, c.before, x.manifest)
                 PROVE  Exact(r, game[g])
    BY <1>5
  <2>2. PICK d \in OneGame : d = game[g] /\ PlayOK(d)
    BY DEF BatchInv, BatchTypes, GamesOK
  <2>3. d.result.completed /\ d.rows = budget.requests - b.requests /\ budget.unsettled = b.unsettled
    BY <1>4, <2>1, <2>2 DEF Verifies
  <2>4. b.requests + d.made <= budget.requests /\ d.rows <= d.made /\ d.native = "over"
    BY <1>2, <1>4, <2>2, <2>3 DEF PlayOK
  <2>5. d.rows \in Nat /\ d.made \in Nat /\ b.requests \in Int /\ budget.requests \in Nat
    BY LooksAreTyped DEF OneGame, Looks, Counts
  <2>6. d.rows = d.made /\ d.made = budget.requests - b.requests
    BY <2>3, <2>4, <2>5
  <2>7. s.requests = budget.requests /\ s.unsettled = budget.unsettled
    BY <1>4 DEF Snapshot
  <2>8. QED
    BY <1>2, <1>7, <2>2, <2>3, <2>4, <2>6, <2>7 DEF Exact, Alive
<1>21. QualifiedIsExact'
  <2>1. ASSUME NEW e \in Folders, NEW h \in Games, disk'[e].receipts[h].qualified
        PROVE  Exact(disk'[e].receipts[h], game'[h])
    <3>1. CASE e = f /\ h = g
      BY <1>1, <1>7, <1>9, <1>11, <1>14, <1>20, <2>1, <3>1
    <3>2. CASE ~(e = f /\ h = g)
      <4>1. disk'[e].receipts[h] = disk[e].receipts[h]
        BY <1>0, <1>9, <1>11, <1>14, <3>2 DEF Dispatching
      <4>2. QED
        BY <1>1, <2>1, <4>1, ExactIsExact DEF BatchInv
    <3>3. QED
      BY <3>1, <3>2
  <2>2. QED
    BY <2>1, ExactIsExact
<1>22. PlaceOK(p)'
  <2>1. Entitled(f)' /\ ~Alive(g)'
    BY <1>1, <1>2, <1>13 DEF Kept, Alive
  <2>2. disk'[f].cursor = [status |-> "inflight", next |-> g] /\ g \in disk'[f].artifacts
    BY <1>0, <1>2, <1>11, <1>14 DEF Dispatching
  <2>3. QED
    BY <1>3, <1>15, <2>1, <2>2 DEF Taken, PlaceOK
<1>23. BatchTypes' /\ LineOK' /\ BudgetOK'
  BY <1>1, <1>3, <1>13 DEF Taken, Kept, BatchInv, BatchTypes, Folders, BudgetOK
<1>24. QED
  BY <1>3, <1>18, <1>19, <1>21, <1>22, <1>23 DEF Taken, BatchInv

LEMMA ClosesKeeps ==
  ASSUME BatchInv, NEW p \in Controllers, Closes(p)
  PROVE  BatchInv'
<1>0. PICK c \in OneController, f \in Folders, x \in OneFolder, g \in Games : Dispatching(p, c, f, x, g)
  BY Dispatches DEF Closes, Is
<1>1. PICK r \in OneReceipt : r = x.receipts[g]
  BY DEF OneFolder
<1>2. /\ c.at = "closing" /\ UNCHANGED <<budget, strangers, faults, claim, last, launched>>
      /\ game' = [game EXCEPT ![g] = Closed(game[g], r.qualified)]
  BY <1>0, <1>1 DEF Closes, Is, In, Turn, Dispatching
<1>3. Received(f, g) /\ g \in x.artifacts /\ ~Alive(g)
  BY <1>0, <1>2 DEF Dispatching, PlaceOK
<1>4. PICK d \in OneGame : d = game[g] /\ PlayOK(d)
  BY DEF BatchInv, BatchTypes, GamesOK
<1>5. d.services = FALSE
  BY <1>3, <1>4 DEF Alive, OneGame
<1>6. PICK u : u = Closed(d, r.qualified)
  OBVIOUS
<1>7. /\ u \in OneGame /\ PlayOK(u) /\ u.services = FALSE /\ u.at = "exited"
      /\ r.qualified => u.rows = d.rows /\ u.made = d.made /\ u.native = d.native
  <2>1. NoResult \in Outcome /\ None \in Looks
    BY LooksAreTyped DEF NoResult, Outcome
  <2>2. NoGame \in OneGame /\ NoGame.result = NoResult /\ NoGame.rows = 0 /\ NoGame.made = 0
        /\ NoGame.attempt = "none"
    BY <2>1 DEF NoGame, OneGame
  <2>3. CASE r.qualified
    <3>1. u = [NoGame EXCEPT !.at = "exited", !.services = d.services, !.native = d.native,
                             !.rows = d.rows, !.made = d.made]
      BY <1>6, <2>3 DEF Closed
    <3>2. /\ u \in OneGame /\ u.at = "exited" /\ u.services = d.services /\ u.native = d.native
          /\ u.rows = d.rows /\ u.made = d.made /\ u.attempt = "none" /\ u.result = NoResult
      BY <2>2, <3>1 DEF OneGame
    <3>3. QED
      BY <1>4, <1>5, <3>2 DEF PlayOK, NoResult
  <2>4. CASE ~r.qualified
    <3>1. u = [NoGame EXCEPT !.at = "exited", !.services = d.services]
      BY <1>6, <2>4 DEF Closed
    <3>2. /\ u \in OneGame /\ u.at = "exited" /\ u.services = d.services
          /\ u.rows = 0 /\ u.made = 0 /\ u.attempt = "none" /\ u.result = NoResult
      BY <2>2, <3>1 DEF OneGame
    <3>3. QED
      BY <1>5, <2>4, <3>2 DEF PlayOK, NoResult
  <2>5. QED
    BY <2>3, <2>4
<1>8. /\ game' \in [Games -> OneGame] /\ game'[g] = u
      /\ \A h \in Games : h # g => game'[h] = game[h]
  BY <1>2, <1>4, <1>6, <1>7 DEF BatchInv, BatchTypes
<1>9. ASSUME NEW cur \in [status : {"none", "ready", "inflight", "stopped", "completed"}, next : 0..4],
             disk' = [disk EXCEPT ![f].cursor = cur],
             cur = Ready(g + 1) \/ \E s \in {"stopped", "completed"} : cur = [status |-> s, next |-> g]
      PROVE  \E v \in OneFolder :
               /\ Kept(f, v) /\ v.cursor = cur
               /\ v.manifest = x.manifest /\ v.receipts = x.receipts /\ v.artifacts = x.artifacts
               /\ (\A h \in Folders : FolderOK(h)') /\ GamesOK' /\ QualifiedIsExact'
  <2>1. PICK v : v = [x EXCEPT !.cursor = cur]
    OBVIOUS
  <2>2. /\ v \in OneFolder /\ v.manifest = x.manifest /\ v.cursor = cur
        /\ v.receipts = x.receipts /\ v.artifacts = x.artifacts
    BY <2>1 DEF OneFolder
  <2>3. Wrote(f, v)
    <3>1. disk' = [disk EXCEPT ![f] = v]
      BY <1>0, <1>9, <2>1 DEF Dispatching, BatchInv, BatchTypes
    <3>2. QED
      BY <1>2, <2>2, <3>1 DEF Wrote
  <2>4. Kept(f, v)
    BY <1>0, <2>3, WriteKeeps DEF Dispatching
  <2>5. disk'[f] = v /\ (f # "batch" => StartsFrom(f)' = StartsFrom(f))
        /\ \A e \in Folders : e # f => disk'[e] = disk[e]
    BY <2>4 DEF Kept
  <2>6. \A h \in Games : Received(f, h)' <=> Received(f, h)
    BY <1>0, <2>2, <2>5 DEF Received, Dispatching
  <2>7. \A h \in Games : LedgerBefore(f, h)' = LedgerBefore(f, h)
    BY <1>0, <2>2, <2>5 DEF LedgerBefore, Dispatching
  <2>8. FolderOK(f)'
    <3>1. /\ x.manifest # None /\ g >= First(f) /\ x.cursor.next = g
          /\ \A h \in Games \ {g} : h \in x.artifacts <=> First(f) <= h /\ h < g
      <4>1. x.cursor.status # "none" /\ x.cursor.next = g
        BY <1>0 DEF Dispatching
      <4>2. QED
        BY <1>0, <4>1 DEF FolderOK, Dispatching
    <3>2. \A h \in Games : Received(f, h) =>
             /\ h \in x.artifacts
             /\ f # "batch" \/ h # 1 => x.receipts[h].before = LedgerBefore(f, h)
      BY <1>0 DEF FolderOK, Dispatching
    <3>3. \A h \in Games : h \in x.artifacts => Received(f, h)
      BY <1>0, <1>3, <3>1 DEF FolderOK, Dispatching
    <3>4. f # "batch" => x.manifest = StartsFrom(f)
      BY <1>0, <3>1 DEF FolderOK, Dispatching
    <3>5. cur.status # "none" /\ cur.next >= First(f)
          /\ \A h \in Games \ {cur.next} : h \in x.artifacts <=> First(f) <= h /\ h < cur.next
      <4>1. CASE cur = Ready(g + 1)
        <5>1. cur.status = "ready" /\ cur.next = g + 1
          BY <4>1 DEF Ready
        <5>2. cur.next >= First(f)
          BY <3>1, <5>1, FoldersAre, GamesAre
        <5>3. ASSUME NEW h \in Games \ {g + 1}
              PROVE  h \in x.artifacts <=> First(f) <= h /\ h < g + 1
          <6>1. CASE h = g
            BY <1>3, <3>1, <6>1, GamesAre
          <6>2. CASE h # g
            BY <3>1, <5>3, <6>2, GamesAre
          <6>3. QED
            BY <6>1, <6>2
        <5>4. QED
          BY <5>1, <5>2, <5>3
      <4>2. CASE \E s \in {"stopped", "completed"} : cur = [status |-> s, next |-> g]
        BY <3>1, <4>2
      <4>3. QED
        BY <1>9, <4>1, <4>2
    <3>6. cur.status = "ready" => cur.next \notin x.artifacts
      <4>1. cur.status = "ready" => cur = Ready(g + 1)
        BY <1>9
      <4>2. cur = Ready(g + 1) => cur.next = g + 1
        BY DEF Ready
      <4>3. g + 1 \notin x.artifacts
        <5>1. x.artifacts \subseteq Games
          BY DEF OneFolder
        <5>2. QED
          BY <3>1, <5>1, GamesAre
      <4>4. QED
        BY <4>1, <4>2, <4>3
    <3>7. QED
      BY <2>2, <2>5, <2>6, <2>7, <3>1, <3>2, <3>3, <3>4, <3>5, <3>6 DEF FolderOK
  <2>9. \A h \in Folders : FolderOK(h)'
    BY <2>4, <2>8 DEF Kept
  <2>10. GamesOK'
    <3>1. \A e \in Folders : disk'[e].artifacts = disk[e].artifacts
      BY <1>0, <2>2, <2>5 DEF Dispatching
    <3>2. ASSUME NEW h \in Games
          PROVE  /\ PlayOK(game'[h]) /\ launched'[h] <= 1
                 /\ launched'[h] > 0 => \E e \in Folders : h \in disk'[e].artifacts
      BY <1>2, <1>7, <1>8, <3>1 DEF BatchInv, GamesOK
    <3>3. ASSUME NEW h \in Games, Alive(h)'
          PROVE  \E e \in Folders : disk'[e].cursor = [status |-> "inflight", next |-> h]
      <4>1. h # g
        BY <1>7, <1>8, <3>3 DEF Alive
      <4>2. Alive(h)
        BY <1>8, <3>3, <4>1 DEF Alive
      <4>3. PICK e \in Folders : disk[e].cursor = [status |-> "inflight", next |-> h]
        BY <4>2 DEF BatchInv, GamesOK
      <4>4. e # f
        BY <1>0, <4>1, <4>3 DEF Dispatching
      <4>5. QED
        BY <2>5, <4>3, <4>4
    <3>4. QED
      BY <3>2, <3>3 DEF GamesOK
  <2>11. QualifiedIsExact'
    <3>1. ASSUME NEW e \in Folders, NEW h \in Games, disk'[e].receipts[h].qualified
          PROVE  Exact(disk'[e].receipts[h], game'[h])
      <4>1. disk'[e].receipts[h] = disk[e].receipts[h]
        BY <1>0, <2>2, <2>5 DEF Dispatching
      <4>2. Exact(disk[e].receipts[h], game[h])
        BY <3>1, <4>1, ExactIsExact DEF BatchInv
      <4>3. CASE h = g
        <5>1. e = f
          BY <1>0, <3>1, <4>1, <4>3, NowhereElse DEF Dispatching, Received, NoReceipt
        <5>2. r.qualified
          BY <1>0, <1>1, <3>1, <4>1, <4>3, <5>1 DEF Dispatching
        <5>3. QED
          BY <1>4, <1>7, <1>8, <4>1, <4>2, <4>3, <5>2 DEF Exact
      <4>4. CASE h # g
        BY <1>8, <4>1, <4>2, <4>4
      <4>5. QED
        BY <4>3, <4>4
    <3>2. QED
      BY <3>1, ExactIsExact
  <2>12. QED
    BY <2>2, <2>4, <2>9, <2>10, <2>11
<1>10. BudgetOK'
  <2>1. \A h \in Games : game'[h].services => game'[h] = game[h]
    BY <1>7, <1>8
  <2>2. QED
    BY <1>2, <2>1 DEF BatchInv, BudgetOK
<1>11. ctl[p].at # "idle" /\ lock = {p}
  BY <1>0, <1>2, LockIsOurs DEF Dispatching
<1>12. CASE r.qualified /\ f # "final"
  <2>1. /\ disk' = [disk EXCEPT ![f].cursor = Ready(g + 1)] /\ lock' = lock
        /\ ctl' = [ctl EXCEPT ![p].at = "looping", ![p].next = g + 1, ![p].current = r.after]
    BY <1>0, <1>1, <1>12 DEF Closes, In, Turn, Dispatching
  <2>2. PICK m \in 0..4, a \in Looks : m = g + 1 /\ a = r.after
    BY GamesAre DEF OneReceipt
  <2>3. Ready(m) \in [status : {"none", "ready", "inflight", "stopped", "completed"}, next : 0..4]
    BY DEF Ready
  <2>4. PICK v \in OneFolder :
           /\ Kept(f, v) /\ v.cursor = Ready(g + 1)
           /\ v.manifest = x.manifest /\ v.receipts = x.receipts /\ v.artifacts = x.artifacts
           /\ (\A h \in Folders : FolderOK(h)') /\ GamesOK' /\ QualifiedIsExact'
    BY <1>9, <2>1, <2>2, <2>3
  <2>5. PICK w : w = [c EXCEPT !.at = "looping", !.next = m, !.current = a]
    OBVIOUS
  <2>6. w \in OneController /\ w.at = "looping" /\ w.next = m /\ w.current = a /\ w.in = f
    BY <1>0, <2>5 DEF OneController, Dispatching
  <2>7. ctl' = [ctl EXCEPT ![p] = w]
    BY <1>0, <2>1, <2>2, <2>5 DEF Dispatching, BatchInv, BatchTypes
  <2>8. Taken(p, w)
    BY <1>11, <2>1, <2>6, <2>7, Takes
  <2>9. disk'[f] = v /\ Entitled(f)'
    BY <2>4 DEF Kept
  <2>10. LedgerBefore(f, m)' = a
    <3>1. m # First(f) /\ m - 1 = g
      BY <1>0, <2>2, FoldersAre, GamesAre DEF Dispatching
    <3>2. QED
      BY <1>1, <2>2, <2>4, <2>9, <3>1 DEF LedgerBefore
  <2>11. PlaceOK(p)'
    BY <2>2, <2>4, <2>6, <2>8, <2>9, <2>10 DEF Taken, PlaceOK
  <2>12. BatchTypes' /\ LineOK'
    BY <1>2, <1>8, <2>4, <2>8 DEF Taken, Kept, BatchInv, BatchTypes, Folders
  <2>13. QED
    BY <1>10, <2>4, <2>8, <2>11, <2>12 DEF Taken, BatchInv
<1>13. CASE ~(r.qualified /\ f # "final")
  <2>1. PICK s \in {"stopped", "completed"} : s = IF r.qualified THEN "completed" ELSE "stopped"
    OBVIOUS
  <2>2. disk' = [disk EXCEPT ![f].cursor = [status |-> s, next |-> g]] /\ Leaves(p)
    BY <1>0, <1>1, <1>13, <2>1 DEF Closes, In, Turn, Dispatching
  <2>3. [status |-> s, next |-> g] \in
          [status : {"none", "ready", "inflight", "stopped", "completed"}, next : 0..4]
    BY GamesAre
  <2>4. PICK v \in OneFolder :
           Kept(f, v) /\ (\A h \in Folders : FolderOK(h)') /\ GamesOK' /\ QualifiedIsExact'
    BY <1>9, <2>2, <2>3
  <2>5. Taken(p, NoController)
    BY <1>11, <2>2, LockIsOurs, NoControllerIsOne, Takes DEF Leaves, NoController
  <2>6. PlaceOK(p)'
    BY <2>5 DEF Taken, PlaceOK, NoController
  <2>7. BatchTypes' /\ LineOK'
    BY <1>2, <1>8, <2>4, <2>5 DEF Taken, Kept, BatchInv, BatchTypes, Folders
  <2>8. QED
    BY <1>10, <2>4, <2>5, <2>6, <2>7 DEF Taken, BatchInv
<1>14. QED
  BY <1>12, <1>13

(***************************************************************************)
(* The invariant, and what it says.                                        *)
(***************************************************************************)

LEMMA BatchStarts ==
  ASSUME BatchInit
  PROVE  BatchInv
<1>1. None \in Looks /\ NoResult \in Outcome
  BY DEF None, Looks, NoResult, Outcome
<1>2. NoGame \in OneGame
  BY <1>1 DEF NoGame, OneGame
<1>3. NoReceipt \in OneReceipt /\ NoCursor \in [status : {"none", "ready", "inflight", "stopped", "completed"}, next : 0..4]
  BY <1>1 DEF NoReceipt, OneReceipt, NoCursor
<1>4. NoFolder \in OneFolder
  BY <1>1, <1>3 DEF NoFolder, OneFolder
<1>5. /\ lock = {} /\ ctl = [p \in Controllers |-> NoController]
      /\ disk = [f \in Folders |-> NoFolder] /\ claim = {} /\ last = FALSE
      /\ launched = [g \in Games |-> 0] /\ game = [g \in Games |-> NoGame]
      /\ budget = [requests |-> 0, unsettled |-> 0, limit |-> "old", cap |-> "old"]
      /\ strangers = 0 /\ faults = 0
  BY DEF BatchInit, PodInit
<1>6. BatchTypes
  BY <1>2, <1>4, <1>5, NoControllerIsOne DEF BatchTypes
<1>7. BudgetOK /\ LockOK /\ LineOK
  <2>1. BudgetOK
    BY <1>5, PodAssumption DEF BudgetOK, NoGame
  <2>2. LockOK
    BY <1>5 DEF LockOK, NoController
  <2>3. LineOK
    BY <1>5, FoldersAre DEF LineOK, NoFolder
  <2>4. QED
    BY <2>1, <2>2, <2>3
<1>8. \A f \in Folders, g \in Games : ~Received(f, g) /\ ~disk[f].receipts[g].qualified
  BY <1>5 DEF Received, NoFolder, NoReceipt
<1>9. GamesOK /\ QualifiedIsExact
  BY <1>5, <1>8 DEF GamesOK, QualifiedIsExact, PlayOK, Fresh, Alive, NoGame, NoResult
<1>10. ASSUME NEW f \in Folders
       PROVE  FolderOK(f)
  BY <1>5, <1>8 DEF FolderOK, NoFolder, NoCursor
<1>11. \A p \in Controllers : PlaceOK(p)
  BY <1>5 DEF PlaceOK, NoController
<1>12. QED
  BY <1>6, <1>7, <1>9, <1>10, <1>11 DEF BatchInv

LEMMA BatchSteps ==
  ASSUME BatchInv, [BatchNext]_allVars
  PROVE  BatchInv'
<1>1. CASE UNCHANGED allVars
  <2>1. /\ UNCHANGED <<budget, game, strangers, faults, lock, ctl, disk, claim, last, launched>>
        /\ UNCHANGED batchVars
    BY <1>1 DEF allVars, podVars, batchVars
  <2>2. BatchTypes' /\ BudgetOK' /\ LockOK'
    BY <2>1 DEF BatchInv, BatchTypes, Folders, BudgetOK, LockOK
  <2>3. LineOK' /\ (\A f \in Folders : FolderOK(f)') /\ GamesOK' /\ QualifiedIsExact'
    BY <2>1, FilesStay, GamesStay
  <2>4. ASSUME NEW p \in Controllers
        PROVE  PlaceOK(p)'
    <3>1. PlaceOK(p)
      BY DEF BatchInv
    <3>2. QED
      BY <2>1, <3>1 DEF PlaceOK, Entitled, StoppedAt, Received, Claimed, StartsFrom, LedgerBefore, Alive
  <2>5. QED
    BY <2>2, <2>3, <2>4 DEF BatchInv
<1>2. CASE \E p \in Controllers : Step(p) \/ Killed(p) \/ \E f \in Folders : Opens(p, f)
  <2>1. PICK p \in Controllers : Step(p) \/ Killed(p) \/ \E f \in Folders : Opens(p, f)
    BY <1>2
  <2>2. CASE RaisesLimit(p)
    BY <2>2, RaisesKeeps DEF RaisesLimit
  <2>3. CASE RaisesCap(p)
    BY <2>3, RaisesKeeps DEF RaisesCap
  <2>4. QED
    BY <2>1, <2>2, <2>3, ClaimsKeeps, FreezesKeeps, PointsKeeps, ResumesKeeps, LoopsKeeps,
       LaunchesKeeps, StopsGroupKeeps, UnverifiedKeeps, ReceivesKeeps, ClosesKeeps, KilledKeeps,
       OpensKeeps
       DEF Step
<1>3. CASE (\E g \in Games : Launcher(g) \/ Services(g) \/ LauncherDies(g)) /\ UNCHANGED batchVars
  BY <1>3, GamesPlay, OneGamePlays
<1>4. CASE Stranger /\ UNCHANGED batchVars
  BY <1>4, StrangerPlays
<1>5. QED
  BY <1>1, <1>2, <1>3, <1>4 DEF BatchNext

(* At most one game is alive, and none was dispatched twice.               *)
LEMMA PlayedOnceHolds ==
  ASSUME BatchInv
  PROVE  PlayedOnce
<1>1. \A g \in Games : launched[g] <= 1
  BY DEF BatchInv, GamesOK
<1>2. Cardinality({g \in Games : Alive(g)}) <= 1
  <2>1. CASE {g \in Games : Alive(g)} = {}
    BY <2>1, FS_EmptySet
  <2>2. CASE {g \in Games : Alive(g)} # {}
    <3>1. PICK g \in Games : Alive(g)
      BY <2>2
    <3>2. {h \in Games : Alive(h)} = {g}
      BY <3>1, OneAlive
    <3>3. Cardinality({g}) = 1
      BY FS_Singleton
    <3>4. Cardinality({h \in Games : Alive(h)}) = 1
      BY <3>2, <3>3
    <3>5. QED
      BY <3>4
  <2>3. QED
    BY <2>1, <2>2
<1>3. QED
  BY <1>1, <1>2 DEF PlayedOnce

LEMMA BatchTypeHolds ==
  ASSUME BatchInv
  PROVE  BatchTypeOK
<1>1. budget \in [requests : 0..MaxRequests, unsettled : 0..MaxRequests,
                  limit : {"old", "new"}, cap : {"old", "new"}]
  <2>1. budget \in [requests : Nat, unsettled : Nat, limit : {"old", "new"}, cap : {"old", "new"}]
        /\ budget.requests <= MaxRequests /\ budget.unsettled <= budget.requests
    BY LooksAreTyped DEF Counts
  <2>2. budget.requests \in 0..MaxRequests /\ budget.unsettled \in 0..MaxRequests
    BY <2>1, PodAssumption
  <2>3. QED
    BY <2>1, <2>2
<1>2. lock \subseteq Controllers /\ Cardinality(lock) <= 1
  <2>1. lock = {} \/ \E p \in Controllers : lock = {p}
    BY DEF BatchInv, LockOK
  <2>2. Cardinality(lock) <= 1
    BY <2>1, FS_EmptySet, FS_Singleton
  <2>3. QED
    BY <2>2 DEF BatchInv, BatchTypes
<1>3. ASSUME NEW p \in Controllers
      PROVE  ctl[p].in \in Folders /\ (~Is(p, "idle") <=> p \in lock)
  BY DEF BatchInv, BatchTypes, OneController, LockOK, Is
<1>4. ASSUME NEW g \in Games
      PROVE  launched[g] \in Nat /\ game[g].rows <= game[g].made
  BY DEF BatchInv, BatchTypes, GamesOK, PlayOK
<1>5. QED
  BY <1>1, <1>2, <1>3, <1>4 DEF BatchTypeOK, BatchInv, BatchTypes

(* A game that was begun follows the receipt of the one before it.         *)
LEMMA Follows ==
  ASSUME BatchInv, NEW f \in Folders, NEW g \in Games \ {1}, g \in disk[f].artifacts
  PROVE  \E e \in Folders :
           /\ Received(e, g - 1) /\ \A d \in Folders : d # e => ~Received(d, g - 1)
           /\ LedgerBefore(f, g) = disk[e].receipts[g - 1].after
<1>0. FolderOK(f) /\ Order /\ g - 1 \in Games
  BY OrderHolds, GamesAre DEF BatchInv
<1>1. disk[f].cursor.status # "none" /\ disk[f].manifest # None /\ First(f) <= g
  BY <1>0, Within DEF FolderOK
<1>2. \E e \in Folders : Received(e, g - 1) /\ LedgerBefore(f, g) = disk[e].receipts[g - 1].after
  <2>1. CASE g = First(f)
    <3>1. f # "batch" /\ LedgerBefore(f, g) = StartsFrom(f)
      BY <1>0, <1>1, <2>1, FoldersAre DEF LedgerBefore, FolderOK
    <3>2. CASE f \in Dirs
      BY <1>0, <1>1, <2>1, <3>1, <3>2, FoldersAre, StartsAre DEF Order, StoppedAt
    <3>3. CASE f = "final"
      <4>1. PICK d \in Dirs : claim = {d} /\ StoppedAt(d, 2)
        BY <1>0, <1>1, <3>3 DEF Order
      <4>2. g - 1 = 2 /\ StartsFrom(f) = disk[d].receipts[2].after
        BY <2>1, <3>3, <4>1, FoldersAre, StartsAre
      <4>3. QED
        BY <3>1, <4>1, <4>2, FoldersAre DEF StoppedAt
    <3>4. QED
      BY <3>1, <3>2, <3>3, FoldersAre
  <2>2. CASE g # First(f)
    <3>1. First(f) <= g - 1 /\ LedgerBefore(f, g) = disk[f].receipts[g - 1].after
      BY <1>1, <2>2, FoldersAre, GamesAre DEF LedgerBefore
    <3>2. \A h \in Games \ {disk[f].cursor.next} :
            h \in disk[f].artifacts <=> First(f) <= h /\ h < disk[f].cursor.next
      BY <1>0, <1>1 DEF FolderOK
    <3>3. PICK n \in 0..4 : n = disk[f].cursor.next
      BY DEF BatchInv, BatchTypes, OneFolder
    <3>4. g <= n
      BY <3>2, <3>3, GamesAre
    <3>5. g - 1 \in disk[f].artifacts /\ g - 1 # n
      BY <1>0, <3>1, <3>2, <3>3, <3>4, GamesAre
    <3>6. Received(f, g - 1)
      BY <1>0, <3>3, <3>5 DEF FolderOK
    <3>7. QED
      BY <3>1, <3>6
  <2>3. QED
    BY <2>1, <2>2
<1>3. PICK e \in Folders : Received(e, g - 1) /\ LedgerBefore(f, g) = disk[e].receipts[g - 1].after
  BY <1>2
<1>4. \A d \in Folders : d # e => ~Received(d, g - 1)
  <2>1. g - 1 \in disk[e].artifacts
    BY <1>0, <1>3, Within
  <2>2. ASSUME NEW d \in Folders, d # e, Received(d, g - 1)
        PROVE  FALSE
    BY <1>0, <2>1, <2>2, Within, Apart
  <2>3. QED
    BY <2>2
<1>5. QED
  BY <1>3, <1>4

LEMMA LineageHolds ==
  ASSUME BatchInv
  PROVE  LineageIsWhole
<1>1. ASSUME NEW g \in Games \ {1}, launched[g] > 0
      PROVE  Cardinality(ReceiptsOf(g - 1)) = 1
  <2>1. PICK f \in Folders : g \in disk[f].artifacts
    BY <1>1 DEF BatchInv, GamesOK
  <2>2. PICK e \in Folders : Received(e, g - 1) /\ \A d \in Folders : d # e => ~Received(d, g - 1)
    BY <2>1, Follows
  <2>3. ReceiptsOf(g - 1) = {disk[e].receipts[g - 1]}
    BY <2>2 DEF ReceiptsOf
  <2>4. QED
    BY <2>3, FS_Singleton
<1>2. ASSUME NEW g \in Games \ {1}, NEW r \in ReceiptsOf(g), NEW s \in ReceiptsOf(g - 1)
      PROVE  r.before = s.after
  <2>1. PICK f \in Folders : Received(f, g) /\ r = disk[f].receipts[g]
    BY <1>2 DEF ReceiptsOf
  <2>2. PICK d \in Folders : Received(d, g - 1) /\ s = disk[d].receipts[g - 1]
    BY <1>2 DEF ReceiptsOf
  <2>3. g \in disk[f].artifacts /\ r.before = LedgerBefore(f, g)
    BY <2>1 DEF BatchInv, FolderOK
  <2>4. PICK e \in Folders :
          /\ \A h \in Folders : h # e => ~Received(h, g - 1)
          /\ LedgerBefore(f, g) = disk[e].receipts[g - 1].after
    BY <2>3, Follows
  <2>5. d = e
    BY <2>2, <2>4
  <2>6. QED
    BY <2>2, <2>3, <2>4, <2>5
<1>3. QED
  BY <1>1, <1>2 DEF LineageIsWhole

(* The three games are one sequence, each played at most once and          *)
(* accounted exactly, by controllers that hold the runtime one at a time:  *)
(* for any number of controllers and of folders, however many are started  *)
(* or killed, and for any number of requests of other runs.                *)
THEOREM GamesAreOneSequence == BatchSpec => []GamesFollow
<1>1. BatchInit => BatchInv
  BY BatchStarts
<1>2. BatchInv /\ [BatchNext]_allVars => BatchInv'
  BY BatchSteps
<1>3. BatchInv => GamesFollow
  BY PlayedOnceHolds, BatchTypeHolds, LineageHolds DEF GamesFollow, BatchInv
<1>4. QED
  BY <1>1, <1>2, <1>3, PTL DEF BatchSpec
=============================================================================
