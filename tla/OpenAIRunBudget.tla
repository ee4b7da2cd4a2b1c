-------------------------- MODULE OpenAIRunBudget --------------------------
(***************************************************************************)
(* OpenAIRunBudget (commander_gym/openai_run_budget.py): the ledger, on    *)
(* disk, that all processes that pay for model requests share.             *)
(*                                                                         *)
(* A request is reserved in the ledger, dispatched, and settled when the   *)
(* provider reported its usage; whatever goes wrong after the reservation  *)
(* keeps it.  A transaction holds an exclusive lock from reading the       *)
(* ledger to replacing it, so it is one step; it may fail before or after  *)
(* the file was replaced (the directory's fsync comes last).  A process    *)
(* may die at any time.                                                    *)
(*                                                                         *)
(* Costs are natural numbers: prices and floating point are not modelled.  *)
(* The provider charges at most what was reserved, which a byte per token  *)
(* plus a margin is meant to ensure, and reports at least its charge.      *)
(*                                                                         *)
(* Some operators are preceded by a variant of theirs with a bug this code *)
(* could have.  No definition uses it: PROJECT.json names the property     *)
(* that TLC finds violated when the variant takes the operator's place.    *)
(***************************************************************************)
EXTENDS Integers, FiniteSets

CONSTANTS
  Processes,   (* processes that share the ledger                          *)
  Calls,       (* calls of create, over all processes                      *)
  Costs,       (* what a request may reserve                               *)
  Caps,        (* amounts a cap, of the run or of a session, may have      *)
  Default,     (* the amount ($5) above which requests must be limited     *)
  Limits,      (* request counts a limit may have                          *)
  NoLimit,     (* absence of a limit                                       *)
  MaxStarts    (* bound: starts of processes                               *)

ASSUME BudgetAssumption ==
  /\ Costs \subseteq Nat \ {0} /\ Caps # {} /\ Caps \subseteq Nat \ {0} /\ Limits \subseteq Nat /\ Default \in Nat
  /\ NoLimit \notin Nat /\ MaxStarts \in Nat /\ IsFiniteSet(Calls)

VARIABLES
  locked,     (* whether the .lock file exists                             *)
  exists,     (* whether the ledger file does                              *)
  ledger,     (* its contents                                              *)
  proc,       (* the fields of each process's OpenAIRunBudget object       *)
  call,       (* each call of create: see Places; what it reserved, what   *)
              (* the provider charged for it, and the usage it reported    *)
  owner,      (* the process that makes it                                 *)
  spent,      (* what the provider has charged                             *)
  starts      (* counts up to MaxStarts                                    *)

vars == <<locked, exists, ledger, proc, call, owner, spent, starts>>

Ledger == [cap : Caps, limit : Limits \cup {NoLimit}, estimated : Nat,
           requests : Nat, unsettled : Nat]

Process == [up : BOOLEAN, cap : Caps, limit : Limits \cup {NoLimit}, sessionCap : Caps,
            sessionLimit : Limits \cup {NoLimit}, fresh : BOOLEAN]

(* A call ends "refused" when nothing of it is in the ledger, "unsent" or  *)
(* "kept" when its reservation stays, without or with a dispatch, or       *)
(* "settled".                                                              *)
Places == {"idle", "reserved", "dispatched", "answered",
           "refused", "unsent", "kept", "settled"}

Idle == [at |-> "idle", cost |-> 0, charge |-> 0, usage |-> 0]

TypeOK ==
  /\ locked \in BOOLEAN /\ exists \in BOOLEAN /\ ledger \in Ledger
  /\ proc \in [Processes -> Process]
  /\ call \in [Calls -> [at : Places, cost : Nat, charge : Nat, usage : Nat]]
  /\ owner \in [Calls -> Processes]
  /\ spent \in Nat /\ starts \in 0..MaxStarts

AnyCap == CHOOSE c \in Caps : TRUE

NotUp == [up |-> FALSE, cap |-> AnyCap, limit |-> NoLimit,
          sessionCap |-> AnyCap, sessionLimit |-> NoLimit, fresh |-> FALSE]

Init ==
  /\ locked = FALSE /\ exists = FALSE /\ spent = 0 /\ starts = 0
  /\ ledger = [cap |-> AnyCap, limit |-> NoLimit,
               estimated |-> 0, requests |-> 0, unsettled |-> 0]
  /\ proc = [p \in Processes |-> NotUp]
  /\ call = [c \in Calls |-> Idle] /\ owner \in [Calls -> Processes]

-----------------------------------------------------------------------------
(***************************************************************************)
(* Configurations.                                                         *)
(***************************************************************************)

Elevated(cap) == cap > Default

(* What the constructor accepts.                                           *)
Sound(k) ==
  /\ k.sessionCap <= k.cap
  /\ k.sessionLimit # NoLimit => k.limit # NoLimit /\ k.sessionLimit <= k.limit
  /\ Elevated(k.cap) => k.limit # NoLimit

-----------------------------------------------------------------------------
(***************************************************************************)
(* Transactions.                                                           *)
(***************************************************************************)

MayRecreate(p) == proc[p].fresh /\ ~Elevated(proc[p].cap)

(* A process creates the ledger only when told to, and never when there is *)
(* a sign that there was one.                                              *)
MayCreate(p) == ~exists /\ ~locked /\ proc[p].fresh /\ ~Elevated(proc[p].cap)

Zero(p) == [cap |-> proc[p].cap, limit |-> proc[p].limit,
            estimated |-> 0, requests |-> 0, unsettled |-> 0]

Read(p) == IF MayCreate(p) THEN Zero(p) ELSE ledger

Readable(p) ==
  /\ exists \/ MayCreate(p)
  /\ Read(p).cap = proc[p].cap
  /\ Elevated(Read(p).cap) => Read(p).limit # NoLimit

(* Checked by every transaction, settlements too; a change of the limit    *)
(* makes its own comparison.                                               *)
SameLimit(p) == Read(p).limit = proc[p].limit

Replace(new) == exists' = TRUE /\ ledger' = new /\ locked' = TRUE

(* A transaction of p that fails before the ledger is replaced, or is      *)
(* rejected, leaves the lock file, and may have created a zero ledger.     *)
Fruitless(p) ==
  /\ locked' = TRUE
  /\ \/ UNCHANGED <<exists, ledger>>
     \/ MayCreate(p) /\ exists' = TRUE /\ ledger' = Zero(p)

-----------------------------------------------------------------------------
(***************************************************************************)
(* create.                                                                 *)
(***************************************************************************)

Running(c) == proc[owner[c]].up

Moves(c, at) == call' = [call EXCEPT ![c].at = at]

LimitedByOneMore(n, limit) == limit # NoLimit => n <= limit

Limited(n, limit) == limit # NoLimit => n < limit

Fits(p, cost) ==
  /\ Read(p).estimated + cost <= proc[p].cap
  /\ Read(p).estimated + cost <= proc[p].sessionCap

InLimits(p) ==
  /\ Limited(Read(p).requests, proc[p].limit)
  /\ Limited(Read(p).requests, proc[p].sessionLimit)

(* The replacement may be reported as failed after it took effect; then    *)
(* the request is not sent and its reservation stays.                      *)
Reserve(c) ==
  LET p == owner[c] IN
  /\ call[c].at = "idle" /\ Running(c)
  /\ Readable(p) /\ SameLimit(p) /\ InLimits(p)
  /\ \E cost \in Costs :
       /\ Fits(p, cost)
       /\ Replace([Read(p) EXCEPT !.estimated = @ + cost, !.requests = @ + 1, !.unsettled = @ + 1])
       /\ \E at \in {"reserved", "unsent"} :
            call' = [call EXCEPT ![c].at = at, ![c].cost = cost]
  /\ UNCHANGED <<proc, owner, spent, starts>>

(* Rejected by a check, or the write failed: both can happen any time, the *)
(* deadline of the run being one of the checks.                            *)
ReserveFails(c) ==
  /\ call[c].at = "idle" /\ Running(c)
  /\ Fruitless(owner[c])
  /\ Moves(c, "refused")
  /\ UNCHANGED <<proc, owner, spent, starts>>

(* The deadline may also pass between the reservation and the dispatch.    *)
DeadlinePassed(c) ==
  /\ call[c].at = "reserved" /\ Running(c)
  /\ Moves(c, "unsent")
  /\ UNCHANGED <<locked, exists, ledger, proc, owner, spent, starts>>

(* The provider takes the request and charges for it.                      *)
Dispatch(c) ==
  /\ call[c].at = "reserved" /\ Running(c)
  /\ \E charge \in 0..call[c].cost :
       /\ call' = [call EXCEPT ![c].at = "dispatched", ![c].charge = charge]
       /\ spent' = spent + charge
  /\ UNCHANGED <<locked, exists, ledger, proc, owner, starts>>

Answer(c) ==
  /\ call[c].at = "dispatched" /\ Running(c)
  /\ \E usage \in call[c].charge..call[c].cost :
       call' = [call EXCEPT ![c].at = "answered", ![c].usage = usage]
  /\ UNCHANGED <<locked, exists, ledger, proc, owner, spent, starts>>

Unreserved(c) == [ledger EXCEPT !.estimated = @ - call[c].cost, !.unsettled = @ - 1]

(* The call of the provider raised, or answered without a valid usage: the *)
(* provider may have charged all the same.                                 *)
AfterFailure(c) == ledger

AnswerFails(c) ==
  /\ call[c].at = "dispatched" /\ Running(c)
  /\ ledger' = AfterFailure(c)
  /\ Moves(c, "kept")
  /\ UNCHANGED <<locked, exists, proc, owner, spent, starts>>

Settled(c) ==
  [ledger EXCEPT !.estimated = @ - (call[c].cost - call[c].usage), !.unsettled = @ - 1]

Settle(c) ==
  /\ call[c].at = "answered" /\ Running(c)
  /\ exists /\ Readable(owner[c]) /\ SameLimit(owner[c])
  /\ Replace(Settled(c)) /\ Moves(c, "settled")
  /\ UNCHANGED <<proc, owner, spent, starts>>

(* The write failed, or another process changed the cap or the limit.      *)
SettleFails(c) ==
  /\ call[c].at = "answered" /\ Running(c)
  /\ Fruitless(owner[c]) /\ Moves(c, "kept")
  /\ UNCHANGED <<proc, owner, spent, starts>>

-----------------------------------------------------------------------------
(***************************************************************************)
(* Authorizations and processes.                                           *)
(***************************************************************************)

(* The ledger has the new value; the object learns it unless the write was *)
(* reported as failed after it took effect.                                *)
Learns(p, k) == proc' \in {proc, [proc EXCEPT ![p] = k]}

SetRequestLimit(p) ==
  /\ proc[p].up /\ exists /\ Readable(p) /\ SameLimit(p)
  /\ \E new \in Limits :
       /\ new >= ledger.requests
       /\ ledger.limit # NoLimit => new > ledger.limit
       /\ Replace([ledger EXCEPT !.limit = new])
       /\ Learns(p, [proc[p] EXCEPT !.limit = new])
  /\ UNCHANGED <<call, owner, spent, starts>>

Increase(p, new) == new > proc[p].cap /\ (Elevated(new) => proc[p].limit # NoLimit)

IncreaseCap(p) ==
  /\ proc[p].up /\ exists /\ Readable(p) /\ SameLimit(p)
  /\ \E new \in Caps :
       /\ Increase(p, new)
       /\ Replace([ledger EXCEPT !.cap = new])
       /\ Learns(p, [proc[p] EXCEPT !.cap = new])
  /\ UNCHANGED <<call, owner, spent, starts>>

Start(p) ==
  /\ ~proc[p].up /\ starts < MaxStarts
  /\ \E k \in Process : k.up /\ Sound(k) /\ proc' = [proc EXCEPT ![p] = k]
  /\ starts' = starts + 1
  /\ UNCHANGED <<locked, exists, ledger, call, owner, spent>>

(* What its calls had reserved stays reserved.                             *)
Dies(p) ==
  /\ proc[p].up
  /\ proc' = [proc EXCEPT ![p] = NotUp]
  /\ call' = [c \in Calls |->
                IF owner[c] # p THEN call[c]
                ELSE [call[c] EXCEPT !.at =
                        CASE @ = "reserved" -> "unsent"
                          [] @ \in {"dispatched", "answered"} -> "kept"
                          [] OTHER -> @]]
  /\ UNCHANGED <<locked, exists, ledger, owner, spent, starts>>

Next ==
  \/ \E c \in Calls :
       \/ Reserve(c) \/ ReserveFails(c) \/ DeadlinePassed(c)
       \/ Dispatch(c) \/ Answer(c) \/ AnswerFails(c)
       \/ Settle(c) \/ SettleFails(c)
  \/ \E p \in Processes : SetRequestLimit(p) \/ IncreaseCap(p) \/ Start(p) \/ Dies(p)

Spec == Init /\ [][Next]_vars

-----------------------------------------------------------------------------
(***************************************************************************)
(* Properties.                                                             *)
(***************************************************************************)

Sent == {c \in Calls : call[c].at \in {"dispatched", "answered", "kept", "settled"}}

Counted == Sent \cup {c \in Calls : call[c].at \in {"reserved", "unsent"}}

(* Whatever fails, dies or is settled late, the ledger never shows less    *)
(* than the provider has charged: a reservation is released only against a *)
(* reported usage.                                                         *)
SpendingIsCovered == spent <= ledger.estimated

(* The estimate stays under the cap and the requests within the limit that *)
(* the ledger has, although each process compares with its own numbers and *)
(* others may raise them meanwhile.                                        *)
LedgerIsWithin ==
  ledger.estimated <= ledger.cap
    /\ (ledger.limit = NoLimit \/ ledger.requests <= ledger.limit)

(* The ledger's counts are those of the calls that reserved: none is lost  *)
(* or counted twice by failures, deaths and settlements.                   *)
CountsAreExact ==
  /\ ledger.requests = Cardinality(Counted)
  /\ ledger.unsettled = Cardinality({c \in Counted : call[c].at # "settled"})

(* A cap above the default never stands without a request limit: raising   *)
(* it asks for the object's own limit, which is the ledger's.              *)
ElevatedIsLimited == Elevated(ledger.cap) /\ exists => ledger.limit # NoLimit

(* The ledger as an account: it covers what was charged, stays within what *)
(* was authorized and counts every request once.                           *)
LedgerIsSound ==
  TypeOK /\ SpendingIsCovered /\ LedgerIsWithin /\ CountsAreExact /\ ElevatedIsLimited

(* No transaction forgets: an existing ledger is never begun anew, its     *)
(* count never falls, and its cap and limit only rise.                     *)
Remembers ==
  exists =>
    /\ exists' /\ ledger'.requests >= ledger.requests
    /\ ledger'.cap >= ledger.cap
    /\ ledger.limit # NoLimit => ledger'.limit # NoLimit /\ ledger'.limit >= ledger.limit

LedgerRemembers == [][Remembers]_vars

-----------------------------------------------------------------------------
(* The budget implements SpendingMeter; nothing is authorized before the   *)
(* ledger exists.                                                          *)
Meter == INSTANCE SpendingMeter
           WITH spent <- spent, sent <- Cardinality(Sent),
                cap <- IF exists THEN ledger.cap ELSE 0,
                limit <- IF exists THEN ledger.limit ELSE NoLimit

ImplementsMeter == Meter!Spec
=============================================================================
