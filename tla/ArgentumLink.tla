----------------------------- MODULE ArgentumLink -----------------------------
(***************************************************************************)
(* What can become of one request of a runner to the engine:               *)
(* commander_gym/argentum_client.py, which sorts the ways a request fails, *)
(* and commander_gym/argentum_gateway.py, which a remote client goes       *)
(* through.  The gateway forwards what it admits to an engine on its own   *)
(* host and turns an engine that does not answer into an answer: 502.      *)
(* A client that is told 502 takes it for a refusal of the engine, though  *)
(* a mutation may have been applied.                                       *)
(***************************************************************************)
EXTENDS FiniteSets

CONSTANT TheGateway   \* [token, bind, upstream]; its upstream [scheme, host, bare]

NoToken == "none"

\* A client is [scheme, host, token].
ClientMay(c) ==
  /\ c.scheme \in {"http", "https"}
  /\ c.host # "loopback" => c.scheme = "https" /\ c.token # NoToken

GatewayMay(g) ==
  /\ g.token # NoToken /\ g.bind = "loopback"
  /\ g.upstream = [scheme |-> "http", host |-> "loopback", bare |-> TRUE]

ASSUME ArgentumLinkAssumption == GatewayMay(TheGateway)

-----------------------------------------------------------------------------
(* The requests a client can make.  A body is made by the client, so it is  *)
(* JSON; only that of a mutation can be longer than the gateway takes.      *)

Reading(path, query) == [method |-> "GET", path |-> path, query |-> query, mutating |-> FALSE]
Mutating(method, path) == [method |-> method, path |-> path, query |-> {}, mutating |-> TRUE]

Looks == {Reading("health", {}), Reading("status", {}), Reading("schema-hash", {})}
ListEnvs == Reading("envs", {})
ObserveEnv == Reading("env", {})
ObserveSeat == Reading("env", {"perspectivePlayerId"})
CreateEnv == Mutating("POST", "envs")
StepEnv == Mutating("POST", "step")
SubmitDecision == Mutating("POST", "decision")
DisposeEnvs == Mutating("DELETE", "envs")

-----------------------------------------------------------------------------
(* The gateway: who asks, for what, and how much. *)

Allowed(r) ==
  \/ /\ <<r.method, r.path>> \in {<<"GET", "health">>, <<"GET", "status">>, <<"GET", "schema-hash">>,
                                  <<"GET", "envs">>, <<"POST", "envs">>, <<"DELETE", "envs">>}
     /\ r.query = {}
  \/ r.method = "GET" /\ r.path = "env" /\ r.query \subseteq {"revealAll", "perspectivePlayerId"}
  \/ r.method = "POST" /\ r.path \in {"step", "decision"} /\ r.query = {}

TooLong(r) == IF r.mutating THEN BOOLEAN ELSE {FALSE}

-----------------------------------------------------------------------------
(* Answers, with what was done when they are given: "ok", "error" (an HTTP  *)
(* status), "garbled" (no JSON), "lost" (none came, on the way there or     *)
(* back), "cut" (it broke off, or is no HTTP).                              *)

Answer(how, applied) == [how |-> how, applied |-> applied]

Engine(r) ==
  {Answer("ok", r.mutating), Answer("garbled", r.mutating), Answer("error", FALSE)}
    \cup {Answer(how, a) : how \in {"lost", "cut"}, a \in IF r.mutating THEN BOOLEAN ELSE {FALSE}}

\* No answer of the engine is answered; over one that is cut the handler ends, and
\* gives none.
PassedOn(a) ==
  CASE a.how = "lost" -> Answer("error", a.applied)
    [] a.how = "cut"  -> Answer("lost", a.applied)
    [] OTHER          -> a
Handle(r, c, long) ==
  IF c.token # TheGateway.token \/ ~Allowed(r) \/ long THEN {Answer("error", FALSE)}
  ELSE {PassedOn(a) : a \in Engine(r)}

\* On the way to the gateway and back an answer can be lost or cut as well.
Gateway(r, c) ==
  UNION {{a, Answer("lost", a.applied), Answer("cut", a.applied)} : a \in UNION {Handle(r, c, long) : long \in TooLong(r)}}

-----------------------------------------------------------------------------
(* What the client makes of it. *)

KindOf(r, a) ==
  CASE a.how = "ok" -> "ok"
    [] a.how = "error" -> "remote"
    [] a.how = "garbled" -> "garbled"
    [] a.how = "cut"     -> "broken"     \* neither of the errors it sorts
    [] OTHER -> IF r.mutating THEN "unknown" ELSE "connection"

\* The outcomes of a request, and those that raise.  A client without a token is on
\* the engine's own host and talks to it directly, every other one to the gateway.
Outcomes(r, c) ==
  {[kind |-> KindOf(r, a), applied |-> a.applied] :
     a \in IF c.token = NoToken THEN Engine(r) ELSE Gateway(r, c)}
Raises(r, c) == {o \in Outcomes(r, c) : o.kind # "ok"}
=============================================================================
