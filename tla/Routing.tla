------------------------------ MODULE Routing ------------------------------
(***************************************************************************)
(* src/routing.rs: which backend a request goes to.                        *)
(*                                                                         *)
(* A condition is reduced to what it tells apart: a pattern to the set it  *)
(* matches, empty when it does not compile; a threshold to its number.  A  *)
(* rule whose threshold does not parse matches nothing and is left out.    *)
(*   [type |-> "model",         model  |-> m, target |-> ...]              *)
(*   [type |-> "model_matches", models |-> S, target |-> ...]              *)
(*   [type |-> "length",        above  |-> n, target |-> ...]              *)
(*   [type |-> "regex",         bodies |-> S, target |-> ...]              *)
(* A target is [strategy, id], a request [model, length, body].            *)
(***************************************************************************)
EXTENDS Integers, Sequences

CONSTANTS
  NoBackend,  \* None for a backend
  NoId,       \* None for a target's backend id
  NoModel,    \* None for the model of a request
  NoText      \* None for the body of a request

Matches(rule, req) ==
  \/ rule.type = "model" /\ req.model = rule.model
  \/ rule.type = "model_matches" /\ req.model \in rule.models
  \/ rule.type = "length" /\ req.length > rule.above
  \/ rule.type = "regex" /\ req.body \in rule.bodies

Named(backends, id) == {i \in DOMAIN backends : backends[i].id = id}

(* Whether a target finds a backend in a list that is not empty. *)
Serves(backends, target) ==
  \/ target.strategy # "specific"
  \/ target.id = NoId
  \/ Named(backends, target.id) # {}

First(S) == CHOOSE i \in S : \A j \in S : i <= j

(* select_backend, n being the round-robin counter. *)
SelectBackend(backends, target, n) ==
  CASE backends = << >> -> NoBackend
    [] backends # << >> /\ target.strategy = "round_robin" ->
         backends[(n % Len(backends)) + 1]
    [] backends # << >> /\ target.strategy = "specific" /\ target.id # NoId ->
         IF Serves(backends, target)
         THEN backends[First(Named(backends, target.id))] ELSE NoBackend
    [] OTHER -> backends[1]

\* Variant of Deciding: a rule that matches decides, backend or not.
DecidingBlindly(backends, routing, req) ==
  LET hits == {i \in DOMAIN routing.rules : Matches(routing.rules[i], req)}
  IN  IF hits = {} THEN routing.default ELSE routing.rules[First(hits)].target

(* The target that decides: that of the first rule which matches and finds *)
(* a backend, else the default.                                            *)
Deciding(backends, routing, req) ==
  LET hits == {i \in DOMAIN routing.rules :
                 /\ Matches(routing.rules[i], req)
                 /\ Serves(backends, routing.rules[i].target)}
  IN  IF hits = {} THEN routing.default ELSE routing.rules[First(hits)].target

(* resolve_backend, and whether it took a tick of the counter. *)
ResolveBackend(backends, routing, req, n) ==
  IF backends = << >> THEN NoBackend
  ELSE SelectBackend(backends, Deciding(backends, routing, req), n)

TakesTick(backends, routing, req) ==
  /\ backends # << >>
  /\ Deciding(backends, routing, req).strategy = "round_robin"
=============================================================================
