--------------------------- MODULE MCBackendPool ---------------------------
(* The configurations a console saves: turns for everything; a rule that   *)
(* pins a model to a backend, which may be deleted, above one that takes   *)
(* turns; and rules that take turns above a default that is pinned.        *)
EXTENDS BackendPool, TLC

CONSTANTS m, text

To(strategy, id) == [strategy |-> strategy, id |-> id]
Foremost == To("first_available", NoId)
Turns == To("round_robin", NoId)
Pin(id) == To("specific", id)

ModelRule(target) == [type |-> "model", model |-> m, target |-> target]
LengthRule(target) == [type |-> "length", above |-> 5, target |-> target]
MatchRule(target) == [type |-> "model_matches", models |-> {m}, target |-> target]
TextRule(target) == [type |-> "regex", bodies |-> {text}, target |-> target]

MCRoutings ==
  { [rules |-> << >>, default |-> Turns],
    [rules |-> <<ModelRule(Pin(2)), LengthRule(Turns)>>, default |-> Foremost],
    [rules |-> <<TextRule(Turns), MatchRule(Turns)>>, default |-> Pin(1)] }

(* A chat request for the model m, a long one with some text, and GET /v1/models. *)
MCAsks ==
  { [model |-> m, length |-> 5, body |-> NoText],
    [model |-> NoModel, length |-> 6, body |-> text],
    [model |-> NoModel, length |-> 0, body |-> NoText] }

Symmetry == Permutations(Requests) \cup Permutations(Consoles)
=============================================================================
