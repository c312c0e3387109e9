---------------------------- MODULE ModelAliases ----------------------------
(***************************************************************************)
(* src/proxy/openai.rs, handle_models: the backend's list of models with   *)
(* the names the routing rules give a meaning.  A model is [id, owner], a  *)
(* rule [kind, value]; Blank is a value without a letter.  Either loop is  *)
(* its body.                                                               *)
(***************************************************************************)
EXTENDS Integers, Sequences

CONSTANTS Blank, Pomfret

(* The values of the rules of kind "model", each once. *)
WithAlias(ids, rule) ==
  IF \/ rule.kind # "model"
     \/ rule.value = Blank
     \/ \E i \in DOMAIN ids : ids[i] = rule.value
  THEN ids ELSE Append(ids, rule.value)

AliasEntry(id) == [id |-> id, owner |-> Pomfret]

\* Variant of PutAlias: the entry is added whether the backend has it or not.
PushAlias(data, id) == Append(data, AliasEntry(id))

(* The first model of that name is replaced. *)
PutAlias(data, id) ==
  LET same == {i \in DOMAIN data : data[i].id = id}
  IN  IF same = {} THEN Append(data, AliasEntry(id))
      ELSE [data EXCEPT ![CHOOSE i \in same : \A j \in same : i <= j] = AliasEntry(id)]
=============================================================================
