-------------------------------- MODULE Values --------------------------------
(***************************************************************************)
(* The values that travel between nodes, the templates a config holds in   *)
(* their place (nodes/support/expr.py) and the results by which a node     *)
(* chooses its ports (runtime/ports.py).  A value is None, a text, a       *)
(* mapping or a list.  A template is one reference, a text with references *)
(* in it, or a text with a reference that is not closed; every other value *)
(* in a config stands for itself.                                          *)
(***************************************************************************)
EXTENDS SequencesExt, Integers

None == [is |-> "none"]
Text(t) == [is |-> "text", text |-> t]
Dict(f) == [is |-> "dict", at |-> f]
List(s) == [is |-> "list", at |-> s]

EmptyDict == Dict([k \in {} |-> None])

Path(keys) == [is |-> "path", keys |-> keys]
Mixed(keys) == [is |-> "mixed", keys |-> keys]
Unclosed == [is |-> "unclosed"]

IsText(v) == v.is = "text"
IsDict(v) == v.is = "dict"
IsList(v) == v.is = "list"
IsString(t) == t.is \in {"text", "path", "mixed", "unclosed"}

Has(v, key) == IsDict(v) /\ key \in DOMAIN v.at
Keys(v) == IF IsDict(v) THEN DOMAIN v.at ELSE {}

\* FlowNode.option: a None is as good as absent.
Option(config, key, default) ==
    IF key \in DOMAIN config /\ config[key] # None THEN config[key] ELSE default

-----------------------------------------------------------------------------
(* Expressions *)

FollowKey(S, key) == {v.at[key] : v \in {w \in S : Has(w, key)}}

\* try_resolve_path: the value a path leads to, as a set of at most one.
\* $json is the value on `in`, or all the inputs of a node nothing feeds.
try_resolve_path(keys, inputs) ==
    IF Head(keys) # "$json" THEN FoldLeft(FollowKey, {Dict(inputs)}, keys)
    ELSE FoldLeft(FollowKey, {IF "in" \in DOMAIN inputs THEN inputs["in"] ELSE Dict(inputs)}, Tail(keys))

Resolves(keys, inputs) == try_resolve_path(keys, inputs) # {}

\* evaluate: a single reference keeps its type and is None where it leads
\* nowhere; references in a text are rendered.
evaluate(template, inputs) ==
    CASE template.is = "path" ->
            IF Resolves(template.keys, inputs)
            THEN CHOOSE v \in try_resolve_path(template.keys, inputs) : TRUE ELSE None
      [] template.is = "mixed" -> Text("rendered")
      [] template.is = "unclosed" -> Text("{{")
      [] OTHER -> template

FalsyTexts == {"", "0", "false", "no", "off", "null"}

truthy(v) ==
    \/ IsText(v) /\ v.text \notin FalsyTexts
    \/ (IsDict(v) \/ IsList(v)) /\ DOMAIN v.at # {}

\* text: a mapping or a list becomes JSON.
textOf(v) == CASE IsText(v) -> v.text [] v.is = "none" -> "" [] OTHER -> "JSON"

-----------------------------------------------------------------------------
(* Results that choose ports *)

PortOnly(port, value) == Dict(("__port" :> Text(port)) @@ ("value" :> value))
PortBranch(port, value) == Dict(("branch" :> Text(port)) @@ ("value" :> value))

\* ctx.input("in", ctx.inputs)
Incoming(inputs) == IF "in" \in DOMAIN inputs THEN inputs["in"] ELSE Dict(inputs)
=============================================================================
