------------------------------- MODULE Executors -------------------------------
(***************************************************************************)
(* The executors of the shipped kinds (nodes/): what a node of a kind      *)
(* returns for its config and its inputs.  execute is the set of outcomes, *)
(* since models, stores, people and nested runs answer as they like.  What *)
(* they answer is data; which port the node lights is up to its code.      *)
(***************************************************************************)
EXTENDS Catalogue

CONSTANTS
    Answers,        \* what a store, a tool or a terminal hands back
    Completions,    \* what a model's client hands back: mappings
    Responses,      \* what an HTTP client hands back: mappings
    NestedOutputs,  \* the outputs of a nested run, by node id
    Named           \* the ports a model may name, offered or not

\* `given` is the client's result, where the node asked one.
Reports(value, given) == [ok |-> TRUE, value |-> value, warns |-> FALSE, given |-> given]
Returns(value) == Reports(value, None)
Routes(value, warns) == [Returns(value) EXCEPT !.warns = warns]
Aborts == [Returns(None) EXCEPT !.ok = FALSE]

MayRaise(values) == {Aborts} \cup {Returns(v) : v \in values}

Fields(names, value) == Dict([f \in names |-> value])

-----------------------------------------------------------------------------
(* Triggers *)

manual_trigger(inputs) == Dict(inputs)

webhook_trigger(inputs) == Option(inputs, "payload", Dict(inputs))

\* The seed wins over the schedule's own fields.
schedule_trigger(config, inputs) ==
    Dict(inputs @@ [cron |-> Option(config, "cron", None),
                    timezone |-> Option(config, "timezone", Text("UTC"))])

-----------------------------------------------------------------------------
(* Routing *)

\* _validate_routing_expression: a bare text is not an expression.
RefusedAsRoute(template) ==
    \/ IsText(template) /\ template.text \notin {"", " "}
    \/ template = Unclosed

\* warn_if_unresolved
RoutedByNothing(template, inputs) == template.is = "path" /\ ~Resolves(template.keys, inputs)

branch(config, inputs) ==
    LET condition == Option(config, "condition", None)
        port == IF truthy(evaluate(condition, inputs)) THEN "true" ELSE "false"
    IN  IF RefusedAsRoute(condition) THEN Aborts
        ELSE Routes(PortBranch(port, Incoming(inputs)), RoutedByNothing(condition, inputs))

CasePort(config, value) ==
    LET cases == Option(config, "cases", None)
    IN  IF Has(cases, value) /\ cases.at[value] # None THEN textOf(cases.at[value]) ELSE "default"

switch_case(config, inputs) ==
    LET expression == Option(config, "value", None)
        port == CasePort(config, textOf(evaluate(expression, inputs)))
    IN  IF RefusedAsRoute(expression) THEN Aborts
        ELSE Routes(PortOnly(port, Incoming(inputs)), RoutedByNothing(expression, inputs))

\* declared_routes: the ports, without the blank ones.
declared_routes(config) ==
    LET routes == Option(config, "routes", None)
    IN  IF IsList(routes) THEN SelectSeq(routes.at, LAMBDA r : r # Text("")) ELSE <<>>

FallbackOn(config) == Option(config, "fallback", None) # Text("false")

resolve_fallback_port(config) ==
    IF FallbackOn(config) THEN "fallback" ELSE declared_routes(config)[1].text

\* No route, or no client, aborts; a port that was not offered is not taken.
llm_router(config, inputs) ==
    LET offered == {r.text : r \in ToSet(declared_routes(config))}
        chosen(p) == IF p \in offered THEN p ELSE resolve_fallback_port(config)
        report(p) == Dict([route |-> Text(chosen(p)), reason |-> None, input |-> Dict(inputs)])
    IN  {Aborts} \cup
        IF offered = {} THEN {}
        ELSE {Routes(PortOnly(chosen(p), report(p)), p \notin offered) : p \in Named}

human_approval_all(inputs) ==                                                    \* mistake
    LET port == IF truthy(Option(inputs, "approved", Text("yes"))) THEN "approved" ELSE "denied"
    IN  PortBranch(port, Dict(inputs))
\* The offline gate reads an `approved` flag and defaults to yes.
human_approval(inputs) ==
    LET port == IF truthy(Option(inputs, "approved", Text("yes"))) THEN "approved" ELSE "denied"
    IN  PortBranch(port, Incoming(inputs))

user_input(inputs) == Option(inputs, "values", Incoming(inputs))

-----------------------------------------------------------------------------
(* The loop: `lane` is "unwired", "empty" or "body", from the graph *)

ValuesIn(f) == LET keys == SetToSeq(DOMAIN f) IN [i \in DOMAIN keys |-> f[keys[i]]]

ItemsOf(source) ==
    CASE IsDict(source) -> ValuesIn(source.at)
      [] IsList(source) -> source.at
      [] source = None -> <<>>
      [] OTHER -> <<source>>

\* A lane that ran or failed per item; a pause in it aborts the node, and so do
\* an empty lane, no registry, or more items than it may run.
for_each(config, inputs, lane) ==
    LET source == evaluate(Option(config, "source", None), inputs)
        items == List(ItemsOf(source))
        count == Text("count")
    IN  IF lane = "unwired" \/ Option(config, "mode", None) = Text("collect")
        THEN {Returns(Dict([items |-> items, count |-> count]))}
        ELSE {Aborts} \cup
             IF lane = "empty" THEN {}
             ELSE {Returns(PortOnly("done",
                       Dict([items |-> items, count |-> count, results |-> results, failures |-> failures]))) :
                      results, failures \in {List(<<>>), items}}

\* Streams on a port of its own; `both` returns the outputs as they are.
subflow(config, outputs) ==
    CASE Option(config, "mode", None) = Text("stream") -> PortOnly("stream", outputs)
      [] Option(config, "mode", None) = Text("both") -> outputs
      [] OTHER -> PortOnly("out", outputs)

\* No reference, no resolver, too deep, not the pinned version, or a child that
\* failed or paused: it aborts.
SubflowOutcomes(config) ==
    {Aborts} \cup
    IF Option(config, "workflow", Text("")) \in {Text(""), Text(" ")} THEN {}
    ELSE {Returns(subflow(config, outputs)) : outputs \in NestedOutputs}

\* The outputs of the nested run, whether or not it succeeded.
subgraph(config, inputs) ==
    IF ~IsDict(Option(config, "graph", None)) THEN {Returns(Incoming(inputs))}
    ELSE {Aborts} \cup {Returns(outputs) : outputs \in NestedOutputs}

-----------------------------------------------------------------------------
(* Shaping *)

\* Each mapping by key, anything else by its port; which of two inputs wins a key
\* is the order they arrived in.
Offers(inputs, key) ==
    {inputs[p].at[key] : p \in {q \in DOMAIN inputs : Has(inputs[q], key)}}
        \cup {inputs[p] : p \in {q \in DOMAIN inputs \cap {key} : ~IsDict(inputs[q]) /\ inputs[q] # None}}

MergedMappings(inputs) ==                                                        \* mistake
    {Dict([k \in UNION {Keys(inputs[p]) : p \in DOMAIN inputs} |->
        CHOOSE v \in {inputs[p].at[k] : p \in {q \in DOMAIN inputs : Has(inputs[q], k)}} : TRUE])}
Merged(inputs) ==
    LET keys == DOMAIN inputs \cup UNION {Keys(inputs[p]) : p \in DOMAIN inputs}
        given == {k \in keys : Offers(inputs, k) # {}}
    IN  {Dict(f) : f \in {g \in [given -> UNION {Offers(inputs, k) : k \in given}] :
                             \A k \in given : g[k] \in Offers(inputs, k)}}

merge(config, inputs) ==
    IF Option(config, "mode", Text("merge")) = Text("concat")
    THEN LET present == SelectSeq(ValuesIn(inputs), LAMBDA v : v # None)
         IN  {Returns(List(FlattenSeq([i \in DOMAIN present |->
                 IF IsList(present[i]) THEN present[i].at ELSE <<present[i]>>])))}
    ELSE {Returns(v) : v \in Merged(inputs)}

wait_alone(config, inputs) ==                                                    \* mistake
    Dict([waited |-> Option(config, "mode", Text("duration")), duration |-> Option(config, "duration", None)])
wait(config, inputs) ==
    Dict([waited |-> Option(config, "mode", Text("duration")),
          duration |-> Option(config, "duration", None), input |-> Incoming(inputs)])

transform(config, inputs) ==
    LET rows == TransformRows(config)
        keys == {row.at["key"].text : row \in ToSet(rows)}
        lastRow(k) == rows[SelectLastInSeq(rows, LAMBDA row : row.at["key"].text = k)]
    IN  CASE transform_path(config) = "expression" -> evaluate(config["expression"], inputs)
          [] transform_path(config) = "fields" ->
                Dict([k \in keys |-> evaluate(Option(lastRow(k).at, "value", None), inputs)])
          [] transform_path(config) = "input" -> Incoming(inputs)

-----------------------------------------------------------------------------
(* Services *)

memory_store(config, inputs) ==
    LET value == evaluate(Option(config, "value", None), inputs)
    IN  CASE Option(config, "operation", None) = Text("write") -> {value}
          [] Option(config, "operation", None) = Text("append") -> {List(<<value>>), List(<<None, value>>)}
          [] OTHER -> Answers

data_store(config, inputs) ==
    CASE Option(config, "operation", None) = Text("set") -> {evaluate(Option(config, "value", None), inputs)}
      [] Option(config, "operation", None) = Text("delete") -> {Fields({"deleted"}, None)}
      [] Option(config, "operation", None) \in {Text("list"), Text("query")} -> {EmptyDict, List(<<>>)}
      [] OTHER -> Answers

variable(config, inputs) == evaluate(Option(config, "value", None), inputs)

llm_call_data(config) ==                                                         \* mistake
    IF ~truthy(Option(config, "response_schema", None)) THEN {Reports(c, c) : c \in Completions}
    ELSE {Aborts} \cup {Reports(Fields({"data"}, None), c) : c \in Completions}
\* The completion as the client gave it; with a schema, the value checked against
\* it beside.  A response that does not match, or a schema that is none, raises.
llm_call(config) ==
    IF ~truthy(Option(config, "response_schema", None)) THEN {Reports(c, c) : c \in Completions}
    ELSE {Aborts} \cup {Reports(Dict(c.at @@ [data |-> None]), c) : c \in Completions}

embed_search == Fields({"query", "matches"}, None)
api_request == {Aborts} \cup {Reports(r, r) : r \in Responses}
webhook_out == Fields({"sent", "status", "response"}, None)
notify == Fields({"sent", "channel", "to", "message"}, None)
log == Fields({"logged", "level"}, None)

-----------------------------------------------------------------------------
(* The outcomes of a node.  A kind without an executor aborts. *)

execute(name, config, inputs, lane) ==
    CASE name = "manual_trigger" -> {Returns(manual_trigger(inputs))}
      [] name = "webhook_trigger" -> {Returns(webhook_trigger(inputs))}
      [] name = "schedule_trigger" -> {Returns(schedule_trigger(config, inputs))}
      [] name = "branch" -> {branch(config, inputs)}
      [] name = "switch_case" -> {switch_case(config, inputs)}
      [] name = "llm_router" -> llm_router(config, inputs)
      [] name = "human_approval" -> {Returns(human_approval(inputs))}
      [] name = "user_input" -> {Returns(user_input(inputs))}
      [] name = "for_each" -> for_each(config, inputs, lane)
      [] name = "subflow" -> SubflowOutcomes(config)
      [] name = "subgraph" -> subgraph(config, inputs)
      [] name = "merge" -> merge(config, inputs)
      [] name = "wait" -> {Returns(wait(config, inputs))}
      [] name = "transform" -> {Returns(transform(config, inputs))}
      [] name = "memory_store" -> MayRaise(memory_store(config, inputs))
      [] name = "data_store" -> MayRaise(data_store(config, inputs))
      [] name = "variable" -> {Returns(variable(config, inputs))}
      [] name = "llm_call" -> llm_call(config)
      [] name = "embed_search" -> MayRaise({embed_search})
      [] name = "api_request" -> api_request
      [] name = "webhook_out" -> MayRaise({webhook_out})
      [] name = "notify" -> MayRaise({notify})
      [] name = "output" -> {Returns(Incoming(inputs))}
      [] name = "log" -> {Returns(log)}
      [] name \in {"tool_use", "terminal_run", "terminal_send", "terminal_await"} ->
            MayRaise(Answers)
      [] OTHER -> {Aborts}
=============================================================================
