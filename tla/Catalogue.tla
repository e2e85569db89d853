------------------------------- MODULE Catalogue -------------------------------
(***************************************************************************)
(* The kinds the package ships (registry/builtin.py), by bare name: what   *)
(* each promises about the node before it runs.  `inputs` and `outputs`    *)
(* are the declared ports and `shape` the fields of the output, each as a  *)
(* set that is empty when nobody declared them - which is not the same as  *)
(* declaring none.  `emits` relates the output to the input, `defaults` is *)
(* the config of a new node where it decides a route, and `required` the   *)
(* keys of the others that must be there.                                  *)
(***************************************************************************)
EXTENDS Values

Undeclared == {}
Declared(ports) == {ports}
Nothing == Declared(<<>>)

NoConfig == [k \in {} |-> None]

Of(category) ==
    [category |-> category, aliases |-> <<>>, inputs |-> Undeclared, outputs |-> Undeclared,
     emits |-> "undeclared", shape |-> Undeclared, defaults |-> NoConfig, required |-> {},
     pauses |-> "no"]

Wired(category, outputs) ==
    [Of(category) EXCEPT !.inputs = Declared(<<"in">>), !.outputs = Declared(outputs)]

-----------------------------------------------------------------------------
LayoutKinds == [lane |-> [Of("layout") EXCEPT !.inputs = Nothing, !.outputs = Nothing]]

TerminalLane == [terminal_lane |-> [Of("layout") EXCEPT !.inputs = Nothing, !.outputs = Nothing]]

TerminalKinds ==
    [terminal_run   |-> [Wired("io", <<"out">>) EXCEPT !.required = {"command"}],
     terminal_send  |-> Wired("io", <<"out">>),
     terminal_await |-> [Wired("io", <<"out">>) EXCEPT !.required = {"pattern"}]]

TriggerKinds ==
    LET trigger == [Of("trigger") EXCEPT !.inputs = Nothing, !.outputs = Declared(<<"out">>)]
    IN  [manual_trigger   |-> [trigger EXCEPT !.emits = "input-map-merged"],
         webhook_trigger  |-> [trigger EXCEPT !.required = {"path"}],
         schedule_trigger |-> [trigger EXCEPT !.emits = "input-map-merged",
                                              !.shape = {{"cron", "timezone"}},
                                              !.required = {"cron"}]]

\* Its fields are those of the form, read from the config.
FormKind ==
    [user_input |-> [Wired("human", <<"out">>) EXCEPT
        !.pauses = "input",
        !.defaults = [fields |-> List(<<Text("answer")>>)]]]

RouteKinds ==
    [branch      |-> [Wired("logic", <<"true", "false">>) EXCEPT
                        !.emits = "input", !.required = {"condition"}],
     switch_case |-> [Wired("logic", <<"case_a", "case_b", "default">>) EXCEPT
                        !.emits = "input", !.required = {"value"},
                        !.defaults = [cases |-> Dict([a |-> Text("case_a"), b |-> Text("case_b")])]]]

LoopKind ==
    [for_each |-> [Wired("logic", <<"item", "done">>) EXCEPT
        !.shape = {{"items", "results", "failures", "count"}}, !.required = {"source"}]]

SubflowKind ==
    [subflow |-> [Wired("logic", <<"out">>) EXCEPT
        !.required = {"workflow"}, !.defaults = [mode |-> Text("output")]]]

\* The relation of merge and transform follows from the config.
ShapingKinds ==
    [merge     |-> [Of("logic") EXCEPT !.inputs = Declared(<<"a", "b">>), !.outputs = Declared(<<"out">>),
                                       !.emits = "by config", !.defaults = [mode |-> Text("merge")]],
     wait      |-> [Of("logic") EXCEPT !.shape = {{"waited", "duration", "input"}}],
     transform |-> [Of("logic") EXCEPT !.emits = "by config",
                                       !.defaults = [mode |-> Text("fields"), fields |-> List(<<>>)]]]

DataKinds ==
    [memory_store |-> [Of("data") EXCEPT !.required = {"key"}],
     data_store   |-> [Of("data") EXCEPT !.required = {"table"}],
     variable     |-> [Of("data") EXCEPT !.emits = "expression:value", !.required = {"name", "value"}]]

\* With a response_schema there is `data` too.
CallKind ==
    [llm_call |-> [Of("ai") EXCEPT !.shape = {{"text", "usage", "raw"}}, !.required = {"model", "prompt"}]]

ModelRouteKind ==
    [llm_router |-> [Wired("ai", <<"a", "b", "fallback">>) EXCEPT
        !.aliases = <<"llm_branch">>, !.shape = {{"route", "reason", "input"}},
        !.required = {"prompt"}, !.defaults = [routes |-> List(<<Text("a"), Text("b")>>)]]]

ToolKinds ==
    [tool_use     |-> [Of("ai") EXCEPT !.required = {"tool"}],
     embed_search |-> [Of("ai") EXCEPT !.shape = {{"query", "matches"}}, !.required = {"query"}]]

HttpKinds ==
    [api_request |-> [Of("io") EXCEPT !.shape = {{"status", "headers", "body"}}, !.required = {"url"}],
     webhook_out |-> [Of("io") EXCEPT !.shape = {{"sent", "status", "response"}},
                                      !.required = {"url", "payload"}]]

PersonKinds ==
    [human_approval |-> [Wired("human", <<"approved", "denied">>) EXCEPT
                            !.emits = "input", !.pauses = "approval"],
     notify         |-> [Of("human") EXCEPT !.shape = {{"sent", "channel", "to", "message"}},
                                            !.required = {"to", "message"}]]

SinkKinds ==
    [output |-> [Wired("output", <<>>) EXCEPT !.emits = "input"],
     log    |-> [Wired("output", <<>>) EXCEPT !.shape = {{"logged", "level"}}, !.required = {"message"}]]

\* structural_kinds: opt-in.
StructuralKinds ==
    [note     |-> [Of("custom") EXCEPT !.inputs = Nothing, !.outputs = Nothing],
     subgraph |-> Wired("custom", <<"out">>)]

\* agent_kind: opt-in, and no executor.
AgentKind == [agent |-> [Of("ai") EXCEPT !.required = {"model", "prompt"}]]

Kinds ==
    LayoutKinds @@ TerminalLane @@ TerminalKinds @@ TriggerKinds @@ FormKind @@ RouteKinds
        @@ LoopKind @@ SubflowKind @@ ShapingKinds @@ DataKinds @@ CallKind @@ ModelRouteKind
        @@ ToolKinds @@ HttpKinds @@ PersonKinds @@ SinkKinds @@ StructuralKinds @@ AgentKind

-----------------------------------------------------------------------------
(* What a kind says of a node with this config *)

\* The rows of fields mode that have a key.
TransformRows(config) ==
    LET rows == Option(config, "fields", None)
    IN  IF IsList(rows)
        THEN SelectSeq(rows.at, LAMBDA row : Has(row, "key") /\ row.at["key"] \notin {Text(""), Text(" ")})
        ELSE <<>>

\* transform_path, read by the executor and by the kind.
transform_path(config) ==
    LET mode == Option(config, "mode", None)
        expression == Option(config, "expression", None)
    IN  IF mode \in {None, Text("expression")}
            /\ IsString(expression) /\ expression \notin {Text(""), Text(" ")} THEN "expression"
        ELSE IF mode = Text("expression") \/ TransformRows(config) = <<>> THEN "input"
        ELSE "fields"

emits_for(name, config) ==
    CASE name = "merge" ->
            IF Option(config, "mode", Text("merge")) = Text("concat") THEN "undeclared" ELSE "inputs-merged"
      [] name = "transform" ->
            [expression |-> "expression:expression", fields |-> "undeclared", input |-> "input"]
                [transform_path(config)]
      [] OTHER -> Kinds[name].emits

\* output_shape_for: the fields, where they are declared.
output_shape_for(name, config) ==
    CASE name = "user_input" ->
            LET fields == Option(config, "fields", None)
            IN  {IF IsList(fields) THEN {f.text : f \in ToSet(fields.at)} ELSE {}}
      [] name = "llm_call" /\ truthy(Option(config, "response_schema", None)) ->
            {{"text", "data", "usage", "raw"}}
      [] OTHER -> Kinds[name].shape
=============================================================================
