------------------------------ MODULE MCAuthoring ------------------------------
(***************************************************************************)
(* One draft of every shipped kind, and more of those whose ports, output  *)
(* or relation follow from the config.                                     *)
(***************************************************************************)
EXTENDS Authoring

Draft(kind, config) ==
    [id |-> "s", kind |-> kind, type |-> "", config |-> {config}, outputs |-> Undeclared, parent |-> "lane1"]
Unconfigured(kind) == [Draft(kind, NoConfig) EXCEPT !.config = {}]

Row(key, value) == Dict([key |-> Text(key), value |-> value])
Flag == Path(<<"$json", "flag">>)

RouteDrafts ==
    {Draft("branch", [condition |-> t]) : t \in {Flag, Text("flag"), Unclosed, Mixed(<<"flag">>)}}
    \cup {Draft("switch_case", [value |-> Flag] @@ c) :
            c \in {NoConfig, [cases |-> Dict([yes |-> Text("left"), no |-> None])]}}
    \cup {Draft("llm_router", [routes |-> List(<<Text("left"), Text("right"), Text("")>>)] @@ c) :
            c \in {NoConfig, [fallback |-> Text("false")]}}
    \cup {Unconfigured("switch_case"), Unconfigured("llm_router"), Draft("llm_router", NoConfig)}

ShapedDrafts ==
    {Draft("transform", c) : c \in
        {[mode |-> Text("fields"), fields |-> List(<<Row("name", Flag), Row("", Flag), Row("name", Text("x"))>>)],
         [mode |-> Text("expression")], [expression |-> Flag]}}
    \cup {Draft("merge", [mode |-> Text(m)]) : m \in {"merge", "concat"}}
    \cup {Draft("subflow", [workflow |-> Text("child"), mode |-> Text(m)]) : m \in {"output", "stream", "both"}}
    \cup {Draft("for_each", [source |-> Flag] @@ c) : c \in {NoConfig, [mode |-> Text("collect")]}}
    \cup {Draft("llm_call", [response_schema |-> Fields({"type"}, None)]), Draft("llm_call", NoConfig)}
    \cup {Draft("subgraph", [graph |-> EmptyDict])}
    \cup {Draft("memory_store", [operation |-> Text(o), value |-> Flag]) : o \in {"write", "append", "read"}}
    \cup {Draft("data_store", [operation |-> Text(o), value |-> Flag]) : o \in {"set", "delete", "list", "get"}}

\* Ports a document declares for itself.
DeclaringDrafts ==
    {[Draft(k, NoConfig) EXCEPT !.outputs = o] : k \in {"transform", "output"}, o \in {Nothing, Declared(<<"left", "out">>)}}

PlainDrafts == {Unconfigured(k) : k \in DOMAIN Kinds \ {"switch_case", "llm_router", "branch"}}

Drafts == RouteDrafts \cup ShapedDrafts \cup DeclaringDrafts \cup PlainDrafts

\* No handle, and a port only a switch_case has.
HandlesOf(draft) ==
    LET node == ImportNode(draft, TRUE) IN possible_ports(node, TRUE) \cup {"", "default"}

T == [id |-> "t", kind |-> "merge", type |-> "", config |-> {[mode |-> Text("merge")]}, outputs |-> Undeclared, parent |-> ""]
U == [T EXCEPT !.id = "u", !.kind = "output", !.config = {}]

Edge(id, source, handle, target, into) ==
    [id |-> id, source |-> source, handle |-> handle, target |-> target, into |-> into]

Document(nodes, edges) == [version |-> SchemaVersion, flat |-> FALSE, nodes |-> nodes, edges |-> edges]

\* Both edges meet again on one handle of t, or part.
Meeting(d, g, h) == Document(<<d, T>>, <<Edge(1, "s", g, "t", "a"), Edge(2, "s", h, "t", "a")>>)
Parting(d, g, h) == Document(<<d, T, U>>, <<Edge(1, "s", g, "t", ""), Edge(2, "s", h, "u", "")>>)

Sound == UNION {{Meeting(d, g, h), Parting(d, g, h)} : <<d, g, h>> \in
             UNION {{d} \X HandlesOf(d) \X HandlesOf(d) : d \in Drafts}}

Broken ==
    LET d == Draft("manual_trigger", NoConfig)
        sound == Meeting(d, "", "")
        untyped == [d EXCEPT !.kind = "", !.type = "manual_trigger"]
    IN  {[sound EXCEPT !.flat = TRUE], [sound EXCEPT !.nodes[1] = untyped],
         [sound EXCEPT !.version = 0], [sound EXCEPT !.version = 2], [sound EXCEPT !.version = -1],
         [sound EXCEPT !.nodes = Append(@, U)], [sound EXCEPT !.nodes = Append(@, d)],
         [sound EXCEPT !.edges[2] = Edge(2, "s", "", "ghost", "")],
         [sound EXCEPT !.edges = Append(@, Edge(3, "ghost", "", "t", ""))]}

SmallDocuments == Sound \cup Broken

HostPolicy == [max_nodes |-> 3, max_edges |-> 2, allowed |-> {}, denied |-> {"subgraph", "llm_branch"}]

Yes == [flag |-> Text("yes"), approved |-> Text("no")]
\* Payloads that look like a choice of ports.
LookAlikes ==
    {[branch |-> Text("default")],
     ("__port" :> Text("left")) @@ ("value" :> Text("x")),
     ("__ports" :> List(<<Text("out"), None, Text("default")>>)) @@ ("value" :> Text("y")),
     "__ports" :> Dict([out |-> Text("x"), default |-> Dict(Yes)])}

SmallSeeds ==
    LookAlikes \cup
    {[p \in {} |-> None], Yes, [in |-> Dict(Yes), values |-> Fields({"answer"}, Text("x"))],
     [in |-> None], [payload |-> Dict([flag |-> Text("off")]), approved |-> Text("yes")]}

SmallAnswers == {None, Fields({"row"}, Text("x")), Fields({"branch"}, Text("default"))}
SmallCompletions == {Fields({"text", "usage", "raw"}, Text("x")), Fields({"text", "data"}, Text("x")),
                     Fields({"text", "branch"}, Text("default"))}
SmallResponses == {Fields({"status", "headers", "body"}, Text("x")), Fields({"status"}, Text("x"))}
SmallNestedOutputs == {EmptyDict, Fields({"node"}, None), Fields({"branch"}, Text("stream"))}
=============================================================================
