--------------------------------- MODULE Ports ---------------------------------
(***************************************************************************)
(* Which ports a node lights (FlowRunner._activated_ports), which it could *)
(* light (registry/port_resolution.py), what reaches the next node         *)
(* (_collect_inputs) and which of its edges are reported to deliver        *)
(* nothing (engine/diagnostics.py).  Three files answer for one edge.      *)
(*                                                                         *)
(* A node is [id, kind, config, outputs, parent]; its declared outputs are *)
(* a set as in Catalogue.  An edge is [id, source, handle, target, into];  *)
(* handle and into are "" where the edge names none.                       *)
(***************************************************************************)
EXTENDS Executors

DeclaredPorts(set) == CHOOSE ports \in set : TRUE

\* The ports a plain result goes to: the node's, else its kind's, else `out`.
PlainPorts(node, known) ==
    IF node.outputs # Undeclared THEN DeclaredPorts(node.outputs)
    ELSE IF known /\ Kinds[node.kind].outputs # Undeclared THEN DeclaredPorts(Kinds[node.kind].outputs)
    ELSE <<"out">>

\* _port_key: a port without a name is `out`.
PortKey(port) == IF port = "" THEN "out" ELSE port
On(ports, value) == [p \in {PortKey(q) : q \in ports} |-> value]

\* The results that say which ports they light.
Says(result, key) == Has(result, key) /\ IsText(result.at[key])
Subset(result) == IF Has(result, "__ports") THEN result.at["__ports"] ELSE None
Chooses(result) ==
    Says(result, "__port") \/ IsDict(Subset(result)) \/ IsList(Subset(result)) \/ Says(result, "branch")

\* The kinds whose executors choose (Port.only, Port.branch).
MeantToChoose(node) ==
    \/ node.kind \in {"branch", "switch_case", "llm_router", "human_approval", "for_each"}
    \/ node.kind = "subflow" /\ Option(node.config, "mode", None) # Text("both")

\* The result of any other kind chooses by its look.
ChoosesByLook(node, result) == Chooses(result) /\ ~MeantToChoose(node)

ActivatedAllOnBranch(node, known, result) == On(ToSet(PlainPorts(node, known)), result)   \* mistake
\* _activated_ports: the ports lit, each with its payload.  A result that looks
\* like a choice of ports is one.
ActivatedPorts(node, known, result) ==
    LET value == IF Has(result, "value") THEN result.at["value"] ELSE None
        subset == Subset(result)
    IN  IF Says(result, "__port") THEN On({result.at["__port"].text}, value)
        ELSE IF IsDict(subset) THEN subset.at
        ELSE IF IsList(subset) THEN On({p.text : p \in {q \in ToSet(subset.at) : IsText(q)}}, value)
        ELSE IF Says(result, "branch")
             THEN On({result.at["branch"].text}, IF Has(result, "value") THEN value ELSE result)
        ELSE On(ToSet(PlainPorts(node, known)), result)

-----------------------------------------------------------------------------
(* possible_ports *)

SwitchCasePortsNoDefault(config) ==                                              \* mistake
    LET cases == Option(config, "cases", None)
    IN  {cases.at[v].text : v \in {w \in Keys(cases) : IsText(cases.at[w]) /\ cases.at[w] # Text("")}}

SwitchCasePorts(config) ==
    LET cases == Option(config, "cases", None)
        named == {cases.at[v].text : v \in {w \in Keys(cases) : IsText(cases.at[w]) /\ cases.at[w] # Text("")}}
    IN  IF named = {} THEN {} ELSE named \cup {"default"}

LlmRouterPorts(config) ==
    LET named == {r.text : r \in ToSet(declared_routes(config))}
    IN  IF named = {} THEN {} ELSE named \cup (IF FallbackOn(config) THEN {"fallback"} ELSE {})

SubflowPorts(config, declared) ==
    IF Option(config, "mode", None) \in {Text("stream"), Text("both")} THEN declared \cup {"stream"} ELSE {}

ConfigDerived(name, config, declared) ==
    CASE name = "switch_case" -> SwitchCasePorts(config)
      [] name = "llm_router" -> LlmRouterPorts(config)
      [] name = "subflow" -> SubflowPorts(config, declared)
      [] OTHER -> {}

\* A kind that declares no outputs is read as one with none - not as `out`.
possible_ports(node, known) ==
    IF node.outputs # Undeclared THEN ToSet(DeclaredPorts(node.outputs))
    ELSE IF ~known THEN {"out"}
    ELSE LET declared == UNION {ToSet(ports) : ports \in Kinds[node.kind].outputs}
             derived == ConfigDerived(node.kind, node.config, declared)
         IN  IF derived # {} THEN derived ELSE declared

-----------------------------------------------------------------------------
(* Edges *)

PortOf(edge) == PortKey(edge.handle)

\* The edges that carry something, given what every node published.
Delivering(edges, published) ==
    {e \in edges : e.source \in DOMAIN published /\ PortOf(e) \in DOMAIN published[e.source]}

PayloadOf(edge, published) == published[edge.source][PortOf(edge)]

CollectAll(incoming, published, seed) ==                                         \* mistake
    LET value(e) == IF e \in Delivering(incoming, published) THEN PayloadOf(e, published) ELSE None
        key(e) == IF e.into = "" THEN "in" ELSE e.into
    IN  [k \in {key(e) : e \in incoming} |->
            value(CHOOSE e \in incoming : key(e) = k /\ \A d \in incoming : key(d) = k => d.id <= e.id)] @@ seed
\* _collect_inputs: the last live edge of a key, in edge order (the ids), then the
\* seed; an edge that names no handle is also known by its source.
CollectInputs(incoming, published, seed) ==
    LET live == Delivering(incoming, published)
        key(e) == IF e.into = "" THEN "in" ELSE e.into
        last(k) == CHOOSE e \in live : key(e) = k /\ \A d \in live : key(d) = k => d.id <= e.id
        first(s) == CHOOSE e \in live : e.into = "" /\ e.source = s
                                        /\ \A d \in live : d.into = "" /\ d.source = s => e.id <= d.id
    IN  [k \in {key(e) : e \in live} |-> PayloadOf(last(k), published)]
            @@ seed
            @@ [s \in {e.source : e \in {d \in live : d.into = ""}} |-> PayloadOf(first(s), published)]

\* undelivered_edge_warnings, of the edges into one node.
Undelivered(nodes, known, incoming, published) ==
    {e \in incoming : /\ e.source \in DOMAIN published
                      /\ e \notin Delivering(incoming, published)
                      /\ PortOf(e) \notin possible_ports(nodes[e.source], known)}
=============================================================================
