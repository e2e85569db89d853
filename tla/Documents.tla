------------------------------- MODULE Documents -------------------------------
(***************************************************************************)
(* The stored form of a graph: its import, its export and the checks on    *)
(* the way (workflow.py, analysis/graph_connectivity.py,                   *)
(* security/policy.py).                                                    *)
(*                                                                         *)
(* A document is [version, flat, nodes, edges]; a flat one has its nodes   *)
(* and edges beside the version, with no `graph` around them.  A node is   *)
(* [id, kind, type, config, outputs, parent], its kind "" where it says    *)
(* only `type`; its config and outputs are sets of at most one, as is      *)
(* everything a document may leave out.  A node of a graph has a config    *)
(* and no `type`.  An issue is [level, about, what].                       *)
(***************************************************************************)
EXTENDS Ports

CONSTANTS
    SchemaVersion,      \* SCHEMA_VERSION
    Migrations          \* the versions _MIGRATIONS has a step from

Issue(level, about, what) == [level |-> level, about |-> about, what |-> what]

EmptyGraph == [nodes |-> <<>>, edges |-> <<>>]
IdsOf(nodes) == {n.id : n \in ToSet(nodes)}
NodeOf(graph, id) == CHOOSE n \in ToSet(graph.nodes) : n.id = id

Known(kind, known) == known /\ kind \in DOMAIN Kinds

\* migrate_schema: step by step, up to the first version with no step.  A later
\* version, or one that is not a number (-1), is left alone.
migrate_schema(version) ==
    IF version \notin 0..SchemaVersion - 1 THEN version
    ELSE CHOOSE v \in version..SchemaVersion :
            /\ v \in Migrations => v = SchemaVersion
            /\ version..v - 1 \subseteq Migrations

default_config_for(kind) == Kinds[kind].defaults

\* validate_config, its required keys
validate_config(kind, config) ==
    {key \in Kinds[kind].required : Option(config, key, Text("")) = Text("")}

-----------------------------------------------------------------------------
(* Connectivity *)

may_float(kind, known) ==
    \/ kind = "note"
    \/ ~Known(kind, known)
    \/ Kinds[kind].category \in {"annotation", "layout"}

TerminatorByKind(node, known) ==                                                 \* mistake
    Known(node.kind, known) /\ Kinds[node.kind].outputs = Nothing
\* _is_terminator: the node's word before its kind's.
Terminator(node, known) ==
    IF node.outputs # Undeclared THEN node.outputs = Nothing
    ELSE Known(node.kind, known) /\ Kinds[node.kind].outputs = Nothing

check_graph_connectivity(graph, known) ==
    {Issue("error", n.id, "floating") : n \in {m \in ToSet(graph.nodes) :
        /\ Len(graph.nodes) # 1
        /\ ~may_float(m.kind, known)
        /\ \A e \in ToSet(graph.edges) : m.id \notin {e.source, e.target}}}
    \cup
    {Issue("error", e.id, "from a terminal") : e \in {d \in ToSet(graph.edges) :
        d.source \in IdsOf(graph.nodes) /\ Terminator(NodeOf(graph, d.source), known)}}

-----------------------------------------------------------------------------
(* import_workflow *)

\* What a node is, is read from `kind` only.
ImportNode(raw, known) ==
    [id |-> raw.id, kind |-> raw.kind, outputs |-> raw.outputs, parent |-> raw.parent,
     config |-> IF raw.config # {} THEN CHOOSE c \in raw.config : TRUE
                ELSE IF Known(raw.kind, known) THEN default_config_for(raw.kind) ELSE NoConfig]

NodeIssues(node, lenient, known) ==
    IF ~Known(node.kind, known)
    THEN {Issue(IF lenient THEN "warning" ELSE "error", node.id, "unknown kind")}
    ELSE {Issue("warning", node.id, key) : key \in validate_config(node.kind, node.config)}

WholeByTarget(edge, ids) == edge.target \in ids                                   \* mistake
Whole(edge, ids) == edge.source \in ids /\ edge.target \in ids

Refused == [ok |-> FALSE, graph |-> EmptyGraph, issues |-> {Issue("error", "document", "version")}]

\* schema.get("graph") or {}
GraphOf(doc) == IF doc.flat THEN EmptyGraph ELSE [nodes |-> doc.nodes, edges |-> doc.edges]

\* A dangling edge is dropped with a warning, before the wiring is checked.
import_workflow(doc, lenient, known) ==
    LET given == GraphOf(doc)
        nodes == [i \in DOMAIN given.nodes |-> ImportNode(given.nodes[i], known)]
        ids == IdsOf(nodes)
        graph == [nodes |-> nodes, edges |-> SelectSeq(given.edges, LAMBDA e : Whole(e, ids))]
        issues == UNION {NodeIssues(n, lenient, known) : n \in ToSet(nodes)}
                  \cup {Issue("warning", e.id, "dangling") : e \in {d \in ToSet(given.edges) : ~Whole(d, ids)}}
                  \cup check_graph_connectivity(graph, known)
    IN  IF migrate_schema(doc.version) # SchemaVersion THEN Refused
        ELSE [ok |-> \A i \in issues : i.level # "error", graph |-> graph, issues |-> issues]

\* ImportResult.refused
IsRefused(result) == ~result.ok /\ result.graph = EmptyGraph

-----------------------------------------------------------------------------
(* export_workflow *)

ExportNodeTruthy(node) ==                                                        \* mistake
    [id |-> node.id, kind |-> node.kind, type |-> "", parent |-> node.parent,
     outputs |-> IF node.outputs = Nothing THEN Undeclared ELSE node.outputs,
     config |-> IF node.config = NoConfig THEN {} ELSE {node.config}]
\* An empty config is left out; the ports are written in all three states.
ExportNode(node) ==
    [id |-> node.id, kind |-> node.kind, type |-> "", outputs |-> node.outputs, parent |-> node.parent,
     config |-> IF node.config = NoConfig THEN {} ELSE {node.config}]

export_workflow(graph) ==
    [version |-> SchemaVersion, flat |-> FALSE,
     nodes |-> [i \in DOMAIN graph.nodes |-> ExportNode(graph.nodes[i])],
     edges |-> graph.edges]

-----------------------------------------------------------------------------
(* GraphPolicy: [max_nodes, max_edges, allowed, denied], allowed as a set of at   *)
(* most one set of kinds                                                          *)

\* The policy reads `kind or type`, and a flat document like any other.
KindSaid(raw) == IF raw.kind # "" THEN raw.kind ELSE raw.type

\* A kind is admitted or denied under any of its names.
NamesOf(kind) == {kind} \cup UNION {ToSet(Kinds[k].aliases) : k \in {kind} \cap DOMAIN Kinds}

KindAdmitted(kind, policy) ==
    /\ NamesOf(kind) \cap policy.denied = {}
    /\ \A allowed \in policy.allowed : NamesOf(kind) \cap allowed # {}

Repeated(nodes) ==
    {nodes[j].id : j \in {i \in DOMAIN nodes : \E k \in 1..i - 1 : nodes[k].id = nodes[i].id}}

InspectNodesOnly(doc, policy) == {}                                              \* mistake
\* inspect: every edge is held to the ids the nodes gave.
EdgeIssues(doc, policy) ==
    {Issue("error", e.id, "no such node") :
        e \in {d \in ToSet(doc.edges) : ~Whole(d, IdsOf(doc.nodes))}}

inspect(doc, policy) ==
    (IF Len(doc.nodes) > policy.max_nodes THEN {Issue("error", "document", "nodes")} ELSE {})
    \cup (IF Len(doc.edges) > policy.max_edges THEN {Issue("error", "document", "edges")} ELSE {})
    \cup {Issue("error", id, "duplicate") : id \in Repeated(doc.nodes)}
    \cup {Issue("error", n.id, "kind") :
            n \in {m \in ToSet(doc.nodes) : KindSaid(m) = "" \/ ~KindAdmitted(KindSaid(m), policy)}}
    \cup EdgeIssues(doc, policy)

assert_safe(doc, policy) == inspect(doc, policy) = {}
=============================================================================
