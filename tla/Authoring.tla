------------------------------- MODULE Authoring -------------------------------
(***************************************************************************)
(* The life of a small document: inspected, imported, run as often as the  *)
(* host likes on whatever inputs, saved and loaded again.  A node s of any *)
(* shipped kind feeds a merge t and perhaps an output u.                   *)
(*                                                                         *)
(* What is said of the document before it runs - by its kind's ports,      *)
(* relation and fields, by the wiring check, by the policy - and what is   *)
(* said of an edge after one run are answers of different files about what *)
(* the executors do; the properties hold them against every run.           *)
(***************************************************************************)
EXTENDS Documents

CONSTANTS
    Drawn,          \* the documents
    Policy,         \* the policy of a host that inspects
    Seeds,          \* the initial inputs of s
    MaxSaves        \* bound: how often the document is saved

VARIABLES
    doc,        \* the document as stored
    known,      \* whether the host registered the shipped kinds
    phase,      \* "stored", "loaded" or "refused"
    graph,      \* what import gave
    issues,     \* and its issues
    run,        \* the last run
    warned,     \* history: the edges a run of this graph reported as undelivered
    delivered,  \* history: the edges that delivered something in a run of it; both
                \* leave out runs whose s chose its ports by the look of its result
    saved       \* history: the graphs saved

vars == <<doc, known, phase, graph, issues, run, warned, delivered, saved>>

NoRun == [ran |-> FALSE]
Dead == [p \in {} |-> None]

NodesById(g) == [id \in IdsOf(g.nodes) |-> NodeOf(g, id)]
Into(g, id) == {e \in ToSet(g.edges) : e.target = id}

\* _for_each_lane, on a graph whose sinks have no edges out.
LaneOf(g, id) ==
    LET targets(port) == {e.target : e \in {d \in ToSet(g.edges) : d.source = id /\ PortOf(d) = port}}
    IN  IF targets("item") = {} THEN "unwired"
        ELSE IF targets("item") \subseteq targets("done") THEN "empty" ELSE "body"

\* A note or a lane is walked past.
WalkedPast(n) == n.kind \in {"note", "lane", "terminal_lane"}

-----------------------------------------------------------------------------
\* A strict host stops at an import that is not ok; one that only refuses what
\* was refused runs the rest.
Import(lenient, inspects, strict) ==
    LET result == import_workflow(doc, lenient, known)
    IN  /\ phase = "stored"
        /\ inspects => assert_safe(doc, Policy)
        /\ IF IF strict THEN ~result.ok ELSE IsRefused(result)
           THEN phase' = "refused" /\ UNCHANGED graph
           ELSE phase' = "loaded" /\ graph' = result.graph
        /\ issues' = result.issues
        /\ run' = NoRun /\ warned' = {} /\ delivered' = {}
        /\ UNCHANGED <<doc, known, saved>>

OutcomesOf(s, seed) ==
    IF WalkedPast(s) THEN {Returns(None)} ELSE execute(s.kind, s.config, seed, LaneOf(graph, "s"))

\* The walk over s, then t and u: an error ends it, a node runs when an edge into
\* it delivers, and the edges that cannot deliver are reported before that.
Run(seed, outcome) ==
    LET nodes == NodesById(graph)
        s == nodes["s"]
        published == [id \in IF WalkedPast(s) THEN {} ELSE {"s"} |->
                         ActivatedPorts(s, known, outcome.value)]
        sinks == DOMAIN nodes \ {"s"}
        live(id) == Delivering(Into(graph, id), published)
        inputs(id) == CollectInputs(Into(graph, id), published, [p \in {} |-> None])
        byLook == ~WalkedPast(s) /\ ChoosesByLook(s, outcome.value)
    IN  /\ IF ~outcome.ok
           THEN /\ run' = [ran |-> TRUE, ok |-> FALSE]
                /\ UNCHANGED <<warned, delivered>>
           ELSE LET reached == {id \in sinks : live(id) # {}}
                    unheard == UNION {Undelivered(nodes, known, Into(graph, id), published) : id \in sinks}
                IN  /\ run' = [ran |-> TRUE, ok |-> TRUE, seed |-> seed, given |-> outcome.given, byLook |-> byLook,
                               lit |-> IF WalkedPast(s) THEN Dead ELSE published["s"],
                               inputs |-> [id \in reached |-> inputs(id)],
                               merged |-> {o.value : o \in UNION {execute(nodes[id].kind, nodes[id].config, inputs(id), "unwired") :
                                              id \in reached \cap {"t"}}}]
                    /\ IF byLook THEN UNCHANGED <<warned, delivered>>
                       ELSE /\ warned' = warned \cup {e.id : e \in unheard}
                            /\ delivered' = delivered \cup {e.id : e \in UNION {live(id) : id \in sinks}}
        /\ UNCHANGED <<doc, known, phase, graph, issues, saved>>

Save ==
    /\ phase = "loaded"
    /\ Len(saved) < MaxSaves
    /\ doc' = export_workflow(graph)
    /\ saved' = Append(saved, graph)
    /\ phase' = "stored"
    /\ UNCHANGED <<known, graph, issues, run, warned, delivered>>

Init ==
    /\ doc \in Drawn
    /\ known \in BOOLEAN
    /\ phase = "stored"
    /\ graph = EmptyGraph
    /\ issues = {}
    /\ run = NoRun
    /\ warned = {} /\ delivered = {}
    /\ saved = <<>>

Next ==
    \/ \E lenient, inspects, strict \in BOOLEAN : Import(lenient, inspects, strict)
    \/ /\ phase = "loaded" /\ "s" \in IdsOf(graph.nodes)     \* a run of no nodes does nothing
       /\ \E seed \in Seeds : \E outcome \in OutcomesOf(NodeOf(graph, "s"), seed) : Run(seed, outcome)
    \/ Save

Spec == Init /\ [][Next]_vars
-----------------------------------------------------------------------------
(* Properties *)

Ran == run.ran /\ run.ok
Source == NodeOf(graph, "s")

\* The edges of a graph join nodes of it, and what is remembered of its runs is
\* about them.
TypeOK ==
    /\ phase \in {"stored", "loaded", "refused"}
    /\ \A e \in ToSet(graph.edges) : {e.source, e.target} \subseteq IdsOf(graph.nodes)
    /\ warned \subseteq {e.id : e \in ToSet(graph.edges)}
    /\ delivered \subseteq {e.id : e \in ToSet(graph.edges)}
    /\ Len(saved) <= MaxSaves

\* "A source that finished and cannot publish this port is a misconfiguration that
\* will never work on any run": an edge some run reported as undelivered delivers
\* in no other, whatever the inputs, the model or the store answer - but for runs
\* where what the node hands on looks like a choice of ports, which the words do not
\* except: such a run delivers where others cannot, and warns of edges that can.
WarnedEdgesNeverDeliver == known => warned \cap delivered = {}

\* An edge the wiring check refused delivers in no run of the graph that is
\* returned all the same: the validator never promises "the opposite of the
\* runtime", nor is a node's own word about its ports lost between them.  Here too
\* a result that looks like a choice of ports is the exception.
RefusedEdgesNeverDeliver ==
    \A i \in issues : i.what = "from a terminal" => i.about \notin delivered

\* Of two edges that leave a routing node by different ports one delivers, and by
\* a port the author was offered: a run takes exactly one branch.
OneBranchIsTaken ==
    Ran /\ known /\ Source.kind \in {"branch", "switch_case", "llm_router", "human_approval"} =>
        /\ Cardinality(DOMAIN run.lit) = 1
        /\ Source.outputs = Undeclared => DOMAIN run.lit \subseteq possible_ports(Source, known)

\* "The union of every input's fields": the fields of every mapping and, by its
\* port, every other input but None, each with a value some input has there.
IsUnionOf(value, inputs) ==
    /\ \A q \in DOMAIN inputs : inputs[q] # None =>
          IF IsDict(inputs[q]) THEN Keys(inputs[q]) \subseteq Keys(value) ELSE Has(value, q)
    /\ \A k \in Keys(value) : \E q \in DOMAIN inputs :
          \/ Has(inputs[q], k) /\ value.at[k] = inputs[q].at[k]
          \/ q = k /\ inputs[q] # None /\ value.at[k] = inputs[q]

\* What `emits` says of a kind is what its executor does, on every port it lights;
\* of a result that looks like a choice of ports the ports carry only a part.
DeclaredRelationHolds ==
    Ran /\ ~run.byLook => \A p \in DOMAIN run.lit :
        LET relation == emits_for(Source.kind, Source.config)
            value == run.lit[p]
        IN  /\ relation = "input" => value = Incoming(run.seed)
            /\ relation = "input-map-merged" => \A k \in DOMAIN run.seed : Has(value, k) /\ value.at[k] = run.seed[k]
            /\ relation = "inputs-merged" => IsUnionOf(value, run.seed)
            /\ relation = "expression:expression" => value = evaluate(Source.config["expression"], run.seed)
            /\ relation = "expression:value" =>
                  value = evaluate(Option(Source.config, "value", None), run.seed)

\* Every field `outputShape` promises arrives, except from a for_each nobody wired
\* ("a declaration describes the kind, not one graph's use of it"), from a form
\* nobody filled in and where a client left out a field of its own: what it did
\* give arrives, and so does the `data` that is this node's.
ClientFields ==
    CASE Source.kind = "llm_call" -> {"text", "usage", "raw"}
      [] Source.kind = "api_request" -> {"status", "headers", "body"}
      [] OTHER -> {}

DeclaredFieldsArrive ==
    Ran /\ Source.kind # "user_input" /\ ~run.byLook =>
        \A p \in DOMAIN run.lit : \A fields \in output_shape_for(Source.kind, Source.config) :
            \/ fields \ (ClientFields \ Keys(run.given)) \subseteq Keys(run.lit[p])
            \/ /\ Source.kind = "for_each"
               /\ LaneOf(graph, "s") = "unwired" \/ Option(Source.config, "mode", None) = Text("collect")

\* "An edge whose source port never produced a value is skipped, so it cannot
\* clobber a live value arriving on the same handle": a merge behind a branch
\* merges the side that ran.  Of two live values the last one stays.
LiveValueSurvives ==
    Ran => \A id \in DOMAIN run.inputs :
        LET live == Delivering(Into(graph, id), [s |-> run.lit])
        IN  \A e \in live : (\A d \in live : d.into = e.into => d.id <= e.id) =>
                LET key == IF e.into = "" THEN "in" ELSE e.into
                    carried == run.lit[PortOf(e)]
                IN  /\ key \in DOMAIN run.inputs[id] /\ run.inputs[id][key] = carried
                    /\ id = "t" /\ IsDict(carried) =>
                          \A v \in run.merged : \A k \in Keys(carried) : Has(v, k)

\* A graph that is saved and loaded again is the graph that was saved: its edges,
\* the lanes its nodes are in, and all three states of their ports.  Only an empty
\* config comes back as the config of a new node.
Reloaded(g) ==
    [g EXCEPT !.nodes = [i \in DOMAIN @ |->
        [@[i] EXCEPT !.config = IF @ = NoConfig /\ Known(g.nodes[i].kind, known) THEN default_config_for(g.nodes[i].kind) ELSE @]]]

ReloadKeepsTheGraph ==
    [][phase = "stored" /\ phase' = "loaded" /\ saved # <<>> => graph' = Reloaded(saved[Len(saved)])]_vars

\* A document the policy admitted is imported whole: no edge of it is dropped, no
\* id names two nodes, and a node is of the kind the policy looked at, unless the
\* import says it does not know it.  A flat document is the exception: the policy
\* reads it, the import finds no graph in it and says nothing.
AdmittedIsImportedWhole ==
    phase = "loaded" /\ assert_safe(doc, Policy) =>
        \/ doc.flat /\ graph = EmptyGraph
        \/ /\ graph.edges = doc.edges
           /\ Len(graph.nodes) = Len(doc.nodes) /\ Cardinality(IdsOf(graph.nodes)) = Len(graph.nodes)
           /\ \A i \in DOMAIN graph.nodes :
                 \/ graph.nodes[i].kind = KindSaid(doc.nodes[i])
                 \/ \E j \in issues : j.about = graph.nodes[i].id /\ j.what = "unknown kind"

\* What an import says is true: the graph is whole, an admitted document is all of it,
\* and what was called dead wiring is dead.
ImportIsTruthful == TypeOK /\ RefusedEdgesNeverDeliver /\ AdmittedIsImportedWhole

\* What a kind says of its output before it runs is true of every run.
DeclarationsHold == DeclaredRelationHolds /\ DeclaredFieldsArrive
=============================================================================
