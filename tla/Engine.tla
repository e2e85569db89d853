------------------------------- MODULE Engine -------------------------------
(***************************************************************************)
(* One call of FlowRunner (engine/runner.py): _topo_sort, then the walk    *)
(* over the sorted nodes.  The call is a single-process run of the whole   *)
(* graph, or the fenced replay by which a durable worker runs one node     *)
(* (durable/replay.py).                                                    *)
(*                                                                         *)
(* A call is a record:                                                     *)
(*   graph     the graph                                                   *)
(*   edges     its edges as the list the engine iterates over              *)
(*   lights    lights[n]: the ports n's executor lights                    *)
(*   store     the checkpoints; the completed rows are resume_outputs      *)
(*   target    the node a replay runs, NoNode in a run of the whole graph  *)
(*   entries   the nodes without incoming edges the run starts from        *)
(*   raising   the nodes whose executor may raise                          *)
(* Inputs, outputs and events are left out: the ports lit decide routing.  *)
(***************************************************************************)
EXTENDS Frontier, Sequences

CONSTANTS
    Calls,      \* the calls tried
    NoNode,
    FencePort   \* the port a fenced node publishes on; no edge reads it

\* The set of edges is that of the list, and no two nodes have one id.  A replay is of
\* an imported graph; it runs a node that has not completed and fences the others on
\* a port no edge reads.
ASSUME CallsAssumption ==
    \A c \in Calls :
        /\ c.edges \in Seq(c.graph.edges)
        /\ c.graph.edges = {c.edges[i] : i \in DOMAIN c.edges}
        /\ c.graph.order \in Seq(NodesOf(c.graph))
        /\ \A i, j \in DOMAIN c.graph.order : c.graph.order[i] = c.graph.order[j] => i = j
        /\ c.target # NoNode =>
              /\ WellFormed(c.graph)
              /\ c.target \in NodesOf(c.graph)
              /\ c.store[c.target].status # "completed"
              /\ FencePort \notin PortsOf(c.graph)

VARIABLES
    call,       \* the arguments, never changed
    phase,
    degree,     \* _topo_sort: in_degree, by node id or edge end
    queue,      \* _topo_sort: the nodes with no unordered source
    ordered,    \* _topo_sort: its result
    pos,        \* the walk: the index of the next node of the order
    status,     \* the walk: what became of each node
    lit,        \* the walk: port_values, by node
    executed    \* the nodes whose own executor was called

vars == <<call, phase, degree, queue, ordered, pos, status, lit, executed>>

Graph == call.graph
Nodes == NodesOf(Graph)
Edges == call.edges

\* The keys of in_degree: an edge may end at an id no node has.
Keys == Nodes \cup {Edges[i].target : i \in DOMAIN Edges}

\* The elements of s at the indices in I, in order: a list comprehension over s.
\* (SelectSeq would say it too, but takes an operator no prover can reason about.)
ElementsAt(s, I) ==
    [k \in 1 .. Cardinality(I) |-> s[CHOOSE i \in I : Cardinality({j \in I : j < i}) = k - 1]]

-----------------------------------------------------------------------------
(* _topo_sort: Kahn's algorithm *)

EdgesTo(k) == Cardinality({i \in DOMAIN Edges : Edges[i].target = k})

\* How many of the first i edges of the list go from n to k.
AnyEdgeBetween(n, k, i) ==      \* mistake: parallel edges counted once
    IF \E j \in 1..i : Edges[j].source = n /\ Edges[j].target = k THEN 1 ELSE 0

EdgesBetween(n, k, i) ==
    Cardinality({j \in 1..i : Edges[j].source = n /\ Edges[j].target = k})

\* The edges whose visit brings their target to degree zero, in list order.
Releasing(n) ==
    {i \in DOMAIN Edges : /\ Edges[i].source = n
                          /\ degree[Edges[i].target] = EdgesBetween(n, Edges[i].target, i)}

PopNode ==
    /\ phase = "sorting"
    /\ queue # <<>>
    /\ LET n == Head(queue)
           released == ElementsAt(Edges, Releasing(n))
       IN  /\ ordered' = Append(ordered, n)
           /\ degree' = [k \in Keys |-> degree[k] - EdgesBetween(n, k, Len(Edges))]
           /\ queue' = Tail(queue) \o [r \in DOMAIN released |-> released[r].target]
    /\ UNCHANGED <<call, phase, pos, status, lit, executed>>

\* The sort succeeds when it ordered as many ids as the graph has nodes.
SortedSome == ordered # <<>>    \* mistake: a cycle is not noticed
Sorted == Len(ordered) = Len(Graph.order)

FinishSort ==
    /\ phase = "sorting"
    /\ queue = <<>>
    /\ phase' = IF Sorted THEN "walking" ELSE "cycle"
    /\ UNCHANGED <<call, degree, queue, ordered, pos, status, lit, executed>>

-----------------------------------------------------------------------------
(* _walk *)

\* The order as nodes: an id that is no node's is dropped.
OrderAsDeclared == Graph.order  \* mistake: the sort is not used
Order == ElementsAt(ordered, {i \in DOMAIN ordered : ordered[i] \in Nodes})

Here == Order[pos]

AtNode == phase = "walking" /\ pos <= Len(Order)

Resumed(n) == call.store[n].status = "completed"

InactiveEntry(n) ==
    call.target = NoNode /\ Incoming(Graph, n) = {} /\ n \notin call.entries

\* An id that is no node's published on nothing.
LitBy(e) == e.source \in Nodes /\ e.handle \in lit[e.source]

AllActive(n) == \A e \in Incoming(Graph, n) : LitBy(e)    \* mistake
AnyActive(n) == \E e \in Incoming(Graph, n) : LitBy(e)

WalksPast(n) ==
    \/ InactiveEntry(n)
    \/ Incoming(Graph, n) # {} /\ ~AnyActive(n)
    \/ n \in Graph.layout

FencedDownstream(n) == n \in ReachedFrom(Graph, call.target)    \* mistake
Fenced(n) == call.target # NoNode /\ n # call.target

Publish(n, ports) ==
    /\ status' = [status EXCEPT ![n] = "completed"]
    /\ lit' = [lit EXCEPT ![n] = ports]
    /\ pos' = pos + 1
    /\ UNCHANGED <<call, phase, degree, queue, ordered>>

Resume ==
    /\ AtNode
    /\ Resumed(Here)
    /\ Publish(Here, call.store[Here].ports)
    /\ UNCHANGED executed

WalkPast ==
    /\ AtNode
    /\ ~Resumed(Here)
    /\ WalksPast(Here)
    /\ status' = [status EXCEPT ![Here] = "skipped"]
    /\ pos' = pos + 1
    /\ UNCHANGED <<call, phase, degree, queue, ordered, lit, executed>>

PassFence ==
    /\ AtNode
    /\ ~Resumed(Here) /\ ~WalksPast(Here)
    /\ Fenced(Here)
    /\ Publish(Here, {FencePort})
    /\ UNCHANGED executed

Execute ==
    /\ AtNode
    /\ ~Resumed(Here) /\ ~WalksPast(Here)
    /\ ~Fenced(Here)
    /\ Publish(Here, call.lights[Here])
    /\ executed' = executed \cup {Here}

\* The executor raised or aborted: the error ends the walk.
Raise ==
    /\ AtNode
    /\ ~Resumed(Here) /\ ~WalksPast(Here)
    /\ ~Fenced(Here)
    /\ Here \in call.raising
    /\ status' = [status EXCEPT ![Here] = "failed"]
    /\ executed' = executed \cup {Here}
    /\ phase' = "failed"
    /\ UNCHANGED <<call, degree, queue, ordered, pos, lit>>

\* Between nodes: the host cancelled, or the time was up.
Stop ==
    /\ AtNode
    /\ call.target = NoNode
    /\ phase' \in {"aborted", "failed"}
    /\ UNCHANGED <<call, degree, queue, ordered, pos, status, lit, executed>>

Finish ==
    /\ phase = "walking"
    /\ pos > Len(Order)
    /\ phase' = "ok"
    /\ UNCHANGED <<call, degree, queue, ordered, pos, status, lit, executed>>

-----------------------------------------------------------------------------
Init ==
    /\ call \in Calls
    /\ phase = "sorting"
    /\ degree = [k \in Keys |-> EdgesTo(k)]
    /\ queue = ElementsAt(Graph.order, {i \in DOMAIN Graph.order : EdgesTo(Graph.order[i]) = 0})
    /\ ordered = <<>>
    /\ pos = 1
    /\ status = [n \in Nodes |-> "idle"]
    /\ lit = [n \in Nodes |-> {}]
    /\ executed = {}

Next ==
    \/ PopNode \/ FinishSort
    \/ Resume \/ WalkPast \/ PassFence \/ Execute \/ Raise
    \/ Stop \/ Finish

Spec == Init /\ [][Next]_vars
-----------------------------------------------------------------------------
(* Properties *)

\* Between visits the sort's degrees count the edges from nodes not yet
\* ordered, parallel edges each once, and nothing is queued or ordered twice.
DegreesCountUnorderedSources ==
    LET done == {ordered[i] : i \in DOMAIN ordered}
        seen == ordered \o queue
    IN  /\ \A k \in Keys :
              degree[k] = Cardinality({i \in DOMAIN Edges :
                              Edges[i].target = k /\ Edges[i].source \notin done})
        /\ \A i, j \in DOMAIN seen : seen[i] = seen[j] => i = j

\* The ids that nothing keeps from being ordered: in the least set that holds an id
\* once it holds what every edge to it comes from.  No cycle leads to them, and no id
\* that is neither a node's nor the end of an edge.
Orderable ==
    {k \in Keys :
        \A X \in SUBSET Keys :
            (\A m \in Keys : (\A i \in DOMAIN Edges : Edges[i].target = m => Edges[i].source \in X)
                                  => m \in X)
                => k \in X}

\* Whatever the edges name, the sort returns the nodes among these ids, each after all
\* its sources.  _topo_sort promises None "when a cycle is present", but compares
\* counts, and ids that are no node's count: it fails exactly when there are not as
\* many such ids as nodes.  A dangling edge may so pass for a cycle, or make up for
\* one; only where every edge joins nodes does failing mean a cycle.
SortsTopologically ==
    phase # "sorting" =>
        /\ (phase = "cycle") = (Cardinality(Orderable) # Len(Graph.order))
        /\ phase # "cycle" =>
              /\ {Order[i] : i \in DOMAIN Order} = Orderable \cap Nodes
              /\ \A i, j \in DOMAIN Order :
                    Order[i] \in Sources(Graph, Order[j]) => i < j
        /\ WellFormed(Graph) =>
              /\ (phase = "cycle") = ~Acyclic(Graph)
              /\ phase # "cycle" => {Order[i] : i \in DOMAIN Order} = Nodes

\* The sort is right at every step and at its end, dangling edges and cycles included.
SortIsSound == DegreesCountUnorderedSources /\ SortsTopologically

\* "In topological order every upstream node is already settled, so each
\* incoming edge is active or dead -- never pending."
SourcesSettledFirst ==
    AtNode => \A s \in Sources(Graph, Here) : status[s] # "idle"

\* What a node publishes on: the stored ports if it is resumed.
Published == [n \in Nodes |-> IF Resumed(n) THEN call.store[n].ports ELSE call.lights[n]]

\* A run of the whole graph that ends without error has run exactly the nodes
\* its entries and the lit ports lead to, but for those a prior run completed,
\* provided the prior run took the same way to them.
RunsWhatIsReached ==
    LET reached == RunsIn(Graph, Published, call.entries)
        prior == {n \in Nodes : Resumed(n)}
    IN  (phase = "ok" /\ call.target = NoNode /\ prior \subseteq reached)
            => executed = reached \ prior

\* Of a graph that was imported, what the walk decides on is settled, and so it
\* runs what is reached.
WalkIsSound == WellFormed(Graph) => SourcesSettledFirst /\ RunsWhatIsReached

\* A replay runs its target and nothing else, and it runs it exactly when the
\* frontier's rule says so: the engine and the frontier agree on every branch,
\* whatever checkpoints the store holds beside the target.
ReplayAgreesWithFrontier ==
    call.target # NoNode =>
        /\ executed \subseteq {call.target}
        /\ phase \in {"ok", "failed"} =>
              (executed = {call.target}) = ~WalkedPast(Graph, call.store, call.target)

=============================================================================
