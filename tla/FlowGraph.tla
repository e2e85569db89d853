------------------------------ MODULE FlowGraph ------------------------------
(***************************************************************************)
(* A flow graph as the durable driver reads it (schema/graph.py).          *)
(*                                                                         *)
(* A graph is a record:                                                    *)
(*   order   the node ids, a sequence in the graph's declaration order     *)
(*   edges   a set of records [source, handle, target]                     *)
(*   notes   the nodes whose kind is `note`                                *)
(*   layout  the nodes the engine never executes: notes, lanes and kinds   *)
(*           of category "layout"                                          *)
(*                                                                         *)
(* `handle` is the port the edge reads on its source; an edge without a    *)
(* source handle is an edge on the port "out".  Target handles, labels,    *)
(* positions and node configuration decide no routing and are left out.    *)
(* Parallel edges between the same ports are one edge of the set: readers  *)
(* of the list ask only whether some edge, or every source, has a property.*)
(***************************************************************************)
EXTENDS Naturals, Sequences

NodesOf(g) == {g.order[i] : i \in DOMAIN g.order}

PortsOf(g) == {e.handle : e \in g.edges}

\* incoming.get(node_id): the edges that end at n.
Incoming(g, n) == {e \in g.edges : e.target = n}

Sources(g, n) == {e.source : e \in Incoming(g, n)}

\* n comes before m in the order the document lists its nodes.
DeclaredBefore(g, n, m) ==
    \E i, j \in DOMAIN g.order : i < j /\ g.order[i] = n /\ g.order[j] = m

\* A document import_workflow read and GraphPolicy let pass: an edge whose end
\* is no node of the graph has been dropped, and no node id occurs twice.
WellFormed(g) ==
    /\ g.order \in Seq(NodesOf(g))
    /\ \A i, j \in DOMAIN g.order : g.order[i] = g.order[j] => i = j
    /\ \A e \in g.edges : {e.source, e.target} \subseteq NodesOf(g)
    /\ g.notes \subseteq g.layout
    /\ g.layout \subseteq NodesOf(g)

\* Every edge goes from a node to one declared after it.  An editor that
\* appends nodes as they are drawn does not guarantee this.
DeclaredTopologically(g) ==
    \A e \in g.edges : DeclaredBefore(g, e.source, e.target)

(***************************************************************************)
(* A path follows edges forward; a graph is acyclic when no node has a     *)
(* path to itself.  Upward closed sets avoid a recursive definition: the   *)
(* nodes reachable from n are those in every set that holds n's successors *)
(* and is closed under edges.                                              *)
(***************************************************************************)
ReachedFrom(g, n) ==
    {m \in NodesOf(g) :
        \A X \in SUBSET NodesOf(g) :
            (\A e \in g.edges : (e.source = n \/ e.source \in X) => e.target \in X)
                => m \in X}

Acyclic(g) == \A n \in NodesOf(g) : n \notin ReachedFrom(g, n)

(***************************************************************************)
(* Which nodes run when node n lights the ports lights[n] and nothing      *)
(* fails: a node with no incoming edge if it is an entry of the run, any   *)
(* other if a source that runs lights an edge into it.                     *)
(***************************************************************************)
RunsIn(g, lights, entries) ==
    LET runs[n \in NodesOf(g)] ==
            /\ n \notin g.layout
            /\ IF Incoming(g, n) = {} THEN n \in entries
               ELSE \E e \in Incoming(g, n) : e.handle \in lights[e.source] /\ runs[e.source]
    IN  {n \in NodesOf(g) : runs[n]}
=============================================================================
