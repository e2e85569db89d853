---------------------------- MODULE FrontierCheck ----------------------------
(***************************************************************************)
(* Frontier.compute over every small graph and every store a run of that   *)
(* graph can have, and the skip cascade written to the store one row at a  *)
(* time, as Frontier.settle_skips writes it.                               *)
(***************************************************************************)
EXTENDS Frontier, SequencesExt

CONSTANTS
    Orders,     \* the declaration orders tried, permutations of one node set
    EdgeSets,   \* the edge sets tried
    NoteSets    \* the sets of note nodes tried

VARIABLES graph, store

vars == <<graph, store>>

Graphs == [order : Orders, edges : EdgeSets, notes : NoteSets]

AsGraph(r) == [order |-> r.order, edges |-> r.edges, notes |-> r.notes, layout |-> r.notes]

\* They are imported graphs without a cycle.
ASSUME GraphsAssumption ==
    \A r \in Graphs : WellFormed(AsGraph(r)) /\ Acyclic(AsGraph(r))

\* The rows of nodes that were handed out.  For the frontier a failed row is a
\* completed one that lit nothing, and a paused row is a claimed one.
RowsOver(ports) ==
    {NoRow, [NoRow EXCEPT !.status = "claimed"]}
    \cup {[NoRow EXCEPT !.status = "completed", !.ports = P] : P \in SUBSET ports}

\* A node has a row only after its sources settled, and runs only if one lit it.
Reachable(g, s) ==
    \A n \in NodesOf(g) : s[n].status # "none" =>
        /\ n \notin g.notes
        /\ Sources(g, n) \subseteq Settled(s)
        /\ ~Dead(g, s, n)

Init ==
    \E r \in Graphs :
        /\ graph = AsGraph(r)
        /\ store \in {s \in [NodesOf(AsGraph(r)) -> RowsOver(PortsOf(AsGraph(r)))] :
                        Reachable(AsGraph(r), s)}

\* settle_skips: the next row of the cascade.  Its sources come before it.
WriteSkip(n) ==
    /\ n \in Skips(graph, store)
    /\ Sources(graph, n) \cap Skips(graph, store) = {}
    /\ store' = Skip(store, n)
    /\ UNCHANGED graph

Next == \E n \in NodesOf(graph) : WriteSkip(n)

Spec == Init /\ [][Next]_vars

-----------------------------------------------------------------------------
(***************************************************************************)
(* The loop.  `settled` holds the ids of the local settled map: a node     *)
(* skipped by an earlier visit is in it with no ports, so Active, which    *)
(* asks for a completed row, is false of its edges.                        *)
(***************************************************************************)
Decided(acc, n) == n \in acc.settled \/ n \in Held(store) \/ n \in ToSet(acc.ready)
Blocked(acc, n) == ~(Sources(graph, n) \subseteq acc.settled)

SettleSkipped(acc, n) ==
    [acc EXCEPT !.settled = @ \cup {n}, !.skipped = Append(@, n), !.changed = TRUE]

VisitSkippingEarly(acc, n) ==       \* mistake: a dead edge is enough to skip
    IF Decided(acc, n) THEN acc
    ELSE IF Dead(graph, store, n) \/ n \in graph.notes THEN SettleSkipped(acc, n)
    ELSE IF Blocked(acc, n) THEN acc
    ELSE [acc EXCEPT !.ready = Append(@, n)]

VisitReversing(acc, n) ==           \* mistake: the ready list is built backwards
    IF Decided(acc, n) \/ Blocked(acc, n) THEN acc
    ELSE IF Dead(graph, store, n) \/ n \in graph.notes THEN SettleSkipped(acc, n)
    ELSE [acc EXCEPT !.ready = <<n>> \o @]

Visit(acc, n) ==
    IF Decided(acc, n) \/ Blocked(acc, n) THEN acc
    ELSE IF Dead(graph, store, n) \/ n \in graph.notes THEN SettleSkipped(acc, n)
    ELSE [acc EXCEPT !.ready = Append(@, n)]

\* One pass over the nodes: `visited[i]` is what it has after the first i of them.
Pass(acc) ==
    LET visited[i \in 0 .. Len(graph.order)] ==
            IF i = 0 THEN [acc EXCEPT !.changed = FALSE]
            ELSE Visit(visited[i - 1], graph.order[i])
    IN  visited[Len(graph.order)]

Start == [settled |-> Settled(store), ready |-> <<>>, skipped |-> <<>>, changed |-> TRUE]

FrontierOnePass == Pass(Start)      \* mistake: no fixpoint

\* Passes are made while one changes something.  That one more than there are
\* nodes is enough is part of LoopFindsTheFrontier.
FrontierLoop ==
    LET passes[k \in 0 .. Len(graph.order) + 1] ==
            IF k = 0 THEN Start
            ELSE LET acc == passes[k - 1] IN IF acc.changed THEN Pass(acc) ELSE acc
    IN  passes[Len(graph.order) + 1]

-----------------------------------------------------------------------------
NoDuplicates(s) == \A i, j \in DOMAIN s : s[i] = s[j] => i = j

\* The loop of Frontier.compute ends, with exactly the least set of skips, and
\* reports each ready and each skipped node once, the ready ones in the order of
\* ReadyIndex, whatever order the graph declares its nodes in.
LoopFindsTheFrontier ==
    LET f == FrontierLoop
    IN  /\ ~f.changed
        /\ ToSet(f.ready) = Ready(graph, store)
        /\ \A i \in DOMAIN f.ready : ReadyIndex(graph, store)[f.ready[i]] = i - 1
        /\ ToSet(f.skipped) = Skips(graph, store)
        /\ NoDuplicates(f.ready \o f.skipped)

\* settle_skips writes the rows in the order of the list.  Stopping anywhere in
\* it leaves no skipped node whose source is still undecided, so an advance
\* that dies in the middle of its cascade leaves a store a run can have.
CascadeSettlesSourcesFirst ==
    LET sk == FrontierLoop.skipped
    IN  \A i \in DOMAIN sk :
            Sources(graph, sk[i])
                \subseteq Settled(store) \cup {sk[j] : j \in {k \in DOMAIN sk : k < i}}

\* An empty frontier means what Coordinator.run_to_completion reports: with no
\* row held, nothing ready and nothing to skip, an acyclic run is finished.
EmptyFrontierIsFinished ==
    (Held(store) = {} /\ Ready(graph, store) = {})
        => NodesOf(graph) \subseteq Settled(store) \cup Skips(graph, store)

\* Writing one row of the cascade neither readies nor un-readies a node and
\* leaves the rest of the cascade as it was: callers of advance that meet half
\* of another caller's cascade agree with it.
PersistingKeepsTheFrontier ==
    [][/\ Ready(graph', store') = Ready(graph, store)
       /\ \E n \in NodesOf(graph) : Skips(graph', store') = Skips(graph, store) \ {n}]_vars

InDeclarationOrder(g, s) ==
    \A i, j \in DOMAIN s : i < j => DeclaredBefore(g, s[i], s[j])

\* With every edge going forward in the document, the frontier reports its
\* ready nodes in declaration order.
ReadyInOrderWhenDeclaredTopologically ==
    DeclaredTopologically(graph) => InDeclarationOrder(graph, FrontierLoop.ready)

\* What advance relies on in every call of compute: the loop finds the frontier and
\* lists it in an order that may be written and dispatched, and only a finished run
\* has an empty one.
FrontierIsSound ==
    /\ LoopFindsTheFrontier
    /\ CascadeSettlesSourcesFirst
    /\ EmptyFrontierIsFinished
    /\ ReadyInOrderWhenDeclaredTopologically
=============================================================================
