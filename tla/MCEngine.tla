------------------------------ MODULE MCEngine ------------------------------
(***************************************************************************)
(* Small calls of the engine.  A run picks one of the sets of calls below. *)
(***************************************************************************)
EXTENDS Engine, FiniteSetsExt, SequencesExt

Ids == {"a", "b", "c"}

On(src, port, tgt) == [source |-> src, handle |-> port, target |-> tgt]

GraphOf(order, list, layout) ==
    [order |-> order, edges |-> Range(list), notes |-> {}, layout |-> layout]

Call(g, list, lights, store, target, entries, raising) ==
    [graph |-> g, edges |-> list, lights |-> lights, store |-> store,
     target |-> target, entries |-> entries, raising |-> raising]

NoRows(g) == [n \in NodesOf(g) |-> NoRow]

AllOut(g) == [n \in NodesOf(g) |-> {"out"}]

\* Every list of at most three edges between the nodes and an id that is no node's,
\* parallel edges, self loops and cycles included.
Lists == UNION {[1..k -> {On(s, "out", t) : s, t \in Ids \cup {"x"}}] : k \in 0..3}

SortCalls ==
    {LET g == GraphOf(<<"b", "a", "c">>, list, {})
     IN  Call(g, list, AllOut(g), NoRows(g), NoNode, Ids, {}) : list \in Lists}

\* Acyclic graphs of up to three edges on two ports over four nodes.
Later == [a |-> {"b", "c", "d"}, b |-> {"c", "d"}, c |-> {"d"}, d |-> {}]

ForwardEdge ==
    {e \in [source : DOMAIN Later, handle : {"out", "alt"}, target : DOMAIN Later] :
        /\ e.target \in Later[e.source]
        /\ e.handle = "alt" => e.source = "a"}

ForwardLists == {SetToSeq(E) : E \in UNION {kSubset(k, ForwardEdge) : k \in 0..3}}

ForwardGraph(list, layout) == GraphOf(<<"d", "b", "a", "c">>, list, layout)

PortSets == {{}, {"out"}, {"alt"}, {"out", "alt"}}

LightsOf(g) ==
    [NodesOf(g) -> PortSets] \cap [a : PortSets, b : {{}, {"out"}}, c : {{}, {"out"}}, d : {{}}]

RunCalls ==
    UNION {
        {Call(ForwardGraph(list, layout), list, lights, NoRows(ForwardGraph(list, layout)),
              NoNode, entries, {"b"}) :
            lights \in LightsOf(ForwardGraph(list, layout))} :
        list \in ForwardLists, layout \in {{}, {"c"}}, entries \in {Ids \cup {"d"}, {"a"}}}

\* Replays of a target the frontier handed out, beside any checkpoints a run can
\* have written: completed rows, failed ones, rows other workers hold.
RowsOn(ports) ==
    {NoRow, [NoRow EXCEPT !.status = "claimed"], [NoRow EXCEPT !.status = "failed"]}
    \cup {[NoRow EXCEPT !.status = "completed", !.ports = P] : P \in ports}

StoresOf(g) ==
    {s \in [a : RowsOn(PortSets), b : RowsOn({{}, {"out"}}), c : RowsOn({{"out"}}),
            d : {NoRow}] :
        \A n \in NodesOf(g) : s[n].status # "none" =>
            /\ Sources(g, n) \subseteq Settled(s)
            /\ ~WalkedPast(g, s, n)}

ReplayCallsOf(list, layout) ==
    LET g == ForwardGraph(list, layout)
    IN  UNION {{Call(g, list, AllOut(g), s, n, {}, {n}) : n \in Ready(g, s)} : s \in StoresOf(g)}

ReplayCalls ==
    UNION {ReplayCallsOf(list, layout) : list \in ForwardLists, layout \in {{}, {"c"}}}

\* Runs of the whole graph resumed from such checkpoints.
ResumeCallsOf(list, layout) ==
    LET g == ForwardGraph(list, layout)
    IN  {Call(g, list, AllOut(g), s, NoNode, DOMAIN Later, {}) :
            s \in {t \in StoresOf(g) :
                     /\ t["a"].status = "completed"
                     /\ \A n \in NodesOf(g) : t[n].status \in {"none", "completed"}}}

ResumeCalls == UNION {ResumeCallsOf(list, {}) : list \in ForwardLists}

AllCalls == ResumeCalls \cup SortCalls \cup RunCalls \cup ReplayCalls
=============================================================================
