------------------------------ MODULE MCDurable ------------------------------
(***************************************************************************)
(* Small runs of the durable driver.  Nodes are strings so that a graph    *)
(* can be written down; workers and tokens are model values.               *)
(***************************************************************************)
EXTENDS Durable, TLC

On(src, port, tgt) == [source |-> src, handle |-> port, target |-> tgt]

\* A decision t, a branch s that may be dead, a join m of both, a sibling x.
JoinEdges == {On("t", "out", "m"), On("s", "out", "m"), On("t", "alt", "s"), On("t", "out", "x")}

Join == [order |-> <<"t", "s", "m", "x">>, edges |-> JoinEdges, notes |-> {}, layout |-> {}]

\* The same graph with the join and the sibling declared before the branch.
JoinDeclaredEarly == [Join EXCEPT !.order = <<"t", "m", "x", "s">>]

JoinChoices ==
    [t |-> {{"out"}, {"alt"}, {"out", "alt"}}, s |-> {{}, {"out"}}, m |-> {{}}, x |-> {{}}]

\* The branch, when it is taken, ends in nothing.
BranchChoices == [JoinChoices EXCEPT !.s = {{}}]

\* An approval gate g, a node d behind its approved port, and behind d a lane,
\* which the frontier hands out and the engine walks past.
Gated ==
    [order |-> <<"g", "d", "lane">>,
     edges |-> {On("g", "approved", "d"), On("d", "out", "lane")},
     notes |-> {}, layout |-> {"lane"}]

GatedChoices == [g |-> {{"approved"}, {"denied"}}, d |-> {{"out"}}, lane |-> {{}}]

\* Two sources that settle one after the other, each with successors.
Fans ==
    [order |-> <<"t", "u", "a", "b", "c">>,
     edges |-> {On("u", "out", "a"), On("u", "out", "b"), On("t", "out", "c")},
     notes |-> {}, layout |-> {}]

FansChoices == [n \in NodesOf(Fans) |-> {{"out"}}]

NoOverrides == [n \in {} |-> 1]
TwiceS == [s |-> 2]
TwiceSThriceX == [s |-> 2, x |-> 3]
TwiceD == [d |-> 2]
WorkerSymmetry == Permutations(Workers)
=============================================================================
