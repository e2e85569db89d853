------------------------------- MODULE MCNested -------------------------------
(***************************************************************************)
(* Nodes whose ids would collide unescaped, a workflow that calls itself,  *)
(* gates and failures inside every structural node.                        *)
(***************************************************************************)
EXTENDS Nested

A == <<"a">>
B == <<"b">>
G == <<"g">>
R == <<"r">>
AB == <<"a", "/", "b">>
A0B == <<"a", "#", "0", "/", "b">>

Node(id, does, graph) == [id |-> id, does |-> does, graph |-> graph, items |-> 0, limit |-> 2]
Loop(id, graph, items, limit) == [Node(id, "for_each", graph) EXCEPT !.items = items, !.limit = limit]

SmallWorkflows ==
    [leaf |-> <<Node(B, "charge", "")>>,
     odd  |-> <<Node(A, "subflow", "leaf"), Node(AB, "charge", "")>>,
     self |-> <<Node(B, "call", ""), Node(A, "subflow", "self")>>,
     asks |-> <<Node(B, "charge", ""), Node(G, "gate", "")>>,
     holds |-> <<Node(A, "subgraph", "self"), Node(B, "charge", "")>>,
     loops |-> <<Loop(A, "leaf", 2, 2), Node(A0B, "charge", "")>>]

SmallRoots ==
    {Node(R, "subflow", w) : w \in DOMAIN SmallWorkflows}
    \cup {Node(R, "subgraph", "asks"), Node(G, "gate", ""), Node(G, "subflow", "asks"), Node(R, "charge", "")}
    \cup {Loop(R, "asks", 2, 2), Loop(R, "leaf", 2, 1), Loop(R, "leaf", 3, 3)}

\* The other nodes of the run have the names of nodes inside.
OddSiblings == {A, B, AB}

SmallWindows == {{}, {0}, {1}}
=============================================================================
