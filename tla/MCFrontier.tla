----------------------------- MODULE MCFrontier -----------------------------
(***************************************************************************)
(* Bounds of the frontier check: four nodes, two ports, at most MaxEdges   *)
(* edges of an acyclic graph, declared once in an order that agrees with   *)
(* the edges and once in an order that does not.                           *)
(***************************************************************************)
EXTENDS FrontierCheck, FiniteSetsExt

CONSTANTS MaxEdges

MCOrders == {<<"a", "b", "c", "d">>, <<"d", "c", "a", "b">>}

Later == [a |-> {"b", "c", "d"}, b |-> {"c", "d"}, c |-> {"d"}, d |-> {}]

Edge == {e \in [source : DOMAIN Later, handle : {"out", "alt"}, target : DOMAIN Later] :
            /\ e.target \in Later[e.source]
            /\ e.handle = "alt" => e.source \in {"a", "b"}}

MCEdgeSets == UNION {kSubset(k, Edge) : k \in 0..MaxEdges}

MCNoteSets == {{}, {"c"}}
=============================================================================
