------------------------------- MODULE FlowRun -------------------------------
(***************************************************************************)
(* What a run of a flow graph promises, whoever drives it: the rule of the *)
(* engine's walk (engine/runner.py) with no walk, no store and no queue.   *)
(* A node is decided after all its sources; it starts only if one of them  *)
(* lit an edge into it, or it has no incoming edge; it is skipped only if  *)
(* none did, or if its kind never executes; and a decision is final.       *)
(***************************************************************************)
EXTENDS FlowGraph

CONSTANTS
    Graph,
    NoteNodes,   \* annotations and layout: they may be skipped when reached
    Ports

VARIABLES
    status,      \* status[n]: where node n has got to
    lit          \* lit[n]: the ports n published on

vars == <<status, lit>>

Nodes == NodesOf(Graph)

Decided == {n \in Nodes : status[n] \in {"completed", "skipped", "failed"}}

LitInto(n) == {e \in Incoming(Graph, n) : e.handle \in lit[e.source]}

Reached(n) == Sources(Graph, n) \subseteq Decided

TypeOK ==
    /\ status \in [Nodes -> {"pending", "running", "completed", "skipped", "failed"}]
    /\ lit \in [Nodes -> SUBSET Ports]

Init ==
    /\ status = [n \in Nodes |-> "pending"]
    /\ lit = [n \in Nodes |-> {}]

Start(n) ==
    /\ status[n] = "pending"
    /\ Reached(n)
    /\ Incoming(Graph, n) = {} \/ LitInto(n) # {}
    /\ status' = [status EXCEPT ![n] = "running"]
    /\ UNCHANGED lit

\* A node parked for a person gives up its place and is started again later.
Suspend(n) ==
    /\ status[n] = "running"
    /\ status' = [status EXCEPT ![n] = "pending"]
    /\ UNCHANGED lit

Finish(n, ports) ==
    /\ status[n] = "running"
    /\ status' = [status EXCEPT ![n] = "completed"]
    /\ lit' = [lit EXCEPT ![n] = ports]

Break(n) ==
    /\ status[n] = "running"
    /\ status' = [status EXCEPT ![n] = "failed"]
    /\ UNCHANGED lit

PassOver(n) ==
    /\ status[n] \in {"pending", "running"}
    /\ Reached(n)
    /\ (Incoming(Graph, n) # {} /\ LitInto(n) = {}) \/ n \in NoteNodes
    /\ status' = [status EXCEPT ![n] = "skipped"]
    /\ UNCHANGED lit

Next ==
    \E n \in Nodes :
        \/ Start(n) \/ Suspend(n) \/ Break(n) \/ PassOver(n)
        \/ \E ports \in SUBSET Ports : Finish(n, ports)

Spec == Init /\ [][Next]_vars
=============================================================================
