------------------------------ MODULE Frontier ------------------------------
(***************************************************************************)
(* Which nodes may run now, given what has settled (durable/frontier.py),  *)
(* and which of those an advance hands out (durable/dispatch.py).          *)
(*                                                                         *)
(* Skips and Ready say WHAT the frontier is: the least set of nodes closed *)
(* under "every source settled and none lit me", and the nodes that are    *)
(* unblocked beside it; ReadyIndex says in which ORDER it is reported.     *)
(* FrontierLoop is the loop that computes it, in FrontierCheck, which      *)
(* checks that the two agree.                                              *)
(***************************************************************************)
EXTENDS FlowGraph, ClaimStore

\* The edge is active: its source completed and published on its handle.
Active(store, e) ==
    /\ store[e.source].status = "completed"
    /\ e.handle \in store[e.source].ports

ActiveInto(g, store, n) == {e \in Incoming(g, n) : Active(store, e)}

\* Reached, but down a branch that never lit.
DeadOnAnyEdge(g, store, n) == ActiveInto(g, store, n) # Incoming(g, n)    \* mistake
Dead(g, store, n) == Incoming(g, n) # {} /\ ActiveInto(g, store, n) = {}

\* The engine walks past n: its kind never executes, or n is dead.
WalkedPast(g, store, n) == n \in g.layout \/ Dead(g, store, n)

\* n would be settled as skipped once the nodes of X are.
SkippedTooEarly(g, store, X, n) ==      \* mistake: the sources are not waited for
    store[n].status = "none" /\ (Dead(g, store, n) \/ n \in g.notes)

SkippedGiven(g, store, X, n) ==
    /\ store[n].status = "none"
    /\ Sources(g, n) \subseteq Settled(store) \cup X
    /\ Dead(g, store, n) \/ n \in g.notes

ClosedUnderSkips(g, store, X) ==
    \A n \in NodesOf(g) : SkippedGiven(g, store, X, n) => n \in X

Skips(g, store) ==
    {n \in NodesOf(g) :
        \A X \in SUBSET NodesOf(g) : ClosedUnderSkips(g, store, X) => n \in X}

ReadyOnFirstEdge(g, store) ==           \* mistake: one lit edge is enough
    {n \in NodesOf(g) \ Skips(g, store) :
        store[n].status = "none" /\ (Incoming(g, n) = {} \/ ActiveInto(g, store, n) # {})}

ReadyBehindAnEdge(g, store) ==          \* mistake: nodes without incoming edges forgotten
    {n \in NodesOf(g) \ Skips(g, store) :
        /\ store[n].status = "none"
        /\ Sources(g, n) # {} /\ Sources(g, n) \subseteq Settled(store) \cup Skips(g, store)}

Ready(g, store) ==
    {n \in NodesOf(g) \ Skips(g, store) :
        /\ store[n].status = "none"
        /\ Sources(g, n) \subseteq Settled(store) \cup Skips(g, store)}

\* is_complete and has_work_in_flight
IsComplete(g, store) == NodesOf(g) \subseteq Settled(store)
HasClaimedWork(store) == \E n \in DOMAIN store : store[n].status = "claimed"   \* mistake
HasWorkInFlight(store) == Held(store) # {}

(***************************************************************************)
(* The order of FrontierResult.ready.  compute passes over the nodes in    *)
(* declaration order until a pass settles nothing; a node is found in the  *)
(* first pass in which every source it waits for has been skipped before   *)
(* it: in the same pass if the source is declared before it, one pass      *)
(* later if it is not.                                                     *)
(***************************************************************************)
PassOf(g, store) ==
    LET skips == Skips(g, store)
        pass[n \in NodesOf(g)] ==
            LET after == {pass[s] + (IF DeclaredBefore(g, s, n) THEN 0 ELSE 1) :
                            s \in Sources(g, n) \cap skips}
            IN  CHOOSE k \in after \cup {1} : \A j \in after \cup {1} : k >= j
    IN  pass

\* How many ready nodes are found before each: its index in FrontierResult.ready.
ReadyIndex(g, store) ==
    LET ready == Ready(g, store)
        pass == PassOf(g, store)
        before(m, n) == \/ pass[m] < pass[n]
                        \/ pass[m] = pass[n] /\ DeclaredBefore(g, m, n)
    IN  [n \in ready |-> Cardinality({m \in ready : before(m, n)})]

(***************************************************************************)
(* select_dispatch: all of `ready` under UNLIMITED_CONCURRENCY, otherwise  *)
(* the first limit - held of it, and never fewer than none.                *)
(***************************************************************************)
UNLIMITED == 0

RoomIgnoringHeld(limit, held) == limit      \* mistake
Room(limit, held) == IF limit > held THEN limit - held ELSE 0

SelectLast(ready, held, limit) ==           \* mistake: the other end of the list
    IF limit = UNLIMITED THEN DOMAIN ready
    ELSE {n \in DOMAIN ready : ready[n] + Room(limit, held) >= Cardinality(DOMAIN ready)}

SelectDispatch(ready, held, limit) ==
    IF limit = UNLIMITED THEN DOMAIN ready
    ELSE {n \in DOMAIN ready : ready[n] < Room(limit, held)}
=============================================================================
