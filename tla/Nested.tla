-------------------------------- MODULE Nested --------------------------------
(***************************************************************************)
(* One node of a durable run, and the graphs inside it: a subflow runs a   *)
(* workflow of the host, a subgraph the one in its config, a for_each its  *)
(* lane once per item (nodes/structural.py, nodes/logic.py), each through  *)
(* a walk of its own.  The node is tried again after a failure or a crash, *)
(* by the policy of the coordinator, and its leaves send for good: a       *)
(* provider takes two sends with one key for one while it remembers it.    *)
(*                                                                         *)
(* A graph is a chain of nodes [id, does, graph, items, limit, version].   *)
(* The walk over branches, joins and dead edges is Engine's.               *)
(***************************************************************************)
EXTENDS Identity, FiniteSetsExt

CONSTANTS
    Roots,          \* the nodes of the durable run that may be the one
    Siblings,       \* the ids of its other nodes, fenced by the replay
    Workflows,      \* the graphs, by name
    Windows,        \* how long the provider may remember a key
    Tries,          \* the attempts the policy gives
    MaxAttempts,    \* bound: attempts of a claim, crashes included
    MaxReleases,    \* bound: releases
    MaxTime         \* bound on the clock

ASSUME NestedAssumption ==
    /\ \A r \in Roots : r.id \notin Siblings
    /\ Tries \in Nat /\ MaxAttempts \in Nat /\ MaxReleases \in Nat /\ MaxTime \in Nat
    /\ \A w \in Windows : \A m, n \in w : m = n /\ n \in Nat

Graphs == {<<r>> : r \in Roots} \cup {Workflows[w] : w \in DOMAIN Workflows}

\* A graph with an id twice does not sort (_topo_sort), so none of a walk has one;
\* a structural node names its graph.
ASSUME GraphsAssumption ==
    \A g \in Graphs :
        /\ g \in Seq(ToSet(g))
        /\ \A i, j \in DOMAIN g : g[i].id = g[j].id => i = j
        /\ \A i \in DOMAIN g :
              /\ g[i].id \in Seq(ToSet(g[i].id))
              /\ g[i].does \in {"subflow", "subgraph", "for_each"} => g[i].graph \in DOMAIN Workflows

VARIABLES
    root,       \* the node
    row,        \* its claim: [status, attempt, first]
    stack,      \* the walks, the root's first
    result,     \* what the walk that just ended reported, or None
    answered,   \* the ids of the gates a person answered
    window, now,
    provider,   \* key -> [when, times]: the sends it took for new ones
    used,       \* history: <<position in the graphs, key>> of every send
    fenced,     \* history: the walks in which a leaf met a fence
    heard,      \* history: the gates that paused in this attempt
    releases    \* history: how often the host dropped the claim

vars == <<root, row, stack, result, answered, window, now, provider, used, fenced, heard, releases>>

NoResult == [is |-> "none"]

Top == stack[Len(stack)]
NodeAt(frame) == frame.graph[frame.at]
Current == NodeAt(Top)
Ended(frame) == frame.at > Len(frame.graph)
Walking == stack # <<>> /\ result = NoResult

Key(frame, id) == step_key(frame.path, id)
Position(frame, occurrence) == Append(frame.position, <<frame.at, occurrence>>)

-----------------------------------------------------------------------------
(* The walks *)

Replace(frame) == stack' = [stack EXCEPT ![Len(stack)] = frame]
Proceed(frame) == [frame EXCEPT !.at = @ + 1, !.item = 0, !.failures = {}]

\* An error ends the walk with it.
EndWith(outcome) ==
    /\ stack' = Front(stack)
    /\ result' = outcome

ChildBindingsKept(frame) == frame.bindings                                       \* mistake
\* A child runs with the registry of its parent minus the bindings by node id.
ChildBindings(frame) == {}

\* A walk inside the current node, one segment further down.
Child(graph, occurrence, executors) ==
    [graph |-> graph, at |-> 1, item |-> 0, failures |-> {},
     path |-> descend(Top.path, Current.id, occurrence),
     depth |-> Top.depth + 1, executors |-> executors, bindings |-> ChildBindings(Top),
     position |-> Position(Top, occurrence)]

Enter(graph, occurrence, executors) ==
    /\ stack' = Append(stack, Child(graph, occurrence, executors))
    /\ UNCHANGED <<result, provider, used, fenced, heard>>

Raise == EndWith(Fails) /\ UNCHANGED <<provider, used, fenced, heard>>

-----------------------------------------------------------------------------
(* Leaves *)

\* The provider takes a key it remembers for a send it had.
Remembers(key) ==
    /\ key \in DOMAIN provider
    /\ \A w \in window : now <= provider[key].when + w /\ w > 0

Send(key) ==
    provider' =
        IF Remembers(key) THEN provider
        ELSE [k \in DOMAIN provider \cup {key} |->
                 IF k # key THEN provider[k]
                 ELSE [when  |-> now,
                       times |-> (IF k \in DOMAIN provider THEN provider[k].times ELSE 0) + 1]]

\* A leaf that may send does, and answers or not; a fence answers for it; a kind
\* nobody bound fails the walk.
Leaf ==
    LET key == Key(Top, Current.id)
        fence == Current.id \in Top.bindings
        safe == is_replay_safe(window, row.attempt, now - row.first)
        bound == Top.executors = "host" \/ Current.does = "call"
    IN  /\ Walking /\ ~Ended(Top)
        /\ Current.does \in {"charge", "call"}
        /\ \/ ~fence /\ Raise
           \/ /\ fence \/ (bound /\ safe)
              /\ IF fence THEN UNCHANGED <<provider, used>>
                 ELSE Send(key) /\ used' = used \cup {<<Position(Top, {}), key>>}
              /\ fenced' = IF fence THEN fenced \cup {Top.depth} ELSE fenced
              /\ \/ Replace(Proceed(Top)) /\ UNCHANGED result
                 \/ ~fence /\ EndWith(Fails)
              /\ UNCHANGED heard
        /\ UNCHANGED <<root, row, answered, window, now, releases>>

\* DurableApproval.execute; a subgraph runs the offline gate, which answers.
Gate ==
    /\ Walking /\ ~Ended(Top)
    /\ Current.does = "gate"
    /\ IF Current.id \in answered \/ Top.executors = "builtin"
       THEN Replace(Proceed(Top)) /\ UNCHANGED <<result, heard>>
       ELSE EndWith(Pauses(Current.id)) /\ heard' = heard \cup {Current.id}
    /\ UNCHANGED <<root, row, answered, window, now, provider, used, fenced, releases>>

-----------------------------------------------------------------------------
(* Structural nodes *)

TooDeepByOne(frame, node) == frame.depth > node.limit                            \* mistake
TooDeep(frame, node) == frame.depth + 1 > node.limit

\* Subflow.execute up to the child's run: the resolver may have nothing.
Subflow ==
    /\ Walking /\ ~Ended(Top)
    /\ Current.does = "subflow"
    /\ \/ Raise
       \/ ~TooDeep(Top, Current) /\ Enter(Workflows[Current.graph], {}, Top.executors)
    /\ UNCHANGED <<root, row, answered, window, now, releases>>

\* Subgraph.execute: on the shipped executors alone, at any depth; it may not be
\* readable.
Subgraph ==
    /\ Walking /\ ~Ended(Top)
    /\ Current.does = "subgraph"
    /\ Raise \/ Enter(Workflows[Current.graph], {}, "builtin")
    /\ UNCHANGED <<root, row, answered, window, now, releases>>

\* for_each: the next item, or on after the last.
ForEach ==
    /\ Walking /\ ~Ended(Top)
    /\ Current.does = "for_each"
    /\ IF Current.items > Current.limit THEN Raise
       ELSE IF Top.item < Current.items
            THEN Enter(Workflows[Current.graph], {Top.item}, Top.executors)
       ELSE /\ Replace(Proceed(Top))
            /\ UNCHANGED <<result, provider, used, fenced, heard>>
    /\ UNCHANGED <<root, row, answered, window, now, releases>>

\* The walk reached its end.
End ==
    /\ Walking /\ Ended(Top)
    /\ EndWith(Succeeds)
    /\ UNCHANGED <<root, row, answered, window, now, provider, used, fenced, heard, releases>>

SubflowReturnsWrapped(outcome) ==                                                \* mistake
    IF outcome = Succeeds THEN Replace(Proceed(Top)) /\ result' = NoResult ELSE EndWith(Fails)
\* A pause travels up as it is; a failure names the subflow.
SubflowReturns(outcome) ==
    IF outcome = Succeeds THEN Replace(Proceed(Top)) /\ result' = NoResult
    ELSE EndWith(IF IsPause(outcome) THEN outcome ELSE Fails)

\* The outputs of the run, whether or not it succeeded.
SubgraphReturns(outcome) == Replace(Proceed(Top)) /\ result' = NoResult

ItemReturnsStuck(outcome) ==                                                     \* mistake
    Replace([Top EXCEPT !.item = IF outcome = Succeeds THEN @ + 1 ELSE @]) /\ result' = NoResult
\* A failed item is kept as one; a pause is not a failure.
ItemReturns(outcome) ==
    IF IsPause(outcome) THEN EndWith(outcome)
    ELSE /\ Replace([Top EXCEPT !.item = @ + 1,
                                !.failures = IF outcome = Fails THEN @ \cup {Top.item} ELSE @])
         /\ result' = NoResult

\* The walk one level up goes on with what its child reported.
Return ==
    /\ stack # <<>> /\ result # NoResult
    /\ \/ Current.does = "subflow" /\ SubflowReturns(result)
       \/ Current.does = "subgraph" /\ SubgraphReturns(result)
       \/ Current.does = "for_each" /\ ItemReturns(result)
    /\ UNCHANGED <<root, row, answered, window, now, provider, used, fenced, heard, releases>>

-----------------------------------------------------------------------------
(* The durable run around it *)

NoClaim == [status |-> "none", attempt |-> 0, first |-> 0]

AttemptAnew(old) == [status |-> "claimed", attempt |-> old.attempt + 1, first |-> now]   \* mistake
\* The claim counts the attempt and keeps the time of the first.
Claimed(old) ==
    [status |-> "claimed", attempt |-> old.attempt + 1,
     first |-> IF old.attempt = 0 THEN now ELSE old.first]

\* A job for the node: the first, one after a failure or a crash, or the one after
\* an answer.
Attempt ==
    /\ stack = <<>> /\ result = NoResult
    /\ \/ row.status \in {"none", "claimed"}
       \/ row.status = "paused" /\ root.id \in answered
    /\ row.attempt < MaxAttempts
    /\ row' = Claimed(row)
    /\ stack' = <<[graph |-> <<root>>, at |-> 1, item |-> 0, failures |-> {}, path |-> <<>>, depth |-> 0,
                   executors |-> "host", bindings |-> Siblings, position |-> <<>>]>>
    /\ heard' = {}
    /\ UNCHANGED <<root, result, answered, window, now, provider, used, fenced, releases>>

\* What run_node makes of the result: only a pause of the node itself is one.
Verdict ==
    IF result = Succeeds THEN "completed"
    ELSE IF IsPause(result) /\ result.id = root.id THEN "paused"
    ELSE IF row.attempt < Tries THEN "claimed"
    ELSE "failed"

Settle ==
    /\ stack = <<>> /\ result # NoResult
    /\ row' = [row EXCEPT !.status = Verdict]
    /\ result' = NoResult
    /\ UNCHANGED <<root, stack, answered, window, now, provider, used, fenced, heard, releases>>

\* The worker dies.
Crash ==
    /\ stack # <<>>
    /\ row.attempt < MaxAttempts
    /\ stack' = <<>> /\ result' = NoResult
    /\ UNCHANGED <<root, row, answered, window, now, provider, used, fenced, heard, releases>>

\* The host drops a claim nobody works on: of a paused node, so that its answer
\* runs it again, or of one whose worker died.  The next claim is a first one.
Release ==
    /\ stack = <<>> /\ result = NoResult
    /\ row.status \in {"claimed", "paused"}
    /\ releases < MaxReleases
    /\ row' = NoClaim
    /\ releases' = releases + 1
    /\ UNCHANGED <<root, stack, result, answered, window, now, provider, used, fenced, heard>>

Answer(id) ==
    /\ id \notin answered
    /\ answered' = answered \cup {id}
    /\ UNCHANGED <<root, row, stack, result, window, now, provider, used, fenced, heard, releases>>

Tick ==
    /\ now < MaxTime
    /\ now' = now + 1
    /\ UNCHANGED <<root, row, stack, result, answered, window, provider, used, fenced, heard, releases>>

GateIds ==
    LET nodes == UNION {ToSet(Workflows[w]) : w \in DOMAIN Workflows} \cup Roots
    IN  {n.id : n \in {m \in nodes : m.does = "gate"}}

Init ==
    /\ root \in Roots
    /\ row = NoClaim
    /\ stack = <<>> /\ result = NoResult
    /\ answered = {}
    /\ window \in Windows /\ now = 0
    /\ provider = [k \in {} |-> [when |-> 0, times |-> 0]]
    /\ used = {} /\ fenced = {} /\ heard = {} /\ releases = 0

Walk == Leaf \/ Gate \/ Subflow \/ Subgraph \/ ForEach \/ End \/ Return \/ Settle

Next ==
    \/ Walk
    \/ Attempt
    \/ Crash
    \/ Release
    \/ \E id \in GateIds : Answer(id)
    \/ Tick

Spec == Init /\ [][Next]_vars

\* A worker that lives walks on.
FairSpec == Spec /\ WF_vars(Walk)
-----------------------------------------------------------------------------
(* Properties *)

\* The variables have their types, and the counters of a walk are about one thing:
\* every level adds a segment to the identity and one to the depth, and what a loop
\* recorded is items it ran.
TypeOK ==
    /\ root \in Roots
    /\ now \in 0..MaxTime /\ releases \in 0..MaxReleases
    /\ row \in [status : {"none", "claimed", "paused", "failed", "completed"},
                 attempt : 0..MaxAttempts, first : 0..now]
    /\ \A i \in DOMAIN stack :
          /\ stack[i].at \in Nat \ {0} /\ stack[i].item \in Nat
          /\ stack[i].depth = i - 1 /\ Len(stack[i].path) = i - 1
          /\ stack[i].failures \subseteq 0..stack[i].item - 1

\* "Recursion is guarded by depth: a workflow referencing itself (directly or
\* through a chain) would otherwise recurse until the interpreter gives up": no
\* walk is deeper than the subflow around it allows, whatever lies between that
\* subflow and the root.
RecursionIsBounded ==
    \A i \in DOMAIN stack : i > 1 /\ NodeAt(stack[i - 1]).does = "subflow" =>
        ~(stack[i].depth > NodeAt(stack[i - 1]).limit)

\* "Stable across retries of that execution, distinct from every other execution
\* of the same node": two sends have one key exactly if they are the same place in
\* the same invocation, over nesting, items, attempts and odd ids.
KeysTellStepsApart ==
    \A u, v \in used : u[2] = v[2] <=> u[1] = v[1]

\* "The retry CLOCK, and it must never move": through crashes, retries and a provider
\* that forgets, a leaf that asks is_replay_safe before it sends is charged for once.
\* A release does move the clock, so each may cost one charge more; nothing else does.
ChargedOnce == \A key \in DOMAIN provider : provider[key].times <= 1 + releases

\* "A child node named like one of them was silently fenced": no walk meets a fence
\* of the replay around it, whatever its nodes are called.
ChildrenAreNotFenced == fenced = {}

\* "A PAUSE IS NOT A FAILURE": a gate that asked somebody ends the walk it is in and
\* every walk around it as that pause, unless a subgraph holds it.
PauseTravelsUp ==
    heard # {} /\ result # NoResult => IsPause(result) /\ result.id \in heard

\* "The durable coordinator read a FAILED run instead of a run parked on a person,
\* the gate became unresumable": what PauseTravelsUp is for.
PendingDecisionIsNoFailure ==
    row.status = "failed" => heard = {}

\* A walk ends, whatever fails, recurs or is asked inside it.
AttemptsEnd == stack # <<>> ~> stack = <<>>

\* A walk has the registry its place gives it: the shipped executors below any
\* subgraph, and below the root nothing bound by node id.
RegistriesFollowNesting ==
    /\ stack # <<>> => stack[1].graph = <<root>>
    /\ \A i \in DOMAIN stack : stack[i].bindings = IF i = 1 THEN Siblings ELSE {}
    /\ \A i, j \in DOMAIN stack : i < j /\ NodeAt(stack[i]).does = "subgraph" => stack[j].executors = "builtin"

\* A pause on its way up has no subgraph above it that would hold it.
PauseIsOnItsWay ==
    heard # {} =>
        \/ stack = <<>> /\ result = NoResult
        \/ /\ IsPause(result) /\ result.id \in heard
           /\ \A i \in DOMAIN stack : NodeAt(stack[i]).does # "subgraph"

\* A child is a walk of its own: one level further down by every count, within the
\* limit, with the registry of its place, met by no fence, and heard when it asks.
NestingIsSound ==
    /\ TypeOK
    /\ RecursionIsBounded
    /\ RegistriesFollowNesting
    /\ ChildrenAreNotFenced
    /\ PauseIsOnItsWay
=============================================================================
