-------------------------------- MODULE RunLoop --------------------------------
(***************************************************************************)
(* Coordinator.run_to_completion (durable/coordinator.py) and the human    *)
(* gates of durable/human.py: the driver that needs no queue.              *)
(*                                                                         *)
(* A driver loops over advance and runs what it was handed, one node after *)
(* the other, each under an owner token of its own.  It returns when a     *)
(* node pauses or fails, or when nothing is ready.  The host calls it      *)
(* again, perhaps twice at once; it records the answers of people, and     *)
(* releases the rows of gates that were answered and of drivers that died. *)
(* advance is one step here: Durable looks inside it.                      *)
(***************************************************************************)
EXTENDS Frontier

CONSTANTS
    Graph,
    Drivers,         \* calls of run_to_completion that may be under way at once
    NoNode,
    MaxConcurrent,   \* Coordinator.max_concurrent
    MaxPasses,       \* max_passes, or what run_to_completion puts for None
    TriesFor,        \* TriesFor[n]: RetryPolicy.tries_for
    Gates,           \* the DurableUserInput and DurableApproval nodes
    AutoAnswer,      \* the gates whose autoAnswerFromInput is on
    PreFilled,       \* PreFilled[n], for gates with a decision on their input
    MayFail,         \* the nodes whose executor may raise
    PortChoices,     \* PortChoices[n]: the sets of ports n's executor may light
    MaxCrashes       \* bound: how often a driver dies

Nodes == NodesOf(Graph)
Ports == UNION UNION {PortChoices[n] : n \in Nodes}

\* A driver runs one node at a time, so one token each is as good as uuid4.
Token(d) == d
Decisions == {"approved", "denied"}

ASSUME LoopAssumption ==
    /\ WellFormed(Graph) /\ Acyclic(Graph)
    /\ NoOwner \notin Drivers /\ NoNode \notin Nodes
    /\ MaxConcurrent \in Nat /\ MaxPasses \in Nat /\ MaxCrashes \in Nat
    /\ TriesFor \in [Nodes -> Nat \ {0}]
    /\ Gates \subseteq Nodes /\ AutoAnswer \subseteq Gates /\ DOMAIN PreFilled \subseteq Gates
    /\ \A n \in DOMAIN PreFilled : PreFilled[n] \in Decisions

VARIABLES
    store,      \* the claim store
    pc,         \* pc[d]: where driver d is in its loop
    todo,       \* todo[d]: what is left of the pass
    node,       \* node[d]: the node d is running
    passes,     \* passes[d]: the passes d has left
    result,     \* result[d]: what d's last call returned
    answers,    \* Submissions._answers
    awaiting,   \* Submissions.awaiting
    choice,     \* choice[n]: the ports n's executor lights, drawn once
    runs,       \* history: how often n's executor did its work
    releases,   \* history: how often n's row was released
    beheld,     \* history: the rows held when d's call last advanced
    crashes     \* how many drivers died

vars == <<store, pc, todo, node, passes, result, answers, awaiting, choice, runs, releases, beheld, crashes>>
loop == <<todo, passes, result, beheld>>
gates == <<answers, awaiting>>
history == <<choice, releases, crashes>>

Working == {"claimed", "ran", "raised", "parked", "dead"}
Results == {"none", "ok", "failed", "paused", "waiting", "stuck"}

-----------------------------------------------------------------------------
(* The loop *)

Call(d) ==
    /\ pc[d] = "idle"
    /\ result[d] # "ok"
    /\ passes' = [passes EXCEPT ![d] = MaxPasses]
    /\ pc' = [pc EXCEPT ![d] = "node"]
    /\ UNCHANGED <<store, todo, node, result, beheld, gates, runs, history>>

AfterSkips(S) == [n \in Nodes |-> IF n \in S THEN Skip(store, n)[n] ELSE store[n]]

PassesLeftOffByOne(d) == passes[d] >= 0      \* mistake
PassesLeft(d) == passes[d] > 0

\* The batch as advance returns it: in the order of the frontier.
InOrder(batch, ready) ==
    {s \in [1..Cardinality(batch) -> batch] :
        \A i, j \in DOMAIN s : i < j => ready[s[i]] < ready[s[j]]}

\* A pass: the skip cascade is settled and the batch read in frontier order.
Advance(d) ==
    LET ready == ReadyIndex(Graph, store)
        after == AfterSkips(Skips(Graph, store))
        batch == SelectDispatch(ready, Cardinality(Held(after)), MaxConcurrent)
    IN  /\ pc[d] = "node" /\ todo[d] = <<>>
        /\ PassesLeft(d)
        /\ passes' = [passes EXCEPT ![d] = @ - 1]
        /\ store' = after
        /\ beheld' = [beheld EXCEPT ![d] = Held(after)]
        /\ todo' \in {[todo EXCEPT ![d] = s] : s \in InOrder(batch, ready)}
        /\ pc' = [pc EXCEPT ![d] = IF batch = {} THEN "finish" ELSE "node"]
        /\ UNCHANGED <<node, result, gates, runs, history>>

OutOfPasses(d) ==
    /\ pc[d] = "node" /\ todo[d] = <<>>
    /\ ~PassesLeft(d)
    /\ pc' = [pc EXCEPT ![d] = "finish"]
    /\ UNCHANGED <<store, node, loop, gates, runs, history>>

Verdict == {m \in Nodes : store[m].status = "failed"}

FinishOnEmptyFrontier == IF Verdict = {} THEN "ok" ELSE "failed"     \* mistake
FinishUnchecked ==                                                  \* mistake
    IF IsComplete(Graph, store) THEN (IF Verdict = {} THEN "ok" ELSE "failed") ELSE "waiting"

Finish ==
    IF IsComplete(Graph, store) THEN (IF Verdict = {} THEN "ok" ELSE "failed")
    ELSE IF HasWorkInFlight(store) THEN "waiting"
    ELSE "stuck"

Return(d, r) ==
    /\ result' = [result EXCEPT ![d] = r]
    /\ pc' = [pc EXCEPT ![d] = "idle"]
    /\ todo' = [todo EXCEPT ![d] = <<>>]
    /\ node' = [node EXCEPT ![d] = NoNode]

ReturnAtTheEnd(d) ==
    /\ pc[d] = "finish"
    /\ Return(d, Finish)
    /\ UNCHANGED <<store, passes, beheld, gates, runs, history>>

-----------------------------------------------------------------------------
(* _run_node_with_retries *)

\* A lost claim is a no-op: the pass goes on with the next node.
RunNext(d) ==
    LET n == Head(todo[d])
    IN  /\ pc[d] = "node"
        /\ todo[d] # <<>>
        /\ todo' = [todo EXCEPT ![d] = Tail(@)]
        /\ \/ /\ CanClaim(store, n, Token(d))
              /\ store' = Claim(store, n, Token(d))
              /\ node' = [node EXCEPT ![d] = n]
              /\ pc' = [pc EXCEPT ![d] = "claimed"]
           \/ /\ ~CanClaim(store, n, Token(d))
              /\ UNCHANGED <<store, node, pc>>
        /\ UNCHANGED <<passes, result, beheld, gates, runs, history>>

\* A gate goes on only with a recorded answer, or with the decision on its
\* input if it asks for that.
AnsweredByInput(n) == n \in DOMAIN answers \cup DOMAIN PreFilled      \* mistake
Answered(n) == n \in DOMAIN answers \cup (AutoAnswer \cap DOMAIN PreFilled)

Decision(n) == IF n \in DOMAIN answers THEN answers[n] ELSE PreFilled[n]

Execute(d) ==
    LET n == node[d]
        did(outcome) == pc' = [pc EXCEPT ![d] = outcome]
    IN  /\ pc[d] = "claimed"
        /\ \/ /\ WalkedPast(Graph, store, n)
              /\ did("dead")
              /\ UNCHANGED <<awaiting, runs>>
           \/ /\ ~WalkedPast(Graph, store, n)
              /\ n \in Gates /\ ~Answered(n)
              /\ did("parked")
              /\ awaiting' = n            \* park
              /\ UNCHANGED runs
           \/ /\ ~WalkedPast(Graph, store, n)
              /\ n \in Gates => Answered(n)
              /\ did("ran") \/ (n \in MayFail /\ did("raised"))
              /\ runs' = [runs EXCEPT ![n] = @ + 1]
              /\ UNCHANGED awaiting
        /\ UNCHANGED <<store, node, loop, answers, history>>

PortsLit(n) == IF n \in Gates THEN {Decision(n)} ELSE choice[n]

\* The checkpoint of a node that ran, or that the engine walked past.
Checkpoint(d) ==
    /\ \/ pc[d] = "ran" /\ store' = Complete(store, node[d], PortsLit(node[d]))
       \/ pc[d] = "dead" /\ store' = Skip(store, node[d])
    /\ node' = [node EXCEPT ![d] = NoNode]
    /\ pc' = [pc EXCEPT ![d] = "node"]
    /\ UNCHANGED <<loop, gates, runs, history>>

\* A pause ends the call: the rest of the pass waits with the gate.
PauseTheRun(d) ==
    /\ pc[d] = "parked"
    /\ store' = Pause(store, node[d])
    /\ Return(d, "paused")
    /\ UNCHANGED <<passes, beheld, gates, runs, history>>

\* retryable: the claim is re-entered with the same token.
TryAgain(d) ==
    /\ pc[d] = "raised"
    /\ store[node[d]].attempts < TriesFor[node[d]]
    /\ CanClaim(store, node[d], Token(d))
    /\ store' = Claim(store, node[d], Token(d))
    /\ pc' = [pc EXCEPT ![d] = "claimed"]
    /\ UNCHANGED <<node, loop, gates, runs, history>>

FailTheRun(d) ==
    /\ pc[d] = "raised"
    /\ store[node[d]].attempts >= TriesFor[node[d]]
    /\ store' = Fail(store, node[d])
    /\ Return(d, "failed")
    /\ UNCHANGED <<passes, beheld, gates, runs, history>>

-----------------------------------------------------------------------------
(* The host *)

\* Submissions.record refuses an answer unless the run waits on that gate.
MayRecordAnywhere(n) == awaiting # NoNode     \* mistake
MayRecord(n) == awaiting = n

Record(n, decision) ==
    /\ MayRecord(n)
    /\ answers' = [m \in DOMAIN answers \cup {n} |-> IF m = n THEN decision ELSE answers[m]]
    /\ awaiting' = NoNode
    /\ UNCHANGED <<store, pc, node, loop, runs, history>>

\* A driver still at work on n: its row is not the host's to release.
InHand(n) == \E d \in Drivers : pc[d] \in Working /\ node[d] = n

\* The host releases a gate it has an answer for, or what a dead driver held.
ReleaseRow(n) ==
    /\ \/ store[n].status = "paused" /\ n \in DOMAIN answers
       \/ store[n].status = "claimed" /\ ~InHand(n)
    /\ store' = Release(store, n)
    /\ releases' = [releases EXCEPT ![n] = @ + 1]
    /\ UNCHANGED <<pc, node, loop, gates, choice, runs, crashes>>

\* A driver dies in the middle of a node: its row stays claimed.
Crash(d) ==
    /\ crashes < MaxCrashes
    /\ pc[d] \in Working
    /\ crashes' = crashes + 1
    /\ Return(d, "none")
    /\ UNCHANGED <<store, passes, beheld, gates, choice, runs, releases>>

-----------------------------------------------------------------------------
Init ==
    /\ store = [n \in Nodes |-> NoRow]
    /\ pc = [d \in Drivers |-> "idle"]
    /\ todo = [d \in Drivers |-> <<>>]
    /\ node = [d \in Drivers |-> NoNode]
    /\ passes = [d \in Drivers |-> 0]
    /\ result = [d \in Drivers |-> "none"]
    /\ answers = [n \in {} |-> "approved"]
    /\ awaiting = NoNode
    /\ choice \in {c \in [Nodes -> SUBSET Ports] : \A n \in Nodes : c[n] \in PortChoices[n]}
    /\ runs = [n \in Nodes |-> 0]
    /\ releases = [n \in Nodes |-> 0]
    /\ beheld = [d \in Drivers |-> {}]
    /\ crashes = 0

Drive(d) ==
    \/ Call(d) \/ Advance(d) \/ OutOfPasses(d) \/ ReturnAtTheEnd(d)
    \/ RunNext(d) \/ Execute(d) \/ Checkpoint(d)
    \/ PauseTheRun(d) \/ TryAgain(d) \/ FailTheRun(d)

Answer(n) == (\E decision \in Decisions : Record(n, decision)) \/ ReleaseRow(n)

Next ==
    \/ \E d \in Drivers : Drive(d) \/ Crash(d)
    \/ \E n \in Nodes : Answer(n)

Spec == Init /\ [][Next]_vars
-----------------------------------------------------------------------------
(* Properties *)

TypeOK ==
    /\ store \in [Nodes -> Row(Drivers, Ports \cup Decisions)]
    /\ pc \in [Drivers -> Working \cup {"idle", "node", "finish"}]
    /\ todo \in [Drivers -> Seq(Nodes)]
    /\ node \in [Drivers -> Nodes \cup {NoNode}]
    /\ passes \in [Drivers -> 0..MaxPasses]
    /\ result \in [Drivers -> Results]
    /\ DOMAIN answers \subseteq Gates /\ \A n \in DOMAIN answers : answers[n] \in Decisions
    /\ awaiting \in Gates \cup {NoNode}

\* Submissions.awaiting is "the node the run is currently parked on": whoever
\* is asked by a paused gate can answer it.  One slot serves every gate of the
\* run, and two drivers write it.
AskedCanAnswer ==
    \A g \in Gates : store[g].status = "paused" => g \in DOMAIN answers \/ awaiting = g

\* "A gate pauses because it IS a human node": what it completed with is the
\* answer recorded for it, whatever its input held, unless it opted in.
GatesFollowPeople ==
    \A g \in Gates :
        store[g].status = "completed" =>
            store[g].ports = {IF g \in DOMAIN answers THEN answers[g] ELSE PreFilled[g]}
                /\ (g \in DOMAIN answers \/ g \in AutoAnswer)

\* "A pause parks the RUN": under the serial default nothing is at work beside
\* a gate that waits for a person, whichever driver reached it.
NothingBesideAWaitingGate ==
    MaxConcurrent = 1 =>
        \A g \in Gates : store[g].status = "paused" => Held(store) = {g}

\* A call never reports more than the run reached: `ok` only when every node is
\* decided and none failed, `failed` only when one did.  Both stay true.
ResultsAreTrue ==
    /\ \A d \in Drivers :
          result[d] = "ok" => \A n \in Nodes : store[n].status \in {"completed", "skipped"}
    /\ \A d \in Drivers : result[d] = "failed" => Verdict # {}

\* Somebody other than call d has n's row: a gate waits for a person, another call is
\* at work on it, or a call that died left it claimed.
HeldElsewhere(d, n) ==
    \/ store[n].status = "paused"
    \/ /\ store[n].status = "claimed"
       /\ \/ \E e \in Drivers \ {d} : pc[e] \in Working /\ node[e] = n
          \/ crashes > 0 /\ ~InHand(n)

\* "The run is waiting on work held elsewhere": when a call returns this, it is so.
\* Nobody is at work on a row without holding it, and unless a call died nobody holds
\* one without being at work on it or waiting at a gate.
WaitingIsOnSomeone ==
    [][\A d \in Drivers :
          (pc[d] = "finish" /\ pc'[d] = "idle" /\ result'[d] = "waiting")
              => \E n \in Nodes : HeldElsewhere(d, n)]_vars

\* "At least one pass per node": no call runs out of passes.  "The run cannot
\* progress" may be false, but of a graph without a cycle a call says it only when
\* another step got between its last advance and its last reading of the store:
\* every row held at the advance has been settled since, or the host released one.
StuckOnlyIfOvertaken ==
    MaxPasses > Cardinality(Nodes) =>
        \A d \in Drivers : (pc[d] = "idle" /\ result[d] = "stuck") =>
            \/ \E n \in Nodes : releases[n] > 0
            \/ beheld[d] # {} /\ beheld[d] \subseteq Settled(store)

\* A row whose driver died is claimed again by nobody, however often the run is
\* driven: the work is not repeated behind the host's back.  Nor is it resumed, where
\* run_to_completion is said to resume "from the same place a crashed worker would":
\* the token of each node is fresh, so the row waits for a release.
WorkPerRelease ==
    \A n \in Nodes : runs[n] <= TriesFor[n] * (1 + releases[n])

\* A gate asks, and it does what it is told, by those it asked and nothing else.
PeopleDecide == AskedCanAnswer /\ GatesFollowPeople

\* What a call of run_to_completion reports: `ok` and `failed` are so and stay so,
\* `waiting` is so when it is said, and `stuck` can be overtaken in one way only.
ReportsAreTrue ==
    /\ [](TypeOK /\ ResultsAreTrue /\ StuckOnlyIfOvertaken)
    /\ WaitingIsOnSomeone
=============================================================================
