------------------------------- MODULE Durable -------------------------------
(***************************************************************************)
(* One durable run: a Coordinator (durable/coordinator.py) called by       *)
(* several workers over one claim store, with a queue between them.        *)
(*                                                                         *)
(* A worker takes a job, calls run_node -- claim, replay fenced to the     *)
(* node, checkpoint -- and, when the node settled, calls advance and puts  *)
(* the ids it is handed on the queue.  Every call the coordinator makes on *)
(* the store is a step of its own, so all interleavings of run_node and    *)
(* advance calls between those are explored.  The host starts the run,     *)
(* calls advance whenever it likes, and resumes parked gates.              *)
(*                                                                         *)
(* The queue and the host are not in the repository.  They do what         *)
(* README.md and the docstrings of durable/ ask of them: one job per id    *)
(* handed out, advance again when a job settles, a retry with the owner    *)
(* token of the attempt before it.                                         *)
(***************************************************************************)
EXTENDS Frontier

CONSTANTS
    Graph,
    Workers,         \* the processes that take jobs
    Host,            \* the process that starts, sweeps and resumes the run
    Tokens,          \* the owner tokens uuid4 can return
    NoNode,
    MaxConcurrent,   \* Coordinator.max_concurrent
    Tries,           \* RetryPolicy.tries
    PerKindTries,    \* RetryPolicy.per_kind, by node instead of kind id
    UnsafeToReplay,  \* the nodes whose kind is unsafe-to-replay
    Gates,           \* the human gates
    MayFail,         \* the nodes whose executor may raise
    PortChoices,     \* PortChoices[n]: the sets of ports n's executor may light
    HostSweeps,      \* does the host call advance at any time?
    Duplicates,      \* may the queue hold two jobs for one node?
    MaxCrashes,      \* bound: how often a worker dies
    TokensSurvive    \* is a dead worker's job redelivered with its token?

Nodes == NodesOf(Graph)
Ports == UNION UNION {PortChoices[n] : n \in Nodes}
Actors == Workers \cup {Host}

ASSUME GraphAssumption == WellFormed(Graph) /\ Acyclic(Graph)

ASSUME ActorAssumption == Host \notin Workers

ASSUME TokenAssumption == NoOwner \notin Tokens

ASSUME GateAssumption == Gates \subseteq Nodes

ASSUME PolicyAssumption ==
    /\ MaxConcurrent \in Nat
    /\ Tries \in Nat
    /\ \A n \in DOMAIN PerKindTries : PerKindTries[n] \in Nat
    /\ MaxCrashes \in Nat
    /\ HostSweeps \in BOOLEAN
    /\ Duplicates \in BOOLEAN
    /\ TokensSurvive \in BOOLEAN

VARIABLES
    store,      \* the claim store
    jobs,       \* the queue: jobs in any order, each [node, owner]
    pc,         \* pc[a]: what actor a does next
    task,       \* task[a]: the node, token and attempt of a's run_node call
    view,       \* view[a]: what a's advance call computed from the state it read
    answered,   \* the gates with a recorded answer (Submissions._answers)
    choice,     \* choice[n]: the ports n's executor lights, drawn once
    runs,       \* history: how often n's executor did its work
    reported,   \* history: how often n's skip diagnostics were delivered
    crashes     \* how many workers died

vars == <<store, jobs, pc, task, view, answered, choice, runs, reported, crashes>>

Running == {"claimed", "ran", "raised", "parked", "dead", "retry"}
Advancing == {"settled", "skipping", "selecting", "dispatching"}

NoTask == [node |-> NoNode, owner |-> NoOwner, attempt |-> 0]
NoView == [skips |-> {}, ready |-> [n \in {} |-> 0], told |-> {}, batch |-> {}]

Job(n, o) == [node |-> n, owner |-> o]

-----------------------------------------------------------------------------
(* RetryPolicy.tries_for *)

AtLeastOne(k) == IF k < 1 THEN 1 ELSE k

TriesIgnoringSafety(n) ==       \* mistake
    IF n \in DOMAIN PerKindTries THEN AtLeastOne(PerKindTries[n]) ELSE AtLeastOne(Tries)

TriesFor(n) ==
    IF n \in UnsafeToReplay THEN 1
    ELSE IF n \in DOMAIN PerKindTries THEN AtLeastOne(PerKindTries[n])
    ELSE AtLeastOne(Tries)

-----------------------------------------------------------------------------
(* run_node *)

InUse ==
    {store[n].owner : n \in Nodes} \cup {j.owner : j \in jobs} \cup {task[w].owner : w \in Workers}

\* uuid4 returns a token nobody has.
FreshToken == CHOOSE o \in Tokens : o \notin InUse

TokenAsDelivered(j) == j.owner  \* mistake: no token minted
TokenFor(j) == IF j.owner = NoOwner THEN FreshToken ELSE j.owner

\* Two advance calls may hand out one node before either job is taken, so a job
\* that is taken may leave its double behind.
TakenFrom(j) == {jobs \ {j}} \cup IF Duplicates /\ j.owner = NoOwner THEN {jobs} ELSE {}

\* The claim is taken: the worker owns the row.
Take(w, j) ==
    /\ pc[w] = "idle"
    /\ j \in jobs
    /\ \E o \in Tokens : o \notin InUse
    /\ CanClaim(store, j.node, TokenFor(j))
    /\ store' = Claim(store, j.node, TokenFor(j))
    /\ jobs' \in TakenFrom(j)
    /\ task' = [task EXCEPT ![w] = [node |-> j.node, owner |-> TokenFor(j), attempt |-> 0]]
    /\ pc' = [pc EXCEPT ![w] = "claimed"]
    /\ UNCHANGED <<view, answered, choice, runs, reported, crashes>>

\* "not-claimed": another worker got there first, and this job is a no-op.
LoseRace(w, j) ==
    /\ pc[w] = "idle"
    /\ j \in jobs
    /\ \E o \in Tokens : o \notin InUse
    /\ ~CanClaim(store, j.node, TokenFor(j))
    /\ jobs' = jobs \ {j}
    /\ UNCHANGED <<store, pc, task, view, answered, choice, runs, reported, crashes>>

\* The replay resumes the completed nodes and fences every other one, so the
\* target runs unless the engine walks past it: its kind never executes, or no
\* edge into it is lit by a completed source.
EngineWalksPast(n) == WalkedPast(Graph, store, n)

\* A gate without a recorded answer pauses.
ParksWhenAnswered(n) == n \in Gates \cap answered   \* mistake
Parks(n) == n \in Gates \ answered

\* The row is read for the attempt number, the completed outputs are read, and
\* the replay runs the executor, or not.
Replay(w) ==
    LET n == task[w].node
        did(outcome) == pc' = [pc EXCEPT ![w] = outcome]
    IN  /\ pc[w] = "claimed"
        /\ task' = [task EXCEPT ![w].attempt = store[n].attempts]
        /\ \/ /\ EngineWalksPast(n)
              /\ did("dead")
              /\ UNCHANGED runs
           \/ /\ ~EngineWalksPast(n)
              /\ Parks(n)
              /\ did("parked")
              /\ UNCHANGED runs
           \/ /\ ~EngineWalksPast(n)
              /\ ~Parks(n)
              /\ did("ran") \/ (n \in MayFail /\ did("raised"))
              /\ runs' = [runs EXCEPT ![n] = @ + 1]
        /\ UNCHANGED <<store, jobs, view, answered, choice, reported, crashes>>

\* The store writes that end run_node.  A settled node makes the worker call
\* advance; a paused one leaves the worker free.
CheckpointCompleted(w) ==
    /\ pc[w] = "ran"
    /\ store' = Complete(store, task[w].node, choice[task[w].node])
    /\ pc' = [pc EXCEPT ![w] = "settled"]
    /\ task' = [task EXCEPT ![w] = NoTask]
    /\ UNCHANGED <<jobs, view, answered, choice, runs, reported, crashes>>

CheckpointPaused(w) ==
    /\ pc[w] = "parked"
    /\ store' = Pause(store, task[w].node)
    /\ pc' = [pc EXCEPT ![w] = "idle"]
    /\ task' = [task EXCEPT ![w] = NoTask]
    /\ UNCHANGED <<jobs, view, answered, choice, runs, reported, crashes>>

CheckpointSkipped(w) ==
    /\ pc[w] = "dead"
    /\ store' = Skip(store, task[w].node)
    /\ pc' = [pc EXCEPT ![w] = "settled"]
    /\ task' = [task EXCEPT ![w] = NoTask]
    /\ UNCHANGED <<jobs, view, answered, choice, runs, reported, crashes>>

\* retryable: the row stays claimed, and the same token comes back for it.
AnotherTryOneShort(w) == task[w].attempt + 1 < TriesFor(task[w].node)    \* mistake
AnotherTry(w) == task[w].attempt < TriesFor(task[w].node)

LeaveClaimedForRetry(w) ==
    /\ pc[w] = "raised"
    /\ AnotherTry(w)
    /\ pc' = [pc EXCEPT ![w] = "retry"]
    /\ UNCHANGED <<store, jobs, task, view, answered, choice, runs, reported, crashes>>

CheckpointFailed(w) ==
    /\ pc[w] = "raised"
    /\ ~AnotherTry(w)
    /\ store' = Fail(store, task[w].node)
    /\ pc' = [pc EXCEPT ![w] = "settled"]
    /\ task' = [task EXCEPT ![w] = NoTask]
    /\ UNCHANGED <<jobs, view, answered, choice, runs, reported, crashes>>

\* run_node again with the owner of the attempt before: the claim re-enters.
RetryRunNode(w) ==
    /\ pc[w] = "retry"
    /\ CanClaim(store, task[w].node, task[w].owner)
    /\ store' = Claim(store, task[w].node, task[w].owner)
    /\ pc' = [pc EXCEPT ![w] = "claimed"]
    /\ UNCHANGED <<jobs, task, view, answered, choice, runs, reported, crashes>>

-----------------------------------------------------------------------------
(* advance *)

HandOut(a, ready) ==
    LET batch == SelectDispatch(ready, Cardinality(Held(store)), MaxConcurrent)
    IN  /\ view' = [view EXCEPT ![a] = [NoView EXCEPT !.batch = batch]]
        /\ pc' = [pc EXCEPT ![a] = "dispatching"]

\* The host calls advance to start the run, and later if it sweeps.
MayAdvance(a) ==
    \/ pc[a] = "settled"
    \/ /\ a = Host
       /\ pc[a] = "idle"
       /\ HostSweeps \/ \A n \in Nodes : store[n] = NoRow

\* The state is read and the frontier computed from it.  With nothing to skip
\* the same state decides what is handed out.
ReadFrontier(a) ==
    /\ MayAdvance(a)
    /\ \/ /\ Skips(Graph, store) = {}
          /\ HandOut(a, ReadyIndex(Graph, store))
       \/ /\ Skips(Graph, store) # {}
          /\ view' = [view EXCEPT ![a] = [skips |-> Skips(Graph, store),
                                          ready |-> ReadyIndex(Graph, store),
                                          told |-> {}, batch |-> {}]]
          /\ pc' = [pc EXCEPT ![a] = "skipping"]
    /\ UNCHANGED <<store, jobs, task, answered, choice, runs, reported, crashes>>

\* settle_skips writes the cascade row by row.  The order here is any in which
\* a node follows its sources; that of the loop is one such.
SettleSkip(a, n) ==
    /\ pc[a] = "skipping"
    /\ n \in view[a].skips
    /\ Sources(Graph, n) \cap view[a].skips = {}
    /\ store' = Skip(store, n)
    /\ view' = [view EXCEPT ![a] =
                    [skips |-> view[a].skips \ {n},
                     ready |-> view[a].ready,
                     told |-> view[a].told \cup IF SkipsNow(store, n) THEN {n} ELSE {},
                     batch |-> {}]]
    /\ pc' = [pc EXCEPT ![a] = IF view[a].skips = {n} THEN "selecting" ELSE "skipping"]
    /\ UNCHANGED <<jobs, task, answered, choice, runs, reported, crashes>>

\* The diagnostics of the nodes this call settled are delivered, the state is
\* read again, and the held rows are counted in it.  `ready` is what the first
\* read found.
SelectSilently(a) ==            \* mistake: the diagnostics are dropped
    /\ pc[a] = "selecting"
    /\ HandOut(a, view[a].ready)
    /\ UNCHANGED <<store, jobs, task, answered, choice, runs, reported, crashes>>

SelectAfterSkips(a) ==
    /\ pc[a] = "selecting"
    /\ reported' = [n \in Nodes |-> IF n \in view[a].told THEN reported[n] + 1 ELSE reported[n]]
    /\ HandOut(a, view[a].ready)
    /\ UNCHANGED <<store, jobs, task, answered, choice, runs, crashes>>

\* One job per id, each with an owner token of its own when it is delivered.
Dispatch(a) ==
    /\ pc[a] = "dispatching"
    /\ jobs' = jobs \cup {Job(n, NoOwner) : n \in view[a].batch}
    /\ view' = [view EXCEPT ![a] = NoView]
    /\ pc' = [pc EXCEPT ![a] = "idle"]
    /\ UNCHANGED <<store, task, answered, choice, runs, reported, crashes>>

-----------------------------------------------------------------------------
(* The host resumes a parked gate in one of the two ways it has. *)

AwaitingAnswer(n) == n \in Gates \ answered /\ store[n].status = "paused"

\* record the answer, release the row, and call advance.
AnswerAndRelease(n) ==
    /\ AwaitingAnswer(n)
    /\ pc[Host] = "idle"
    /\ answered' = answered \cup {n}
    /\ store' = Release(store, n)
    /\ pc' = [pc EXCEPT ![Host] = "settled"]
    /\ UNCHANGED <<jobs, task, view, choice, runs, reported, crashes>>

\* record the answer, and dispatch the paused job again with its own token.
AnswerAndRedispatch(n) ==
    /\ AwaitingAnswer(n)
    /\ answered' = answered \cup {n}
    /\ jobs' = jobs \cup {Job(n, store[n].owner)}
    /\ UNCHANGED <<store, pc, task, view, choice, runs, reported, crashes>>

\* A worker dies and its job is delivered again, as a job of its own or with
\* the token of the attempt that died.
Crash(w) ==
    /\ crashes < MaxCrashes
    /\ pc[w] \in Running
    /\ crashes' = crashes + 1
    /\ jobs' = jobs \cup {Job(task[w].node, IF TokensSurvive THEN task[w].owner ELSE NoOwner)}
    /\ pc' = [pc EXCEPT ![w] = "idle"]
    /\ task' = [task EXCEPT ![w] = NoTask]
    /\ UNCHANGED <<store, view, answered, choice, runs, reported>>

\* Dying inside advance, after the checkpoint, loses the rest of the call.
CrashInAdvance(w) ==
    /\ crashes < MaxCrashes
    /\ pc[w] \in Advancing
    /\ crashes' = crashes + 1
    /\ pc' = [pc EXCEPT ![w] = "idle"]
    /\ view' = [view EXCEPT ![w] = NoView]
    /\ UNCHANGED <<store, jobs, task, answered, choice, runs, reported>>

-----------------------------------------------------------------------------
Init ==
    /\ store = [n \in Nodes |-> NoRow]
    /\ jobs = {}
    /\ pc = [a \in Actors |-> "idle"]
    /\ task = [a \in Actors |-> NoTask]
    /\ view = [a \in Actors |-> NoView]
    /\ answered = {}
    /\ choice \in {c \in [Nodes -> SUBSET Ports] : \A n \in Nodes : c[n] \in PortChoices[n]}
    /\ runs = [n \in Nodes |-> 0]
    /\ reported = [n \in Nodes |-> 0]
    /\ crashes = 0

RunNode(w) ==
    \/ \E j \in jobs : Take(w, j) \/ LoseRace(w, j)
    \/ Replay(w)
    \/ CheckpointCompleted(w) \/ CheckpointPaused(w)
    \/ CheckpointSkipped(w) \/ CheckpointFailed(w)
    \/ LeaveClaimedForRetry(w) \/ RetryRunNode(w)

AdvanceCall(a) ==
    \/ ReadFrontier(a)
    \/ \E n \in Nodes : SettleSkip(a, n)
    \/ SelectAfterSkips(a)
    \/ Dispatch(a)

Answer(n) == AnswerAndRelease(n) \/ AnswerAndRedispatch(n)

Next ==
    \/ \E w \in Workers : RunNode(w) \/ Crash(w) \/ CrashInAdvance(w)
    \/ \E a \in Actors : AdvanceCall(a)
    \/ \E n \in Nodes : Answer(n)

Spec == Init /\ [][Next]_vars

\* Workers and host keep going, and a person answers in the end.
Fairness ==
    /\ \A w \in Workers : WF_vars(RunNode(w))
    /\ \A a \in Actors : WF_vars(AdvanceCall(a))
    /\ \A n \in Nodes : WF_vars(Answer(n))

FairSpec == Spec /\ Fairness
-----------------------------------------------------------------------------
(* Properties *)

TaskRecord == [node : Nodes \cup {NoNode}, owner : Tokens \cup {NoOwner}, attempt : Nat]

IsView(v) ==
    \E ready \in SUBSET Nodes :
        v \in [skips : SUBSET Nodes, ready : [ready -> Nat], told : SUBSET Nodes, batch : SUBSET Nodes]

TypeOK ==
    /\ store \in [Nodes -> Row(Tokens, Ports)]
    /\ jobs \subseteq [node : Nodes, owner : Tokens \cup {NoOwner}]
    /\ pc \in [Actors -> Running \cup Advancing \cup {"idle"}]
    /\ task \in [Actors -> TaskRecord]
    /\ \A w \in Workers : pc[w] \in Running => task[w].node \in Nodes /\ task[w].owner \in Tokens
    /\ view = [a \in Actors |-> view[a]]
    /\ \A a \in Actors : IsView(view[a])
    /\ answered \subseteq Gates
    /\ choice \in [Nodes -> SUBSET Ports]
    /\ runs \in [Nodes -> Nat]
    /\ reported \in [Nodes -> Nat]
    /\ crashes \in Nat

\* Two workers never run one node: a worker inside run_node holds the claimed
\* row of its node under its own token, from the claim to the checkpoint,
\* whatever jobs the queue holds twice and whoever dies or resumes a gate.
ExclusiveRun ==
    /\ \A w \in Workers : pc[w] \in Running =>
          /\ store[task[w].node].status = "claimed"
          /\ store[task[w].node].owner = task[w].owner
    /\ \A v, w \in Workers :
          (pc[v] \in Running /\ pc[w] \in Running /\ task[v].node = task[w].node) => v = w

Started(n) == store[n].status \in {"claimed", "paused", "completed", "failed"}

\* Nothing bars n: it is no note, and some edge into it is lit or it has none.
Live(n) == n \notin Graph.notes /\ ~Dead(Graph, store, n)

\* The frontier and the engine agree on every branch: a node with a row has all
\* its sources settled; it was started only if an edge into it is lit (or it
\* has none), and skipped only if none is (or its kind never executes).  A
\* retry, a stale advance or a half-written cascade must not break it.
DecidedAfterSources ==
    \A n \in Nodes :
        /\ store[n].status # "none" => Sources(Graph, n) \subseteq Settled(store)
        /\ Started(n) => Live(n)
        /\ store[n].status = "skipped" => (~Live(n) \/ n \in Graph.layout)

\* A settled row is never written again: a completed output is not erased, and
\* a decision once made is not made differently by a stale caller.
SettledForever ==
    [][\A n \in Nodes : store[n].status \in SETTLED => store'[n] = store[n]]_vars

\* max_concurrent: "how many of this run's nodes may be held at once".
HeldWithinBudget ==
    MaxConcurrent # UNLIMITED => Cardinality(Held(store)) <= MaxConcurrent

\* Under the serial default a node starts only once everything declared before
\* it is settled: what runs, and in what order, is the same on every run.
DeclarationOrder ==
    \A n, m \in Nodes :
        (Started(m) /\ DeclaredBefore(Graph, n, m)) => store[n].status \in SETTLED

\* An executor does its work at most as often as the retry policy allows, an
\* unsafe-to-replay one once.
WorkWithinTries ==
    \A n \in Nodes : runs[n] <= TriesFor(n) /\ (n \in UnsafeToReplay => runs[n] <= 1)

\* A node is recorded failed only after its last attempt: settling it before
\* would skip everything downstream while a retry is still to come.
FailedOnlyWhenExhausted ==
    \A n \in Nodes \ Gates :
        store[n].status = "failed" => runs[n] = TriesFor(n)

\* Attempts are as configured: never one too many, never one too few.
AttemptsAsConfigured == WorkWithinTries /\ FailedOnlyWhenExhausted

\* However many callers reach one skip decision, its diagnostics are delivered
\* by the one that settled it, and never for a node that is not skipped.
SkipReportedOnce ==
    \A n \in Nodes :
        /\ reported[n] <= 1
        /\ reported[n] = 1 => store[n].status = "skipped"

\* And once no advance is under way, and none was cut short, the diagnostics of every node the frontier
\* skipped have been delivered (an executed layout node's come from its replay).
SkipsAllReported ==
    (crashes = 0 /\ \A a \in Actors : pc[a] = "idle")
        => \A n \in Nodes : (store[n].status = "skipped" /\ reported[n] = 0)
                => n \in Graph.layout \ Graph.notes

\* A skip is reported exactly once, by whichever caller settled it.
SkipDiagnosticsOnce == SkipReportedOnce /\ SkipsAllReported

\* A run without a failure decides every node as the engine's walk of the whole
\* graph does, whatever the interleaving: the same nodes run, the same are skipped.
SameDecisionsAsTheWalk ==
    (\A n \in Nodes : store[n].status # "failed")
        => \A n \in Settled(store) :
              (store[n].status = "completed") = (n \in RunsIn(Graph, choice, Nodes))

\* A gate completes only with a recorded answer, and nothing behind it starts or is
\* skipped before, by whatever branch it could be reached: unless the gate itself
\* was skipped, when there is nobody to wait for.
NothingPassesAnOpenGate ==
    \A g \in Gates \ answered :
        /\ store[g].status \notin {"completed", "failed"}
        /\ store[g].status # "skipped" =>
              \A n \in ReachedFrom(Graph, g) : store[n].status = "none"

-----------------------------------------------------------------------------
(* The inductive invariant behind ExclusiveRun, DecidedAfterSources,       *)
(* SettledForever and ImplementsFlowRun: what queued jobs, half-finished   *)
(* advance calls and workers may assume of the store they wrote or read.   *)

\* Whoever was handed n, a worker or a job, found its sources settled and one
\* of them lighting n; no later step takes that back.
MayStart(n) == Live(n) /\ Sources(Graph, n) \subseteq Settled(store)

HandedOutSoundly ==
    /\ \A j \in jobs : MayStart(j.node)
    /\ \A w \in Workers : pc[w] \in Running => MayStart(task[w].node)
    /\ \A a \in Actors :
          /\ \A n \in view[a].batch : MayStart(n)
          /\ \A n \in DOMAIN view[a].ready :
                Live(n) /\ Sources(Graph, n) \subseteq Settled(store) \cup view[a].skips

\* A skip decided but not yet written stays right: nobody starts the node
\* meanwhile, and no source of it completes.
PendingSkipsStand ==
    \A a \in Actors :
        /\ pc[a] # "skipping" => view[a].skips = {}
        /\ \A n \in view[a].skips :
              /\ store[n].status \in {"none", "skipped"}
              /\ ~Live(n)
              /\ Sources(Graph, n) \subseteq Settled(store) \cup view[a].skips

\* No job carries the token of a worker that is still inside run_node.
TokensNotShared ==
    \A j \in jobs, w \in Workers :
        pc[w] \in Running => Job(task[w].node, task[w].owner) # j

OnlyCompletedLights == \A n \in Nodes : store[n].status # "completed" => store[n].ports = {}

OnlyLanesWalkedPast == \A w \in Workers : pc[w] = "dead" => task[w].node \in Graph.layout

InductiveInv ==
    /\ TypeOK
    /\ ExclusiveRun
    /\ DecidedAfterSources
    /\ HandedOutSoundly
    /\ PendingSkipsStand
    /\ TokensNotShared
    /\ OnlyCompletedLights
    /\ OnlyLanesWalkedPast

-----------------------------------------------------------------------------
\* Detailed steps implement the abstract run: a claimed or paused row is a
\* running node, a missing row a pending one.
AbstractStatus ==
    [n \in Nodes |->
        CASE store[n].status = "none" -> "pending"
          [] store[n].status \in HELD -> "running"
          [] OTHER -> store[n].status]

Abstract == INSTANCE FlowRun WITH
    NoteNodes <- Graph.layout,
    status <- AbstractStatus,
    lit <- [n \in Nodes |-> store[n].ports]

ImplementsFlowRun == Abstract!Spec

\* Every node of the run is settled in the end.
RunFinishes == <>[]IsComplete(Graph, store)
=============================================================================
