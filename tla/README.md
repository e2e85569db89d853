# fancy-flow-py: a verification development

TLA+ models of the flow engine in `src/src/fancy_flow`, checked with TLC and, for the
two durable drivers, the frontier, the engine, the terminals, nested runs and the
registries, proved with TLAPS.
Paths below are relative to `src/src/fancy_flow` unless they begin with `README` or
`tests`.

## 1. The system

A *flow graph* has nodes of registered kinds and edges between their ports. A node
runs once its sources are decided and at least one edge into it was *lit*: its
source completed and published on the edge's port. A node none of whose edges is
lit is skipped, and so is everything reachable only through it. Two drivers run a
graph: `FlowRunner` (one process, one walk in topological order) and
`Coordinator` (*durable*: one checkpoint per node in a claim store, driven by any
number of queue workers).

| Component | State | Operations | Hard parts |
|---|---|---|---|
| `durable/state.py` claim store | one row per node: status, owner token, attempts, ports | `claim`, `state`, `complete`, `skip`, `fail`, `pause`, `release`, each under a lock | re-entry of one's own claim; skip must not touch a settled row |
| `durable/frontier.py` | none | `compute`, `settle_skips`, `is_complete`, `has_work_in_flight` | a fixpoint over any declaration order; the cascade is written row by row |
| `durable/dispatch.py` | none | `select_dispatch` | counts held rows, not queued jobs |
| `durable/retry.py` | policy | `tries_for` | unsafe-to-replay beats everything |
| `durable/replay.py` | none | `replay_up_to` | fences every node but one, republishes the rest |
| `durable/coordinator.py` | none of its own: the store | `advance`, `run_node`, `run_to_completion` | several store calls per operation, any caller at any time, crashes between them |
| `durable/human.py` | recorded answers, one `awaiting` slot | `record`, `park`, the two gate executors | resumption races, one slot for all gates |
| `engine/runner.py` | a walk: order, outputs, port values, errors | `_topo_sort`, `_walk`, `_publish`, `_collect_inputs` | cycle test, resumption, entry nodes, failure and teardown |
| `engine/diagnostics.py` | none | `undelivered_edge_warnings` | walk and coordinator must report the same edges once |
| `engine/runner.py`, `registry/port_resolution.py`, `runtime/ports.py` | none | `_activated_ports`, `possible_ports`, `Port` | one edge answered for by three files |
| `schema/graph.py`, `workflow.py`, `analysis/graph_connectivity.py`, `security/policy.py` | documents | import, migration, checks, export | what a check says of an edge against what a run does with it |
| `registry/*` | registered kinds | register, unregister, lookup by any spelling, `never_executes` | aliases, kinds nobody registered, an empty registry |
| `executors.py` | bindings by kind, by node, a fallback | `bind`, `bind_node`, `fork`, `resolve_for` | precedence over aliases; bound before the kind is installed |
| `capabilities`, `discovery.py` | installed services, loaded packages | `set_*`, `unregister`, `status`, `load_installed_kinds` | a handle used late; a package that fails midway |
| `runtime/terminal.py`, `nodes/terminal.py` | open sessions, transcripts, exit watchers | lazy open, `wait_for`, `close`, `close_all` | answer, exit and timeout together; close on every path |
| `nodes/structural.py`, `nodes/logic.py` | none | subgraph, subflow, `for_each` | nested runs, depth, a fence or a pause inside |
| `runtime/identity.py`, `pause.py`, `abort.py` | run key, attempt, clock | step keys, `is_replay_safe`, encoding of a pause | the key must not move between attempts, nor two steps share one |
| `nodes/*` (the rest), `nodes/support/*` | none | executors | what a kind declares against what its executor does |
| `runtime/workflow_props.py`, `marketplace` | none | checks of a document | not modelled |

How they interact: a worker takes a job for a node, calls `run_node` (claim the row,
read the checkpoints, replay the graph with every other node fenced, write one
checkpoint) and, when the node settled, `advance` (read the rows, compute the
frontier, write the skips, read again, choose what fits the budget); the ids
`advance` returns become jobs. `run_to_completion` is the same loop without a queue.
A node may itself run a graph, by a `FlowRunner` of its own, and report what that
reported. All shared state is the claim store. Nothing holds a
lock across two store calls, so every operation above is a sequence of atomic steps
that interleaves with every other caller's.

`PROJECT.json` lists under `hazards` what can go wrong here that a test would hardly
reach, each with its line and the properties about it.

What makes the components correct:

* claim store: a row that is settled stays as it is; one owner at a time;
* frontier: the least set of skips, whatever the declaration order; agreement with
  the engine on every branch; half a cascade changes nothing;
* coordinator: no node runs twice at once; decisions follow their sources; nothing
  is started that no edge lit; budget, order and attempts as configured; a run ends;
* gates: nothing behind an unanswered gate starts;
* engine: topological order, cycles refused, exactly the reached nodes run;
* terminals: every session opened is closed; the wait that is answered is told so;
* nested runs: as deep as allowed, each step with a key of its own that survives
  retries, a pause inside is a pause outside;
* registries: one meaning for all spellings of an id, whatever the order of calls;
* documents and kinds: what a check, a diagnostic or a declaration says of a node or an
  edge is true of every run.

## 2. Modules

| Module | Models | Source |
|---|---|---|
| `FlowGraph` | graphs, reachability, "which nodes run" as a reference definition | `schema/graph.py`, `workflow.py` |
| `ClaimStore` | the rows and every store operation | `durable/state.py` |
| `Frontier` | skips and ready nodes as least fixpoints, the order of `ready`, the budget | `durable/frontier.py`, `durable/dispatch.py` |
| `FrontierCheck` | the loop of `compute`, `settle_skips` one row at a time | `durable/frontier.py` |
| `FlowRun` | the abstract run: pending, running, decided | the rule of the walk |
| `Durable` | workers, host, queue, gates and crashes around one store | `durable/coordinator.py`, `retry.py`, `human.py` |
| `DurableProofs` | theorems about `Durable`: types, claims, decisions, attempts, diagnostics, gates, order, the refinement of `FlowRun` | |
| `FrontierProofs` | lemmas about graphs and frontiers, for any store | |
| `FrontierCheckProofs` | theorems about `FrontierCheck`: the loop computes the frontier | |
| `Engine` | `_topo_sort` visit by visit, then the walk node by node; whole runs and fenced replays | `engine/runner.py`, `durable/replay.py` |
| `EngineProofs` | theorems about `Engine` | |
| `Transcript` | terminal output: escape sequences, chunks, the two caps, taking a match | `runtime/terminal.py` |
| `Terminals` | a run over terminal nodes: lanes, sessions, `wait_for`, closing; processes, timers, an abort | `runtime/terminal.py`, `nodes/terminal.py`, `engine/runner.py` |
| `TerminalsProofs` | theorems about `Terminals` | |
| `RunLoop` | `run_to_completion`, several at once, with gates and their answers | `durable/coordinator.py`, `durable/human.py` |
| `RunLoopProofs` | theorems about `RunLoop` | |
| `Identity` | step keys, `is_replay_safe`, what a pause is | `runtime/identity.py`, `runtime/pause.py` |
| `Nested` | one durable node and the graphs inside it, attempt after attempt | `nodes/structural.py`, `nodes/logic.py`, `durable/coordinator.py` |
| `NestedProofs` | theorems about `Nested` | |
| `Registry` | kind ids, catalogue, executor bindings, as operators on records | `registry/*`, `executors.py` |
| `Host` | a host's calls on the registries, a discovery pass, the services | `discovery.py`, `capabilities`, `executors.py` |
| `HostProofs` | theorems about `Host` | |
| `Values` | values, templates, truthiness, the routing results | `nodes/support/expr.py`, `runtime/ports.py` |
| `Catalogue` | the table of shipped kinds | `registry/builtin.py` |
| `Executors` | what each shipped executor returns | `nodes/*` |
| `Ports` | ports lit, ports possible, inputs collected, edges reported | `engine/runner.py`, `registry/port_resolution.py`, `engine/diagnostics.py` |
| `Documents` | import, migration, export, connectivity, policy | `workflow.py`, `analysis`, `security/policy.py` |
| `Authoring` | a document's life: loaded, run, saved, loaded again | `workflow.py`, `engine/runner.py` |
| `MC...` | the small instances, one for each of the modules with a run | |

`Frontier` extends `FlowGraph` and `ClaimStore`; `Durable`, `RunLoop` and `Engine` extend
`Frontier`; `Durable` instantiates `FlowRun` under a refinement mapping; `Terminals`
extends `Transcript`, `Nested` extends `Identity`, `Host` extends `Registry`, and
`Values`, `Catalogue`, `Executors`, `Ports`, `Documents`, `Authoring` extend each other
in this order. Every proof module extends the module it is about, and those of the two
durable drivers, of the frontier and of the engine extend `FrontierProofs` too.

Recursion is written as recursive functions, and list comprehensions as functions over
the indices they keep (`ElementsAt` in `Engine`, where `SelectSeq` would take an
operator that no prover reasons about), so that the definitions TLC evaluates are the
ones the theorems are about.
Operators marked `\* mistake` are wrong variants of the operator that follows them,
kept to show that the properties notice such a mistake.

### State and actions of `Durable`

`store` is the claim store. `jobs` is the queue, a set, so jobs come in any order.
`pc`, `task` and `view` are what an actor inside `run_node` or `advance` has in its
local variables. `answered` is `Submissions._answers`. `choice` fixes, before the
run, which ports each executor lights: executors are functions of their inputs, and a
retry lights what the attempt before it would have. `runs` and `reported` are history.

| Action | Code |
|---|---|
| `Take`, `LoseRace` | `run_node` 185-187: mint or reuse a token, `claim` |
| `Replay` | 189-211: read the row and the outputs, replay; walked past, parked, ran or raised |
| `CheckpointCompleted`, `CheckpointPaused`, `CheckpointSkipped`, `CheckpointFailed` | the one store write that ends `run_node` |
| `LeaveClaimedForRetry`, `RetryRunNode` | 248-255 and `_run_node_with_retries` |
| `ReadFrontier` | `advance` 167-168, and 176 when nothing is skipped |
| `SettleSkip` | one `store.skip` of `settle_skips` |
| `SelectAfterSkips` | 170-176: diagnostics, second reading, budget, with the *first* reading's ready list |
| `Dispatch` | the host's part: one job per id |
| `AnswerAndRelease`, `AnswerAndRedispatch` | the two ways the tests resume a gate (`tests/unit/test_durable.py` 688, 733) |
| `Crash`, `CrashInAdvance` | a worker dies; its job is delivered again |

`Replay` merges two readings of the store and the walk into one step. Whatever else
is written meanwhile does not change the walk's verdict on the target, because all
sources of the target are settled before it is claimed and settled rows are final
(theorems `InductiveInvariant`, `SettledIsForever`); run `engine` checks the
verdict over every store beside the target.

`SettleSkip` writes the cascade in any order in which a node follows its sources; the
loop's order is one of these (`CascadeSettlesSourcesFirst`).

### State and actions of `Terminals`

The walk is one coroutine, so its state is where it is (`at`), the node it is on and
what became of the others. `session`, `transcript` and `watcher` are `_open`,
`_transcripts` and `_exits` of `TerminalSessions`; `settled` and `timer` belong to
the current wait. `process` and `screen`, what a process has still to print, are
the host's. `heard` and `gone` are history.

| Action | Code |
|---|---|
| `StartNode`, `RaiseAborted`, `RunTimesOut` | the head of the loop in `_walk`, and a node outside every lane |
| `OpenTerminal`, `OpenFails` | `TerminalSessions.session` on first use |
| `Type`, `TypeFails` | `clear` and `write` of `terminal_run` and `terminal_send` |
| `MatchAtOnce`, `StartWait`, `Resume` | `wait_for`: the check before subscribing, the wait, what follows it |
| `Speak` | `append` by the host, with the `check` of a waiting node |
| `CloseTerminal`, `EndRun` | the loop behind the walk, `TerminalSessions.close` |
| `Die`, `WatcherEnds`, `TimerFires`, `Abort` | the process, `wait_exit`, the timer, the caller's signal |

Between two awaits of the walk any of the others may act. What a process printed may
arrive after it is known to have ended. A character is a class and a number; an
echo, an exit marker and a prompt are one character each, so a cut through a word is
not modelled, a cut through an escape sequence is. `Resume` leaves out the second
`check()` of `wait_for`: `append` runs the same function whenever text arrives, so
it finds nothing (conjunct `WaitMissesNothing` of the proved invariant). A host whose
`wait_exit` raises makes every later wait end at once as a timeout; the property
about truthful ends says so. `asyncio` cancellation is left out: it leaves
the walk as an abort does.

### State and actions of `RunLoop`

`store` is the claim store; `pc`, `todo`, `node`, `passes` and `result` are the local
variables and the return value of one call of `run_to_completion`; `answers` and
`awaiting` are the fields of `Submissions`. `runs`, `releases`, `crashes` are history,
and so is `beheld`, the rows that were held when a driver's call last advanced.

| Action | Code |
|---|---|
| `Call`, `Advance`, `OutOfPasses`, `ReturnAtTheEnd` | the loop of `run_to_completion`, and what it reports when nothing is ready |
| `RunNext`, `Execute`, `Checkpoint`, `TryAgain` | `_run_node_with_retries` around `run_node`, one claim under one token |
| `PauseTheRun`, `FailTheRun` | the two early returns |
| `Record`, `ReleaseRow` | the host: `Submissions.record`, `store.release` |
| `Crash` | the process dies in the middle of a node |

`advance` is one step here; `Durable` takes it apart. A driver's token is its name: it
has one node in hand at a time, and a row that a dead call left claimed is handed out
to nobody until it is released, so the name is as good as the fresh `uuid4` of the code.

### State and actions of `Nested`

`stack` holds the walks, the root's first; each has its graph, its place in it, its
identity path, depth, executors and node bindings. `result` is what the walk that just
ended reported to the one above. `row` is the claim of the root; `provider` is the
outside service that takes two sends with one key for one while it remembers it.
`used`, `fenced`, `heard` and `releases` are history.

| Action | Code |
|---|---|
| `Leaf`, `Gate` | an executor that sends under its step key; `DurableApproval` |
| `Subflow`, `Subgraph`, `ForEach` | the three structural executors up to the nested `FlowRunner` |
| `End`, `Return` | the end of a walk, and what the executor above makes of it |
| `Attempt`, `Settle`, `Crash` | `run_node`: claim and fence; the checkpoint; a death |
| `Release` | `store.release`, by a host: the next claim is a first attempt with a new clock |
| `Answer`, `Tick` | a person; the clock that `is_replay_safe` and the provider read |

A graph in `Nested` is a chain: branches, joins and dead edges are `Engine`'s. A
subgraph runs on the shipped executors alone, where a gate answers by itself and a
leaf bound by the host is unbound.

### State and actions of `Host`

`cat` is the kind registry, `bound` and `byNode` the shared executor registry and a
fork of it, `found` and `report` a discovery pass under way, `service` and `handles`
the capabilities. One action per call: `Install`, `InstallLibrary`, `Uninstall`, `Bind`,
`BindNode`, `Fork`, `Discover` and `Load` (one entry point), `SetService`, `CallHandle`,
`Reset`. A pass is not interrupted: it is one synchronous call. A kind id is a vendor
and a name; `kid.variants` and the registered aliases give its spellings.
A service may be installed again, as the same object; what `set_*` returns is told from
the others by the number of the call, and tells services apart by identity only. Packages
may install kinds of one name, under a vendor or not, and claim each other's aliases.
`wanted`, `starBound` and `latest` are history: `wanted` the installations neither replaced
nor taken back, `latest` is the executor last meant for a
shipped kind in a registry, and `NoExecutor` when nothing can be said of all spellings,
because the kind was bound under a former name while no catalogue knew that name.

`register` and `executors` of `registry/builtin.py` go through the table kind by kind.
They are written as one set and one function, since their order does not matter
(`LibraryAssumption`, `NamesAssumption`): `MCHost` compares both with the folds that go
through the table in order (`OneAfterTheOther`).

### State and actions of `Authoring`

`doc` is the stored document, `graph` and `issues` what the import gave, `run` the last
run, `warned` and `delivered` what all runs of this graph reported and delivered.
`Import` is `import_workflow`, perhaps behind `assert_safe`, for a strict or lenient host;
`Run` is a walk of the three nodes with the executors of `Executors`; `Save` is
`export_workflow`. The document has a node `s` of any shipped kind, a merge and an
output behind it, so that every kind, with the configurations that change its ports,
meets every edge it could have. A document may be flat, with its nodes beside the
version, and a node may have a `type` instead of a `kind`. An executor's store, tool or
person answers anything of the right type; what a model's or an HTTP client returns is
handed on as it is, fields missing or added (`given` in the run record).

A result is a plain value or a choice of ports by its look. `ChoosesByLook` says that
the executor of that kind does not choose and its result looks as if it did: a payload with a
text `branch`, say. Seeds, answers and completions include such payloads. What such a
run lights is modelled like any other, but it does not enter `warned` and `delivered`,
because what the code says of an edge is not true of it (section 6).

### Abstractions

Outputs, inputs, error texts, clocks, events other than skip diagnostics and the
wording of anything are left out: ports lit and statuses decide all control. A
resumed node republishes on the ports in its row, because `_activated_ports` is a
function of the node and its stored output. Kinds are represented by the sets
`notes`, `layout`, `Gates`, `UnsafeToReplay`. Graphs in `Durable` are acyclic and
their edges end at nodes; `Engine` also reads cyclic graphs and foreign ids.
An executor's output is drawn before the run there, not computed; `Authoring` computes
it. The `autoAnswerFromInput` option of a gate is in `RunLoop`. A text in `Values` is
opaque except for the few contents that decide something (empty, falsy, a template).

## 3. Runs

| Run | Question | Bounds | States |
|---|---|---|---|
| `frontier` | does the loop end, does it compute the fixpoint, and is half a cascade harmless? | 4 nodes, <= 3 edges, 2 ports, 2 declaration orders, a note or none, all reachable stores | 190k |
| `durable_serial` | budget, order, attempts under the default | 4 nodes with a join, 2 workers and a sweeping host, a retried and an unsafe node that may fail | 35k |
| `durable_gated` | exclusive execution, gates, refinement of `FlowRun`; does a run end? | gate, node behind it, lane, note; doubled jobs; a retry; one death; unlimited budget; fairness | 74k |
| `durable_crash` | decisions, finality, skip reports, agreement with the walk, through a crash | join declared before its branch, sweeping host, one death anywhere, a retry | 419k |
| `engine` | the sort; whole walks; fenced replays | all lists of <= 3 edges over 3 nodes and an id that is no node's, at either end; all acyclic graphs of <= 3 edges over 4 nodes, lane or not, entries, failure, stop; runs of such graphs resumed from any completed nodes whose sources are settled; the same graphs with every ready target and every store beside it | 360k |
| `terminals` | is output kept, are waits truthful, do they end, are terminals closed? | two lanes, four plans of at most 3 nodes, chunks of at most 3 characters, both caps at 3; any death, timeout, failure or abort | 92k |
| `runloop` | may the host act on what a call reports; who decides a gate; what is repeated? | two calls at once, a step that is tried twice and asks or not, a gate behind it with a decision on its input, a lane; one death | 499k |
| `host` | do all spellings mean one kind; is a fallback only ever explicit; is a discovery report true? | four calls in any order over three shipped kinds, one of them bound under its former name, two of the host's, three packages of which the later ones take the first one's name and alias, two executor registries, two services and none | 455k |
| `authoring` | is what import, diagnostics and kinds say of a document true of every run? | every shipped kind (64 drafts with their configurations), two edges on every pair of its ports, meeting or parting; 9 documents that are broken, flat or untyped; 9 inputs, 4 of them with the look of a choice of ports; 3 completions, 2 responses; one save | 196k |
| `nested` | depth, keys, fences, pauses, charges; does every attempt end? | 13 roots over 6 workflows (one calls itself), loops of up to 3 items, 2 tries, 3 attempts, one release, 3 clock values, 3 provider windows | 519k |

Runs that show a disagreement between code and documentation (section 6):
`durable_two_at_once`, `nested_pause`.

The properties of a run are conjunctions where several parts make one claim; the parts
are named definitions beside it (`FrontierIsSound`, `SortIsSound`, `WalkIsSound`,
`AttemptsAsConfigured`, `SkipDiagnosticsOnce`, `TranscriptsAreSound`, `ReportsAreTrue`,
`PeopleDecide`, `RegistriesAreSound`, `ImportIsTruthful`, `DeclarationsHold`,
`NestingIsSound`).

Why the bounds are enough to be interesting. A join with one live and one dead edge
needs a decision, a branch and the join (three nodes); a sibling beside them gives a
second job to interleave. A cascade with something left to write needs two skipped
nodes, which four nodes allow. Two workers and the host are three concurrent callers
of `advance`; two workers are enough for any two jobs to overlap, and theorem
`RunsAreExclusive` covers any number. Tokens bound the number of claims with fresh
tokens; there are more of them than jobs in these runs. `MaxCrashes` bounds deaths,
`Tries` and `PerKindTries` attempts; all other counters are bounded by these.

In `terminals` the longest escape sequence has four characters, so that it can be cut
everywhere and its beginnings just fit `MaxPending`; a lone escape character followed
by more output exceeds it. The outputs exceed `MaxBuffer`, so text is dropped. A
prompt printed when the process starts is a stale answer for the await after it.
Two nodes of a lane are needed to mistake one's answer for the other's, two lanes
for a second terminal that cannot open while the first is open.

In `runloop` two calls are what `Submissions.awaiting`, one slot, can be written by;
`MaxPasses` is one more than the nodes, and the code never allows fewer of itself. The
lane is declared last and hangs on the step, so that a call can find the gate skipped
while another drives the lane, which is when a call reports `stuck` of a run that
ends. In `host` four calls suffice to bind an executor before its
kind is installed, uninstall the kind, install another under its name and fork, to
install a service, another, the first again and call the first's unregister, or to load
all three packages. In
`authoring` two edges are needed for a live and a dead one to meet on one handle. In
`nested` ids contain the characters that keys are built with, siblings of the root are
named like nodes inside, and a workflow that calls itself is stopped by its limit of
2; a window of one tick, at three clock values, lets the provider forget between
attempts; the third attempt is one more than the policy gives, as after a crash; one release is
what it takes to be charged twice.
`MaxOps`, `MaxSaves`, `MaxAttempts`, `MaxReleases` and `MaxTime` bound calls, saves,
attempts, releases and the clock.

Deadlock is not checked, since in each of these runs the system may be finished;
`RunFinishes`, `WaitsEnd` and `AttemptsEnd` say where it may stop. Workers and drivers
are symmetric in the safety runs.

Fairness in `durable_gated` (for `RunFinishes`): weak fairness of each worker's
`RunNode`, of each `advance` in progress, of the host's sweep and of a person's answer.
Workers are processes that a supervisor restarts, so a step that stays possible is
taken; a sweep is needed because a worker that dies between its checkpoint and its
`advance` leaves nobody to hand out what it unblocked, and the answer is needed because
a gate waits for one. No fairness is assumed of crashes, doubled jobs, or of which port
is lit.

Fairness in `terminals` (for `WaitsEnd`): the event loop resumes the walk, timers fire,
`wait_exit` returns once the process ended. Nothing is assumed of processes: they need
not answer and need not end.

Fairness in `nested` (for `AttemptsEnd`): a worker that is alive walks on. Nothing is
assumed of new attempts, deaths, answers or the clock.

## 4. Proofs

Seven state machines have theorems: `Durable`, `RunLoop`, `FrontierCheck`, `Engine`,
`Terminals`, `Nested`, `Host`. Of the invariants and action properties that the passing
runs check, those of `Authoring` alone are stated by no theorem. Each theorem holds for every value of the constants the named assumptions of its module allow:
graphs of any size and shape, any number of workers or drivers, plans, workflows, kinds
and packages. `FrontierProofs` and the step lemmas are what they rest on; nothing is
assumed but the named assumptions.

### The durable driver

`DurableProofs` proves, for every well-formed acyclic graph, any sets of workers and tokens, any budget, policy, gates and number of crashes:

* `TypeCorrect` -- `Spec => []TypeOK`;
* `InductiveInvariant` -- `Spec => []InductiveInv`;
* `RunsAreExclusive` -- `Spec => []ExclusiveRun`;
* `DecisionsAreSound` -- `Spec => []DecidedAfterSources`;
* `SettledIsForever` -- `Spec => SettledForever`;
* `Implementation` -- `Spec => ImplementsFlowRun`: the driver refines the abstract run;
* `AttemptsFollowThePolicy` -- `Spec => [](crashes = 0 => AttemptsAsConfigured)`;
* `SkipsAreReportedOnce` -- `Spec => []SkipDiagnosticsOnce`;
* `GatesHold` -- `Spec => []NothingPassesAnOpenGate`;
* `DecidesAsTheWalk` -- `Spec => []SameDecisionsAsTheWalk`;
* `OneNodeAtATime` -- `Spec => [](Serial => HeldWithinBudget)`;
* `RunsInDeclarationOrder` -- `Spec => [](Serial => DeclarationOrder)`.

The assumptions are those of `Durable`: the graph is well-formed and acyclic, the host is
no worker, `NoOwner` no token, gates are nodes, the numbers natural.

`ExclusiveRun` and `DecidedAfterSources` are not inductive: a claim is safe because of
what the job that led to it promised, and a skip because of what the reading it was
decided on still says. `InductiveInv` adds these promises:

* `HandedOutSoundly` -- every job, every running task and every id an `advance`
  is about to return has settled sources and a lit edge (or none); every node of a
  stale ready list would have, once the skips of the same reading are written;
* `PendingSkipsStand` -- a skip not yet written is still right: nobody started it;
* `TokensNotShared` -- no queued job carries the token of a worker still inside
  `run_node`, so a claim is never re-entered beside its owner;
* `OnlyCompletedLights`, `OnlyLanesWalkedPast` -- what a row without output and a
  replay that walked past may be.

All of them survive because settled rows are final (`StepStore`): a lit edge stays
lit (`LiveStays`), a node whose sources can no longer complete stays dead
(`DeadStays`). The frontier enters through three lemmas about its definition as a
least fixpoint (`SkipsClosed`, `SkipsFixed`, `ReadySound`), which need the graph
well-formed and not acyclic.

`Implementation` is the step simulation: a step of a worker, the host or a person maps
to one step of `FlowRun` on the node whose row it writes, or to a stutter, and
`InductiveInv` gives the guard of that step: the sources of a node that starts are
decided and an edge into it is lit, of a node that is skipped none is or can be
(`RunNodeImplements`, `StepImplements`).

The theorems that count have an invariant of their own. `Counts` relates four numbers:
claims in the row (`attempts`), work in the history, the policy, and where the worker
that holds the row is. It is stated for runs in which no worker has died, because
after a death a row's work is repeated, and then the policy is exceeded (section 6).
`TellsInv` says that the skips an `advance` has yet to tell are told by no other.
`GatesInv` needs that a worker past its replay is at no open gate; what lies behind a
gate is reached by a path, and a node with a row has its sources settled
(`DecidedAfterSources`), so the first row behind the gate would be a contradiction.

`DecidesAsTheWalk` compares with the set `RunsIn`, a least fixpoint over the whole graph.
Rows agree with it because a first node on which they differ does not exist
(`FirstOfASet`: every set of nodes of an acyclic graph has one without a predecessor
in the set); here acyclicity is needed.

`Serial` is `MaxConcurrent = 1` on a graph whose edges go forward in its declaration.
Both hypotheses are needed: `durable_two_at_once` shows the budget of two exceeded, and
section 6 what an edge that goes backward does. The argument does not count rows. A node
is *due* when everything declared before it is settled and no skip is outstanding; at
most one unsettled node is due, and `NamesTheNodeDue` says that every row held, every
job, every id about to be returned and the first of every stale ready list names that
node or a settled one. A node due stays due until it is settled, whatever is written
(`FrontierProofs`); so the race on the count of the held rows, which `advance` does not
exclude, hands out one node twice and never two nodes.

### `run_to_completion`

`RunLoopProofs` proves, for every such graph, any number of calls at once, any policy,
gates, answers and crashes:

* `CallsTellTheTruth` -- `Spec => ReportsAreTrue`;
* `WorkIsPaidFor` -- `Spec => []WorkPerRelease`;
* `PeopleAreFollowed` -- `Spec => []GatesFollowPeople`;
* `PeopleCanAnswer` -- `Spec => [](Serial => PeopleDecide)`;
* `PauseParksTheRun` -- `Spec => [](DeclaredTopologically(Graph) => NothingBesideAWaitingGate)`.

The assumption is `LoopAssumption`. The invariant has six parts. `HoldersInv`: unless a call
has died, whoever is at work on a claimed row is there; with `OwnInv` this makes every
held row that a call reads before it returns `waiting` somebody else's. `OwnInv`: a driver
holds the row it is at and none of those left in its pass. `GatesInv`: the one slot
names a gate without an answer, and a completed gate has the ports of its answer.
`WorkInv`: work done is at most what the attempts of this claim and the releases before
it pay for. `PassInv`: a call has more passes left than there are rows nobody claimed
outside its own list, so it never runs out of them, and when it found nothing to hand
out, other calls held rows. `SerialInv`, under the serial default: every row held and
every node left in a pass is settled or due, as above, and the slot names the gate that
waits. With room for two gates the slot serves one of them, so `PeopleDecide` is stated
for the serial default only.

### The frontier

`FrontierCheckProofs` proves, for every imported acyclic graph, in whatever order its
nodes are declared, and every reachable store:

* `TheFrontierIsAlwaysSound` -- `Spec => []FrontierIsSound`;
* `PersistingAlwaysKeepsTheFrontier` -- `Spec => PersistingKeepsTheFrontier`.

The assumption is `GraphsAssumption`: the graphs are those an import lets through. The
invariant `GraphAndStore` says little, for the work is in the loop of `compute`, three
recursive functions nested in each other: passes over visits over the `changed` flag.
`FoundSoFar` says what the accumulator holds after any number of visits of any pass:
exactly the nodes of the frontier whose sources were decided by then. One visit keeps it
(`VisitKeeps`), hence a pass does and hence the loop does (`LoopHolds`), each by the
least visit or pass at which it would fail. That the loop ends within one pass more than
there are nodes is a count: a pass that changes something finds a node no pass found
before it, and there are not so many (`LoopStops`). So the result is the least fixpoint
of `Frontier`, listed once each, skips after the sources they depend on
(`TheLoopFindsTheFrontier`, `TheCascadeIsOrdered`), and writing one of them leaves the
rest of it as it was (`SkipKeepsTheRest`).

### The engine

`EngineProofs` proves:

* `SortIsAlwaysSound` -- `Spec => []SortIsSound`;
* `WalkIsAlwaysSound` -- `Spec => []WalkIsSound`;
* `ReplayAlwaysAgrees` -- `Spec => []ReplayAgreesWithFrontier`.

The assumption is `CallsAssumption`. The first holds for every list of
edges, with cycles and with ids that are no node's: the sort returns the nodes among
the ids `Orderable`, a least set, and fails when these are not as many as the nodes. That
this means a cycle is its last conjunct, for graphs whose edges join nodes. The other two are about imported graphs, as the
walk reads what a dangling edge would name (section 6); `WalkIsSound` is an implication
whose hypothesis every graph from `import_workflow` meets.

`SortInv`: the degree of an id counts the edges to it from nodes not yet ordered, an id is
in the queue or the order exactly when its degree is zero, once, and what is ordered has
its sources before it. So a graph the sort refuses has a cycle: every node left has a
source that is left, and in an acyclic graph no set of nodes is like that
(`FirstOfASet`, `OrdersAllIffAcyclic`). `WalkInv`: everything before the walk's place has the status that
the rule gives it (`Passed`), everything after it is idle, and what a node lit is a
function of its status and the call (`Published`, the stored ports of a resumed node). The
nodes that ran are then those of the reference definition, whatever was resumed; and the
one node of a replay that is not fenced ran exactly if the frontier would hand it out.

### Terminals

`TerminalsProofs` proves, for all plans, lanes, hosts and processes, however what they
print is cut into chunks:

* `TerminalsInvariant` -- `Spec => []TerminalsInv`;
* `AllTerminalsClosed` -- `Spec => []NoTerminalLeftOpen`;
* `WaitsAreTruthful` -- `Spec => WaitsEndTruthfully`;
* `TranscriptsAreAlwaysSound` -- `Spec => []TranscriptsAreSound`;
* `AnswersAreAlwaysOwn` -- `Spec => []AnswersAreOwn`.

`TerminalsInv` says that a started node has a lane, that an unsettled wait has seen all
text there is (so a wait that ends otherwise throws no answer away), that a watcher
reports only real exits, and that a closed lane has no watcher and no output.

The assumptions are `LanesAssumption`, `PlansAssumption`, `BoundsAssumption` and, for the
last two, `OutputAssumption`. Its first half, `CutSafely`, excepts the output for which
`append` keeps its promise only if the chunks happen to fall well: an OSC sequence (section
6), an escape that the output itself leaves unfinished, and a control sequence longer than
`_MAX_PENDING_ESCAPE`, which `append` gives up on purpose. Its second half, `PromptOnce`, is how
the model tells printed prompts apart: by what they were printed for. It allows one prompt
per answer, as a shell gives, and any number of other characters.

`TranscriptsInv` is the first invariant about text. For every lane there is a part `a` of
what was heard that has been stripped (`Accounts`): the rest is the tail, no escape of the
whole output, what is still to come included, crosses the cut behind `a` (`CleanCut`), and the text is
`Strip(a)` without its first `gone` characters. `Strip` at a clean cut is `Strip` of the two
parts (`StripSplits`), and where `append` cuts is clean whatever comes next
(`SafeLengthIsSafe`): a complete escape is behind the cut, an unfinished one before it. Both
rest on what the three alternatives of `_ANSI` look at (`EscapesOfAPrefix`,
`EscapesOfASuffix`). The recursive function in `Strip` is shown to have a solution (`StripSolves`) and
is then reasoned about by the last index at which a claim would fail.

`AnswersInv` is about what a lane *shows*: its text, its tail and what its process has yet to
print. Every step but two leaves the new text within the old one (`Within`, an injection
between indices): stripping, taking, dropping and clearing only remove. So a prompt taken
by a match is shown no more (`TakenAnswer`) and does not come back. The two are the opening of a
terminal and the typing of a command, which add a banner or an answer with prompts of numbers not seen
before (`OpenedShown`, `TypedShown`, with `Last`, the last node whose answer can have been printed). An exit
marker is told from other nodes' by its own number, and from the echo because the pattern wants
the digits.

### Nested runs

`NestedProofs` proves, for all workflows, limits, ids, loops, windows and policies:

* `NestingHolds` -- `Spec => []NestingIsSound`;
* `PausesTravel` -- `Spec => []PauseTravelsUp`;
* `KeysHold` -- `Spec => []KeysTellStepsApart`;
* `NobodyIsChargedTwice` -- `Spec => []ChargedOnce`.

`NestedAssumption` says that the other nodes of the run have ids of their own and that
numbers are natural; `GraphsAssumption` that a graph has no id twice, since one that
has does not sort (`engine/runner.py` 602), and that ids are texts.

`NestingIsSound` is nearly inductive: its proof adds that the stack and the identity
paths are sequences and that a walk has the fields of one. A step does one of
three things to the stack - it takes the top walk off, moves it on, or puts a child on
it - and each has a lemma (`PopSound`, `SwapSound`, `PushSound`). A fence is never met
because only the root's walk has bindings and its one node is not among them
(`NestedAssumption`); a pause is never held because a gate below a subgraph does not
ask, and nothing but a subgraph holds one (`RegistriesFollowNesting`,
`PauseIsOnItsWay`).

That a key tells its place is a fact about texts first. A set of texts is a `Code` when
none begins another, and what is written in a code is read back (`CodeIsRead`). The
escapes of `escape_segment` are a code (`EscapesAreACode`), so is every set of texts
closed by a mark they do not hold (`MarkedCode`): an escaped id holds neither "/" nor
"#", a number's text is its own (`DecimalTells`), hence a segment tells id and
occurrence (`RenderTells`) and a key tells path and node (`StepKeyTells`). The
recursions behind `FlattenSeq` and `decimal` are shown to have a solution
(`FlattenSolves`, `DecimalSolves`), each from the fact that a set of numbers without a
least one is empty (`NoLeast`). Then the walks: `Placed` says that position and path of
a walk are those of the walks around it, so equal paths from the one root lead through
equal graphs, where an id is one node (`KeyOfOnePlace`).

`Charged` adds what a first attempt needs, for a first attempt may send without asking:
every place it sent from is `Behind` it, at an earlier node or item of some walk on the
stack, and the leaf that is about to send is not (`TopIsAhead`). A later attempt sends
only within the window counted from the first claim, and no send under that claim is older
than it, so the provider still remembers the key (`SafeIsRemembered`). A release ends the
claim and starts the clock anew. So what counts are the keys that are `Spent`, charged as
often as the claims so far allow: a release leaves none, and what is said above of sends
is said of those that made a key so.

### Registries

`HostProofs` proves, for every library, host and list of packages:

* `HostInvariant` -- `Spec => []HostInv`;
* `OverridesReachEverySpelling` -- `Spec => []EverySpellingOverridden`;
* `ShippedKindsRun` -- `Spec => []WalkedPastOrRuns`;
* `RegistriesStaySound` -- `Spec => []RegistriesAreSound`;
* `DiscoveryTellsTheTruth` -- `Spec => DiscoveryIsTruthful`.

`LibraryAssumption` and `ExecutorsAssumption` say what the table of literals in
`registry/builtin.py` keeps to: two shipped kinds share no bare name, and those without
an executor are walked past, `agent` aside. `NamesAssumption` says that hosts and packages
use no shipped name, with a vendor or without, nor does a document put a vendor of its own
before one (section 6 has what happens if one does), and that no package's kind is called
`*`. Packages may share kinds, names and aliases with each other. `Sound` says what a catalogue
may hold; `BindingsInv` that all ids of a shipped kind are bound, and to the executor
meant last unless that is unsaid; `PassInv` what a package that loaded was promised
while its pass goes on: each id of it runs it or a package after it that loaded and has the
name (`TakesOver`), for a pass goes through the list in order (`Passed`). `ServiceInv` says
that what is installed is what was installed last, or nothing if a callable of an earlier
installation of the same object was called. The lemmas that carry them are `ShippedBound` and
`OtherBound`: binding a shipped id binds all ids of its kind, whatever the catalogue
holds, but for a former name nobody knows; binding any other id binds no shipped one.

### Only model-checked

* Liveness (`RunFinishes`, `WaitsEnd`, `AttemptsEnd`), out of the prover's reach.
* `HeldWithinBudget` and `DeclarationOrder` for a budget above one or an order that
  disagrees with the edges, where they do not hold; `AttemptsAsConfigured` after a
  death, likewise.
* Everything about `Authoring`: its statements run over the table of shipped kinds and
  drafts of configurations for them that `MCAuthoring` enumerates. There is no constant
  to generalise over but the drafts, and a proof would go through the same table.

## 5. Not modelled

See `components` in `PROJECT.json`. In particular:

* workflow props (`runtime/workflow_props.py`), a substitution of names in a document
  before a run, and marketplace manifests, which no run reads;
* an import of JSON of the wrong shape (a text where an object belongs), the policy's
  limits on bytes, nesting depth and characters, and everything only an editor reads;
* event records, their order included, and the texts of errors and diagnostics;
* `to_dict` and `from_value` of the identity, the payload of a pause;
* structured outputs, HTTP and model clients, date parsing: an executor that calls out
  gets any answer of the right type, or an error;
* a queue that delivers a job again while its first attempt is still alive: the claim
  is made to let the same token in (`durable/state.py` 137), so two attempts would run
  at once, and preventing that is the queue's business;
* `close_all` and cancellation of the event loop, which leave a walk as an abort does.

## 6. Disagreements between code and documentation

With a run:

1. `durable_two_at_once`. A budget of two can be exceeded by the calls of the workers
   alone: an id handed out and not yet claimed is not counted.
2. `nested_pause`. A gate inside a subflow pauses naming itself; `run_node` takes a
   pause for one only if it names the job's own node (`durable/coordinator.py` 222), so
   the subflow node is tried again and then failed while a person is being asked. That
   is the outcome `nodes/structural.py` 212-219 passes the pause through to prevent.

Met while modelling, each visible in a definition of the model or in what a property
has to except:

* An unsafe-to-replay node gets a second execution when its worker dies before the
  checkpoint and the job comes back (`README.md` 69, `durable/coordinator.py` 284-285
  promise one attempt; 248 counts only failures that were seen).
* `run_to_completion` does not resume what a dead call was at. `README.md` 100-104 and
  `durable/coordinator.py` 28-31, 282-283 say that a crash resumes "from the same place a
  crashed worker would"; but a queue redelivers the dead worker's job with its token, and
  `_run_node_with_retries` mints a fresh one for each node (351), so the row that was in
  hand stays claimed by a token nobody has. A second call of `run_to_completion` returns
  "waiting on work held elsewhere" with nobody at work, and so does every later one, until
  the host releases the row, which is outside of the store's protocol
  (`durable/state.py` 199). `WorkPerRelease` states that nothing is run again without a
  release, and the last case of `HeldElsewhere` is this row.
* `_topo_sort` returns `None` "when a cycle is present" (`engine/runner.py` 579), but it
  compares how many ids were ordered with how many nodes there are (602), and ids that are
  no node's count. A dangling edge makes it return `None` without a cycle, or makes up for
  a node on a cycle, which is then left out of the order. `SortsTopologically` states what
  it does for any edges. `import_workflow` drops such edges; a graph built in code may
  have them.
* A service that is installed, replaced and installed again is cleared by the callable of
  its first installation, since `unregister` compares identities (`capabilities/__init__.py`
  233-236): "unregistering a REPLACED host does not clear the current one" (257-260) holds
  for distinct objects. `LateUnregisterIsHarmless` excepts an object `InstalledBefore`.
* A flat document, its nodes and edges not under `graph`, is read by `GraphPolicy.inspect`
  (`security/policy.py` 184-185) and admitted; `import_workflow` reads `graph` only
  (`workflow.py` 151) and imports an empty graph without an issue. A node with a `type`
  and no `kind` is judged by its `type` there (218) and unknown here (159), with an issue.
  `AdmittedIsImportedWhole` excepts the first.
* A run whose signal is aborted leaves its terminals open: the exception passes the
  loop that closes them (`engine/runner.py` 264, 407; `runtime/terminal.py` 263).
* An OSC sequence cut by a chunk boundary is not held back, since `]` counts as the
  second character of a two-character escape (`runtime/terminal.py` 66, 140).
* `Submissions.awaiting` is one slot (`durable/human.py` 56): with `max_concurrent`
  above one, two gates can be parked and only the later one be answered.
* `Submissions` is keyed by the node id alone: one answer serves every item of a loop
  and every child gate of that id. A subflow whose id is its child gate's parks by
  that accident.
* `bind` expands an id nobody registered if its bare name is a shipped one:
  `@acme/user_input` binds the spellings of `user_input` (`executors.py` 176, 181;
  61-63 says an unknown kind is bound literally).
* A router of a kind that is not registered publishes `true` and `false`, while
  `registry/port_resolution.py` 55 says it publishes exactly `out`; an untaken branch
  is then warned about as one that "will never work on any run"
  (`engine/diagnostics.py` 57-62). `WarnedEdgesNeverDeliver` is stated for `known`.
* A `switch_case` whose case port is no text, or empty, publishes it (`str`, or `out`),
  and `possible_ports` does not list it; `llm_router` strips the names of its routes
  only when it runs.
* A payload that happens to have a text `branch` or `__port`, or a `__ports`, routes the
  run (`engine/runner.py` 456-481): a trigger returns its inputs as they are
  (`nodes/trigger.py` 19), an `output` what arrives, a client its answer. Such a run
  delivers on an edge the wiring check refused because "nothing can ever travel this edge"
  (`analysis/graph_connectivity.py` 94; no data at run time "makes an edge out of a
  terminator deliver", 26-29), and on one an earlier run warned "will never work on any run"
  (`engine/diagnostics.py` 57-62); and it leaves other edges undelivered, which are then
  warned about although they deliver in runs of plain payloads. What a kind declares of
  its output does not arrive on the ports of such a run either. `WarnedEdgesNeverDeliver`,
  `RefusedEdgesNeverDeliver` and `DeclarationsHold` are stated for the other runs
  (`ChoosesByLook`).
* `llm_call` without a schema and `api_request` return what the client returned
  (`nodes/ai.py` 57-60, `nodes/io_.py` 39), so the declared `usage`, `raw`, `status`,
  `headers` and `body` are there if the client gave them; `registry/builtin.py` 1003-1005
  says so of the model only. `DeclaredFieldsArrive` holds them to what the client gave.
* `possible_ports` gives no port for an empty declaration; step 4 of its docstring
  says `out`.
* A subflow in mode `both` returns plain outputs, so `stream` is lit only if the node
  declares it (`nodes/structural.py` 228-233).
* An empty config is not exported, so it is reloaded as the config of a new node.
* A subgraph returns the outputs of a nested run that failed, and runs on the shipped
  executors and the default kinds, whatever its parent had.
* "The retry CLOCK, and it must never move" (`durable/state.py` 56): `release` drops the row
  (196-204), so the next claim is attempt 1 with a new `first_attempt_at`, `is_replay_safe`
  says yes of a key the provider may have forgotten, and it charges a second time. A release is
  how an answered gate may be resumed, and the only way on for a row whose worker is gone.
  `ChargedOnce` allows one charge more for each release.

* `run_to_completion` says "the run cannot progress" of a run that progresses: its
  `advance` found rows held by others, and when it looks again (`durable/coordinator.py`
  338, `durable/frontier.py` 130-134) they are settled and what they unblocked is not
  yet claimed. `StuckOnlyIfOvertaken` states that this is the only way.
* Binding a shipped kind under its former name (`llm_branch`) while the catalogue does
  not hold the kind reaches that spelling alone: `_alias_ids_for` looks the bare name up
  in an index of present names (`executors.py` 176), and its docstring has the two sides
  agree "by construction". `EverySpellingOverridden` excepts this.
* "A pause parks the RUN": with two drivers and a graph not declared sources first, two
  gates can be claimed one after the other although `max_concurrent` is 1, because the
  rows that the two calls find ready are not the same (`durable/dispatch.py` 75-98). TLC
  shows it on the graph declared `r`, `n`, `m`, `s` with gates `n` and `m` behind
  `r.out`, `s` behind `r.x` and an edge from `s` to `n`; so `NothingBesideAWaitingGate`
  is checked, and proved, for graphs declared sources first.

Beside these: `FrontierResult.ready` is not always in declaration order, as
`durable/dispatch.py` 88 has it; a node declared before a source that the same call
skips is found one pass later. It is when every edge goes forward in the document
(`ReadyInOrderWhenDeclaredTopologically`). Two `advance` calls, one before and one
after such a skip is written, then choose different first nodes, which is why
`HeldWithinBudget` and `DeclarationOrder` are checked under the serial budget on a
graph declared sources first.

## 7. Plan

Done, in this order, the concurrent core first: `FlowGraph`, `ClaimStore`, `Frontier`,
`FrontierCheck`, `FlowRun`, `Durable`, `DurableProofs`, `Engine`, `Transcript`,
`Terminals`, `TerminalsProofs`, `RunLoop`, `Registry`, `Host`, `Values`, `Catalogue`,
`Executors`, `Ports`, `Documents`, `Authoring`, `Identity`, `Nested`, `NestedProofs`.

Then the other safety properties of the durable driver (attempts, diagnostics, gates,
order, `Implementation`), those of `run_to_completion` (`RunLoopProofs`) and of the
registries (`HostProofs`), with `FrontierProofs` under them, and the step keys
(`NestedProofs`). Last the recursive definitions: the loop of `compute`
(`FrontierCheckProofs`), the sort and the walk (`EngineProofs`), and terminal output
(`TerminalsProofs`). An induction over data is within the provers' reach where a least
counterexample among the natural numbers can be named (`FirstOfASet`, `LoopHolds`,
`StripSolves`, `CodeIsRead`).

Left to model, if it is wanted: workflow props and the policy's size limits.
