---------------------------- MODULE DurableProofs ----------------------------
(***************************************************************************)
(* The safety theorems of Durable, for every well-formed acyclic graph,    *)
(* any workers, tokens, policy and budget, and however often workers die:  *)
(* first types, exclusion, decisions and the refinement of FlowRun, then   *)
(* what the driver counts, then the walk of the whole graph.               *)
(***************************************************************************)
EXTENDS Durable, FrontierProofs

StoreType == [Nodes -> Row(Tokens, Ports)]

-----------------------------------------------------------------------------
(* What the store operations do to a row, and that they leave the others. *)

LEMMA ClaimRow ==
    ASSUME NEW s \in StoreType, NEW n \in Nodes, NEW o \in Tokens, CanClaim(s, n, o)
    PROVE  /\ Claim(s, n, o) \in StoreType
           /\ \A m \in Nodes \ {n} : Claim(s, n, o)[m] = s[m]
           /\ Claim(s, n, o)[n].status = "claimed"
           /\ Claim(s, n, o)[n].owner = o
           /\ s[n].status # "completed"
           /\ Claim(s, n, o)[n].ports = s[n].ports
<1>1. s[n] \in Row(Tokens, Ports)
    BY DEF StoreType
<1>2. s[n].status # "completed"
    BY DEF CanClaim, OwnClaim, HELD
<1> QED
    BY <1>1, <1>2 DEF StoreType, Claim, Row, Statuses, HELD

LEMMA EntryRow ==
    ASSUME NEW row \in Row(Tokens, Ports)
    PROVE  /\ Entry(row) \in Row(Tokens, Ports)
           /\ Entry(row).owner = row.owner
BY DEF Entry, Row, Statuses, HELD, SETTLED

LEMMA CompleteRow ==
    ASSUME NEW s \in StoreType, NEW n \in Nodes, NEW P \in SUBSET Ports
    PROVE  /\ Complete(s, n, P) \in StoreType
           /\ \A m \in Nodes \ {n} : Complete(s, n, P)[m] = s[m]
           /\ Complete(s, n, P)[n].status = "completed"
           /\ Complete(s, n, P)[n].ports = P
<1>1. Entry(s[n]) \in Row(Tokens, Ports)
    BY EntryRow DEF StoreType
<1>2. [Entry(s[n]) EXCEPT !.status = "completed", !.ports = P] \in Row(Tokens, Ports)
    BY <1>1 DEF Row, Statuses, HELD, SETTLED
<1> QED
    BY <1>1, <1>2 DEF StoreType, Complete, Row

LEMMA FailRow ==
    ASSUME NEW s \in StoreType, NEW n \in Nodes
    PROVE  /\ Fail(s, n) \in StoreType
           /\ \A m \in Nodes \ {n} : Fail(s, n)[m] = s[m]
           /\ Fail(s, n)[n].status = "failed"
           /\ Fail(s, n)[n].ports = {}
<1>1. Entry(s[n]) \in Row(Tokens, Ports)
    BY EntryRow DEF StoreType
<1>2. [Entry(s[n]) EXCEPT !.status = "failed", !.ports = {}] \in Row(Tokens, Ports)
    BY <1>1 DEF Row, Statuses, HELD, SETTLED
<1> QED
    BY <1>1, <1>2 DEF StoreType, Fail, Row

LEMMA PauseRow ==
    ASSUME NEW s \in StoreType, NEW n \in Nodes
    PROVE  /\ Pause(s, n) \in StoreType
           /\ \A m \in Nodes \ {n} : Pause(s, n)[m] = s[m]
           /\ Pause(s, n)[n].status = "paused"
           /\ Pause(s, n)[n].ports = {}
<1>1. Entry(s[n]) \in Row(Tokens, Ports)
    BY EntryRow DEF StoreType
<1>2. [Entry(s[n]) EXCEPT !.status = "paused", !.ports = {}] \in Row(Tokens, Ports)
    BY <1>1 DEF Row, Statuses, HELD, SETTLED
<1> QED
    BY <1>1, <1>2 DEF StoreType, Pause, Row

LEMMA SkipRow ==
    ASSUME NEW s \in StoreType, NEW n \in Nodes
    PROVE  /\ Skip(s, n) \in StoreType
           /\ \A m \in Nodes \ {n} : Skip(s, n)[m] = s[m]
           /\ s[n].status \in SETTLED => Skip(s, n) = s
           /\ s[n].status \notin SETTLED =>
                 Skip(s, n)[n].status = "skipped" /\ Skip(s, n)[n].ports = {}
<1>1. Entry(s[n]) \in Row(Tokens, Ports)
    BY EntryRow DEF StoreType
<1>2. [Entry(s[n]) EXCEPT !.status = "skipped", !.ports = {}] \in Row(Tokens, Ports)
    BY <1>1 DEF Row, Statuses, HELD, SETTLED
<1> QED
    BY <1>1, <1>2 DEF StoreType, Skip, SkipsNow, Row

LEMMA ReleaseRow ==
    ASSUME NEW s \in StoreType, NEW n \in Nodes
    PROVE  /\ Release(s, n) \in StoreType
           /\ \A m \in Nodes \ {n} : Release(s, n)[m] = s[m]
           /\ Release(s, n)[n] = NoRow
BY DEF StoreType, Release, NoRow, Row, Statuses, HELD, SETTLED

-----------------------------------------------------------------------------
(* The frontier *)

LEMMA NodesFinite == IsFiniteSet(Nodes)
<1>1. Graph.order \in Seq(Nodes)
    BY GraphAssumption DEF WellFormed, Nodes
<1> DEFINE N == 1..Len(Graph.order)
<1>2. IsFiniteSet(N)
    BY <1>1, FS_Interval
<1>3. Graph.order \in Surjection(N, Nodes)
    BY <1>1 DEF Surjection, Nodes, NodesOf
<1> QED
    BY <1>2, <1>3, FS_Surjection

\* The order of the frontier is a function from the ready nodes to numbers.
LEMMA ReadyIndexType ==
    ASSUME NEW s \in StoreType
    PROVE  /\ DOMAIN ReadyIndex(Graph, s) = Ready(Graph, s)
           /\ ReadyIndex(Graph, s) \in [Ready(Graph, s) -> Nat]
<1>1. Ready(Graph, s) \subseteq Nodes
    BY DEF Ready, Nodes
<1>2. ASSUME NEW S \in SUBSET Ready(Graph, s)
      PROVE  Cardinality(S) \in Nat
    BY <1>1, NodesFinite, FS_Subset, FS_CardinalityType
<1> QED
    BY <1>2 DEF ReadyIndex

LEMMA SkipsClosed ==
    ASSUME NEW s
    PROVE  ClosedUnderSkips(Graph, s, Skips(Graph, s))
BY DEF ClosedUnderSkips, Skips, SkippedGiven

\* Knaster and Tarski: the least closed set is a fixed point, so every skipped
\* node is skipped for a reason.
LEMMA SkipsFixed ==
    ASSUME NEW s, NEW n \in Skips(Graph, s)
    PROVE  n \in Nodes /\ SkippedGiven(Graph, s, Skips(Graph, s), n)
<1> DEFINE S == Skips(Graph, s)
           F == {m \in Nodes : SkippedGiven(Graph, s, S, m)}
<1>1. F \subseteq S
    BY DEF ClosedUnderSkips, Skips, SkippedGiven, Nodes
<1>2. ClosedUnderSkips(Graph, s, F)
    BY <1>1 DEF ClosedUnderSkips, SkippedGiven, Nodes
<1>3. n \in F
    BY <1>2 DEF Skips, Nodes
<1> QED
    BY <1>3

-----------------------------------------------------------------------------
(* Types *)

LEMMA NoViewType == IsView(NoView)
<1>1. [n \in {} |-> 0] \in [{} -> Nat]
    OBVIOUS
<1> QED
    BY <1>1 DEF IsView, NoView

LEMMA HandOutType ==
    ASSUME TypeOK, NEW a \in Actors, NEW ready, NEW R \in SUBSET Nodes, ready \in [R -> Nat],
           HandOut(a, ready)
    PROVE  /\ view' = [b \in Actors |-> view'[b]]
           /\ \A b \in Actors \ {a} : view'[b] = view[b]
           /\ IsView(view'[a])
           /\ view'[a].batch \subseteq R
           /\ view'[a].skips = {} /\ DOMAIN view'[a].ready = {}
           /\ pc' = [pc EXCEPT ![a] = "dispatching"]
<1> DEFINE batch == SelectDispatch(ready, Cardinality(Held(store)), MaxConcurrent)
           mine == [NoView EXCEPT !.batch = batch]
<1>1. batch \subseteq R
    BY DEF SelectDispatch
<1> HIDE DEF batch
<1>2. /\ IsView(mine)
      /\ mine.batch = batch /\ mine.skips = {} /\ mine.ready = [n \in {} |-> 0]
    <2>1. [n \in {} |-> 0] \in [{} -> Nat]
        OBVIOUS
    <2> QED
        BY <1>1, <2>1 DEF IsView, NoView
<1>3. /\ view' = [view EXCEPT ![a] = mine]
      /\ pc' = [pc EXCEPT ![a] = "dispatching"]
    BY DEF HandOut, batch
<1> HIDE DEF mine
<1> QED
    BY <1>1, <1>2, <1>3 DEF TypeOK

LEMMA InitType == Init => TypeOK
<1> SUFFICES ASSUME Init PROVE TypeOK
    OBVIOUS
<1>1. store \in [Nodes -> Row(Tokens, Ports)]
    BY DEF Init, NoRow, Row, Statuses, HELD, SETTLED
<1>2. task \in [Actors -> TaskRecord]
    BY DEF Init, NoTask, TaskRecord
<1>3. pc \in [Actors -> Running \cup Advancing \cup {"idle"}]
    BY DEF Init
<1>4. view = [a \in Actors |-> view[a]] /\ \A a \in Actors : IsView(view[a])
    BY NoViewType DEF Init
<1>5. \A w \in Workers : pc[w] \notin Running
    BY DEF Init, Actors, Running
<1> QED
    BY <1>1, <1>2, <1>3, <1>4, <1>5 DEF Init, TypeOK

\* The parts of TypeOK an action can disturb; what it leaves UNCHANGED is left out.
LEMMA FreshTokenType ==
    ASSUME TypeOK, NEW j \in jobs, \E o \in Tokens : o \notin InUse
    PROVE  /\ TokenFor(j) \in Tokens
           /\ j.owner = NoOwner => TokenFor(j) \notin InUse
           /\ j.owner # NoOwner => TokenFor(j) = j.owner
           /\ j.node \in Nodes
           /\ j = Job(j.node, j.owner)
<1>1. FreshToken \in Tokens /\ FreshToken \notin InUse
    BY DEF FreshToken
<1>2. j \in [node : Nodes, owner : Tokens \cup {NoOwner}]
    BY DEF TypeOK
<1> QED
    BY <1>1, <1>2 DEF TokenFor, Job

LEMMA RunNodeType ==
    ASSUME TypeOK, NEW w \in Workers, RunNode(w)
    PROVE  TypeOK'
<1> USE DEF TypeOK, Running, Advancing
<1>0. w \in Actors
    BY DEF Actors
<1>1. ASSUME NEW j \in jobs, Take(w, j)
      PROVE  TypeOK'
    <2>1. /\ TokenFor(j) \in Tokens /\ j.node \in Nodes
        BY <1>1, FreshTokenType DEF Take
    <2>2. store' \in [Nodes -> Row(Tokens, Ports)]
        BY <1>1, <2>1, ClaimRow DEF Take, StoreType
    <2>3. [node |-> j.node, owner |-> TokenFor(j), attempt |-> 0] \in TaskRecord
        BY <2>1 DEF TaskRecord
    <2>4. jobs' \subseteq jobs
        BY <1>1 DEF Take, TakenFrom
    <2> QED
        BY <1>0, <1>1, <2>1, <2>2, <2>3, <2>4 DEF Take
<1>2. ASSUME NEW j \in jobs, LoseRace(w, j)
      PROVE  TypeOK'
    BY <1>2 DEF LoseRace
<1>3. ASSUME Replay(w)
      PROVE  TypeOK'
    <2>1. /\ pc[w] = "claimed" /\ task[w] \in TaskRecord
          /\ task[w].node \in Nodes /\ task[w].owner \in Tokens
        BY <1>0, <1>3 DEF Replay
    <2>2. [task[w] EXCEPT !.attempt = store[task[w].node].attempts] \in TaskRecord
        BY <2>1 DEF TaskRecord, Row
    <2>3. /\ task' = [task EXCEPT ![w] = [task[w] EXCEPT !.attempt = store[task[w].node].attempts]]
          /\ \E outcome \in {"dead", "parked", "ran", "raised"} : pc' = [pc EXCEPT ![w] = outcome]
          /\ runs' \in [Nodes -> Nat]
        BY <1>0, <1>3, <2>1 DEF Replay
    <2>4. /\ task' \in [Actors -> TaskRecord]
          /\ task'[w].node = task[w].node /\ task'[w].owner = task[w].owner
          /\ \A v \in Actors \ {w} : task'[v] = task[v]
        BY <1>0, <2>1, <2>2, <2>3 DEF TaskRecord
    <2> QED
        BY <1>0, <1>3, <2>1, <2>3, <2>4 DEF Replay, Actors
<1>4. ASSUME CheckpointCompleted(w)
      PROVE  TypeOK'
    <2>1. NoTask \in TaskRecord
        BY DEF NoTask, TaskRecord
    <2>2. task[w].node \in Nodes
        BY <1>4 DEF CheckpointCompleted
    <2>3. store' \in [Nodes -> Row(Tokens, Ports)]
        BY <1>4, <2>2, CompleteRow DEF CheckpointCompleted, StoreType
    <2> QED
        BY <1>0, <1>4, <2>1, <2>3 DEF CheckpointCompleted
<1>5. ASSUME CheckpointPaused(w)
      PROVE  TypeOK'
    <2>1. NoTask \in TaskRecord
        BY DEF NoTask, TaskRecord
    <2>2. task[w].node \in Nodes
        BY <1>5 DEF CheckpointPaused
    <2>3. store' \in [Nodes -> Row(Tokens, Ports)]
        BY <1>5, <2>2, PauseRow DEF CheckpointPaused, StoreType
    <2> QED
        BY <1>0, <1>5, <2>1, <2>3 DEF CheckpointPaused
<1>6. ASSUME CheckpointSkipped(w)
      PROVE  TypeOK'
    <2>1. NoTask \in TaskRecord
        BY DEF NoTask, TaskRecord
    <2>2. task[w].node \in Nodes
        BY <1>6 DEF CheckpointSkipped
    <2>3. store' \in [Nodes -> Row(Tokens, Ports)]
        BY <1>6, <2>2, SkipRow DEF CheckpointSkipped, StoreType
    <2> QED
        BY <1>0, <1>6, <2>1, <2>3 DEF CheckpointSkipped
<1>7. ASSUME CheckpointFailed(w)
      PROVE  TypeOK'
    <2>1. NoTask \in TaskRecord
        BY DEF NoTask, TaskRecord
    <2>2. task[w].node \in Nodes
        BY <1>7 DEF CheckpointFailed
    <2>3. store' \in [Nodes -> Row(Tokens, Ports)]
        BY <1>7, <2>2, FailRow DEF CheckpointFailed, StoreType
    <2> QED
        BY <1>0, <1>7, <2>1, <2>3 DEF CheckpointFailed
<1>8. ASSUME LeaveClaimedForRetry(w)
      PROVE  TypeOK'
    BY <1>0, <1>8 DEF LeaveClaimedForRetry
<1>9. ASSUME RetryRunNode(w)
      PROVE  TypeOK'
    <2>1. task[w].node \in Nodes /\ task[w].owner \in Tokens
        BY <1>9 DEF RetryRunNode
    <2>2. store' \in [Nodes -> Row(Tokens, Ports)]
        BY <1>9, <2>1, ClaimRow DEF RetryRunNode, StoreType
    <2> QED
        BY <1>0, <1>9, <2>2 DEF RetryRunNode
<1> QED
    BY <1>1, <1>2, <1>3, <1>4, <1>5, <1>6, <1>7, <1>8, <1>9 DEF RunNode

LEMMA ReadFrontierView ==
    ASSUME TypeOK, NEW a \in Actors, ReadFrontier(a)
    PROVE  /\ view' = [b \in Actors |-> view'[b]]
           /\ \A b \in Actors \ {a} : view'[b] = view[b]
           /\ IsView(view'[a])
           /\ \/ /\ Skips(Graph, store) = {}
                 /\ pc' = [pc EXCEPT ![a] = "dispatching"]
                 /\ view'[a].batch \subseteq Ready(Graph, store)
                 /\ view'[a].skips = {} /\ DOMAIN view'[a].ready = {}
              \/ /\ Skips(Graph, store) # {}
                 /\ pc' = [pc EXCEPT ![a] = "skipping"]
                 /\ view'[a].batch = {}
                 /\ view'[a].skips = Skips(Graph, store)
                 /\ DOMAIN view'[a].ready = Ready(Graph, store)
<1>1. store \in StoreType
    BY DEF TypeOK, StoreType
<1>2. Ready(Graph, store) \in SUBSET Nodes /\ Skips(Graph, store) \in SUBSET Nodes
    BY DEF Ready, Skips, Nodes
<1>3. /\ DOMAIN ReadyIndex(Graph, store) = Ready(Graph, store)
      /\ ReadyIndex(Graph, store) \in [Ready(Graph, store) -> Nat]
    BY <1>1, ReadyIndexType
<1>4. CASE /\ Skips(Graph, store) = {}
           /\ HandOut(a, ReadyIndex(Graph, store))
    BY <1>2, <1>3, <1>4, HandOutType
<1>5. CASE /\ Skips(Graph, store) # {}
           /\ view' = [view EXCEPT ![a] = [skips |-> Skips(Graph, store),
                                           ready |-> ReadyIndex(Graph, store),
                                           told |-> {}, batch |-> {}]]
           /\ pc' = [pc EXCEPT ![a] = "skipping"]
    <2> DEFINE mine == [skips |-> Skips(Graph, store), ready |-> ReadyIndex(Graph, store),
                        told |-> {}, batch |-> {}]
    <2>1. IsView(mine)
        BY <1>2, <1>3 DEF IsView
    <2> QED
        BY <1>3, <1>5, <2>1 DEF TypeOK
<1> QED
    BY <1>4, <1>5 DEF ReadFrontier

LEMMA SettleSkipView ==
    ASSUME TypeOK, NEW a \in Actors, NEW n \in Nodes, SettleSkip(a, n)
    PROVE  /\ view' = [b \in Actors |-> view'[b]]
           /\ \A b \in Actors \ {a} : view'[b] = view[b]
           /\ IsView(view'[a])
           /\ view'[a].batch = {}
           /\ view'[a].ready = view[a].ready
           /\ view'[a].skips = view[a].skips \ {n}
           /\ n \in view[a].skips
           /\ pc' = [pc EXCEPT ![a] = IF view[a].skips = {n} THEN "selecting" ELSE "skipping"]
<1>1. PICK R \in SUBSET Nodes :
        view[a] \in [skips : SUBSET Nodes, ready : [R -> Nat], told : SUBSET Nodes, batch : SUBSET Nodes]
    BY DEF TypeOK, IsView
<1> DEFINE mine == [skips |-> view[a].skips \ {n},
                    ready |-> view[a].ready,
                    told |-> view[a].told \cup IF SkipsNow(store, n) THEN {n} ELSE {},
                    batch |-> {}]
<1>2. IsView(mine)
    BY <1>1 DEF IsView
<1>3. view' = [view EXCEPT ![a] = mine]
    BY DEF SettleSkip
<1>4. view'[a] = mine /\ view' = [b \in Actors |-> view'[b]]
    BY <1>3 DEF TypeOK
<1> QED
    BY <1>2, <1>3, <1>4 DEF SettleSkip

LEMMA SelectView ==
    ASSUME TypeOK, NEW a \in Actors, SelectAfterSkips(a)
    PROVE  /\ view' = [b \in Actors |-> view'[b]]
           /\ \A b \in Actors \ {a} : view'[b] = view[b]
           /\ IsView(view'[a])
           /\ view'[a].batch \subseteq DOMAIN view[a].ready
           /\ view'[a].skips = {} /\ DOMAIN view'[a].ready = {}
           /\ pc' = [pc EXCEPT ![a] = "dispatching"]
<1>1. PICK R \in SUBSET Nodes : view[a].ready \in [R -> Nat]
    BY DEF TypeOK, IsView
<1> QED
    BY <1>1, HandOutType DEF SelectAfterSkips

LEMMA DispatchView ==
    ASSUME TypeOK, NEW a \in Actors, view' = [view EXCEPT ![a] = NoView]
    PROVE  /\ view' = [b \in Actors |-> view'[b]]
           /\ \A b \in Actors \ {a} : view'[b] = view[b]
           /\ view'[a] = NoView
           /\ IsView(view'[a])
BY NoViewType DEF TypeOK

LEMMA AdvanceType ==
    ASSUME TypeOK, NEW a \in Actors, AdvanceCall(a)
    PROVE  TypeOK'
<1> USE DEF TypeOK, Running, Advancing
<1>1. ASSUME ReadFrontier(a)
      PROVE  TypeOK'
    BY <1>1, ReadFrontierView DEF ReadFrontier, IsView, Actors
<1>2. ASSUME NEW n \in Nodes, SettleSkip(a, n)
      PROVE  TypeOK'
    <2>1. store' \in [Nodes -> Row(Tokens, Ports)]
        BY <1>2, SkipRow DEF SettleSkip, StoreType
    <2> QED
        BY <1>2, <2>1, SettleSkipView DEF SettleSkip, IsView, Actors
<1>3. ASSUME SelectAfterSkips(a)
      PROVE  TypeOK'
    <2>2. /\ view' = [b \in Actors |-> view'[b]]
          /\ \A b \in Actors : IsView(view'[b])
          /\ pc' = [pc EXCEPT ![a] = "dispatching"]
        BY <1>3, SelectView
    <2>3. reported' \in [Nodes -> Nat]
        BY <1>3 DEF SelectAfterSkips
    <2> QED
        BY <1>3, <2>2, <2>3 DEF SelectAfterSkips, IsView, Actors
<1>4. ASSUME Dispatch(a)
      PROVE  TypeOK'
    <2>1. \A n \in view[a].batch : Job(n, NoOwner) \in [node : Nodes, owner : Tokens \cup {NoOwner}]
        BY DEF IsView, Job
    <2>2. /\ view' = [b \in Actors |-> view'[b]]
          /\ \A b \in Actors : IsView(view'[b])
        BY <1>4, DispatchView DEF Dispatch
    <2>3. jobs' \subseteq [node : Nodes, owner : Tokens \cup {NoOwner}]
        BY <1>4, <2>1 DEF Dispatch
    <2> QED
        BY <1>4, <2>2, <2>3 DEF Dispatch, Actors
<1> QED
    BY <1>1, <1>2, <1>3, <1>4 DEF AdvanceCall

LEMMA AnswerType ==
    ASSUME TypeOK, NEW n \in Nodes, Answer(n)
    PROVE  TypeOK'
<1> USE DEF TypeOK, Running, Advancing, AwaitingAnswer
<1>1. ASSUME AnswerAndRelease(n)
      PROVE  TypeOK'
    <2>1. store' \in [Nodes -> Row(Tokens, Ports)]
        BY <1>1, ReleaseRow DEF AnswerAndRelease, StoreType
    <2>2. Host \in Actors /\ Host \notin Workers
        BY ActorAssumption DEF Actors
    <2> QED
        BY <1>1, <2>1, <2>2 DEF AnswerAndRelease, IsView
<1>2. ASSUME AnswerAndRedispatch(n)
      PROVE  TypeOK'
    <2>1. Job(n, store[n].owner) \in [node : Nodes, owner : Tokens \cup {NoOwner}]
        BY DEF Row, Job
    <2> QED
        BY <1>2, <2>1 DEF AnswerAndRedispatch, IsView
<1> QED
    BY <1>1, <1>2 DEF Answer

LEMMA CrashType ==
    ASSUME TypeOK, NEW w \in Workers, Crash(w) \/ CrashInAdvance(w)
    PROVE  TypeOK'
<1> USE DEF TypeOK, Running, Advancing
<1>0. w \in Actors
    BY DEF Actors
<1>1. CASE Crash(w)
    <2>1. NoTask \in TaskRecord
        BY DEF NoTask, TaskRecord
    <2>2. \A o \in {task[w].owner, NoOwner} :
            Job(task[w].node, o) \in [node : Nodes, owner : Tokens \cup {NoOwner}]
        BY <1>1 DEF Crash, Job
    <2> QED
        BY <1>0, <1>1, <2>1, <2>2 DEF Crash, IsView
<1>2. CASE CrashInAdvance(w)
    <2>1. /\ view' = [b \in Actors |-> view'[b]]
          /\ \A b \in Actors : IsView(view'[b])
        BY <1>0, <1>2, DispatchView DEF CrashInAdvance
    <2> QED
        BY <1>0, <1>2, <2>1 DEF CrashInAdvance
<1> QED
    BY <1>1, <1>2

LEMMA TypeStep == ASSUME TypeOK, [Next]_vars PROVE TypeOK'
<1>1. CASE UNCHANGED vars
    BY <1>1 DEF vars, TypeOK, IsView
<1>2. CASE Next
    BY <1>2, RunNodeType, AdvanceType, AnswerType, CrashType DEF Next
<1> QED
    BY <1>1, <1>2

\* The variables keep their types: rows, jobs, tasks and the views of the
\* advance calls under way, through every interleaving of the coordinator's steps.
THEOREM TypeCorrect == Spec => []TypeOK
<1>1. Init => TypeOK
    BY InitType
<1>2. TypeOK /\ [Next]_vars => TypeOK'
    BY TypeStep
<1> QED
    BY <1>1, <1>2, PTL DEF Spec

-----------------------------------------------------------------------------
(* What a step may do to the store, and what that leaves standing. *)

SettledStays == \A n \in Nodes : store[n].status \in SETTLED => store'[n] = store[n]

\* A row that changes without being skipped belongs to a node that may start.
OnlyMayStartMoves ==
    \A n \in Nodes :
        (store'[n].status # store[n].status /\ store'[n].status # "skipped") => MayStart(n)

SkipsJustified ==
    \A n \in Nodes :
        (store'[n].status # store[n].status /\ store'[n].status = "skipped")
            => /\ Sources(Graph, n) \subseteq Settled(store)
               /\ ~Live(n) \/ n \in Graph.layout

LEMMA SourcesAreNodes ==
    /\ \A n : Sources(Graph, n) \subseteq Nodes
    /\ \A e \in Graph.edges : e.source \in Nodes
BY GraphAssumption DEF WellFormed, Sources, Incoming, Nodes

LEMMA SettledGrows ==
    ASSUME TypeOK, TypeOK', SettledStays
    PROVE  Settled(store) \subseteq Settled(store')
BY DEF TypeOK, Settled, SettledStays

\* Being lit is final: a completed source keeps its row.
LEMMA LiveStays ==
    ASSUME TypeOK, TypeOK', SettledStays, NEW n \in Nodes, Live(n)
    PROVE  Live(n)'
<1>1. n \notin Graph.notes
    BY DEF Live
<1>2. CASE Incoming(Graph, n) = {}
    BY <1>1, <1>2 DEF Live, Dead
<1>3. CASE Incoming(Graph, n) # {}
    <2>1. PICK e \in Incoming(Graph, n) : Active(store, e)
        BY <1>3 DEF Live, Dead, ActiveInto
    <2>2. e.source \in Nodes
        BY SourcesAreNodes DEF Incoming
    <2>3. Active(store', e)
        BY <2>1, <2>2 DEF Active, SettledStays, SETTLED
    <2> QED
        BY <1>1, <2>3 DEF Live, Dead, ActiveInto
<1> QED
    BY <1>2, <1>3

LEMMA MayStartStays ==
    ASSUME TypeOK, TypeOK', SettledStays, NEW n \in Nodes, MayStart(n)
    PROVE  MayStart(n)'
BY LiveStays, SettledGrows DEF MayStart

\* And so is being dead, once no source of n can complete any more.
LEMMA DeadStays ==
    ASSUME TypeOK, TypeOK', SettledStays, NEW n \in Nodes, ~Live(n),
           \A s \in Sources(Graph, n) : s \notin Settled(store) => store'[s].status # "completed"
    PROVE  ~Live(n)'
<1>1. CASE n \in Graph.notes
    BY <1>1 DEF Live
<1>2. CASE n \notin Graph.notes
    <2>1. Dead(Graph, store, n)
        BY <1>2 DEF Live
    <2>2. ASSUME NEW e \in Incoming(Graph, n), Active(store', e)
          PROVE  FALSE
        <3>1. e.source \in Sources(Graph, n) /\ e.source \in Nodes
            BY SourcesAreNodes DEF Sources, Incoming
        <3>2. store[e.source].status \in SETTLED
            BY <2>2, <3>1 DEF Active, Settled, TypeOK
        <3>3. Active(store, e)
            BY <2>2, <3>1, <3>2 DEF Active, SettledStays
        <3> QED
            BY <2>1, <3>3 DEF Dead, ActiveInto
    <2> QED
        BY <2>1, <2>2 DEF Live, Dead, ActiveInto
<1> QED
    BY <1>1, <1>2

-----------------------------------------------------------------------------
(* Each step keeps to it. *)

LEMMA RunNodeStore ==
    ASSUME InductiveInv, NEW w \in Workers, RunNode(w)
    PROVE  SettledStays /\ OnlyMayStartMoves /\ SkipsJustified /\ OnlyCompletedLights'
<1> USE DEF SettledStays, OnlyMayStartMoves, SkipsJustified, OnlyCompletedLights
<1>1. /\ TypeOK /\ store \in StoreType /\ w \in Actors
      /\ \A n \in Nodes : store[n].status # "completed" => store[n].ports = {}
    BY DEF InductiveInv, TypeOK, StoreType, Actors
<1>2. ASSUME NEW j \in jobs, Take(w, j)
      PROVE  SettledStays /\ OnlyMayStartMoves /\ SkipsJustified /\ OnlyCompletedLights'
    <2>1. TokenFor(j) \in Tokens /\ j.node \in Nodes
        BY <1>1, <1>2, FreshTokenType DEF Take
    <2>2. MayStart(j.node)
        BY DEF InductiveInv, HandedOutSoundly
    <2>3. store[j.node].status \notin SETTLED
        BY <1>2 DEF Take, CanClaim, OwnClaim, HELD, SETTLED
    <2> QED
        BY <1>1, <1>2, <2>1, <2>2, <2>3, ClaimRow DEF Take
<1>3. CASE store' = store
    BY <1>1, <1>3
<1>4. ASSUME pc[w] \in Running
      PROVE  /\ task[w].node \in Nodes /\ task[w].owner \in Tokens
             /\ store[task[w].node].status = "claimed"
             /\ MayStart(task[w].node)
    BY <1>1, <1>4 DEF InductiveInv, TypeOK, ExclusiveRun, HandedOutSoundly
<1>5. CASE CheckpointCompleted(w)
    <2>1. pc[w] \in Running
        BY <1>5 DEF CheckpointCompleted, Running
    <2>2. choice[task[w].node] \in SUBSET Ports
        BY <1>1, <1>4, <2>1 DEF TypeOK
    <2> QED
        BY <1>1, <1>4, <1>5, <2>1, <2>2, CompleteRow DEF CheckpointCompleted, SETTLED
<1>6. CASE CheckpointPaused(w)
    <2>1. pc[w] \in Running
        BY <1>6 DEF CheckpointPaused, Running
    <2> QED
        BY <1>1, <1>4, <1>6, <2>1, PauseRow DEF CheckpointPaused, SETTLED
<1>7. CASE CheckpointSkipped(w)
    <2>1. pc[w] \in Running /\ pc[w] = "dead"
        BY <1>7 DEF CheckpointSkipped, Running
    <2>2. task[w].node \in Graph.layout
        BY <2>1 DEF InductiveInv, OnlyLanesWalkedPast
    <2> QED
        BY <1>1, <1>4, <1>7, <2>1, <2>2, SkipRow DEF CheckpointSkipped, SETTLED, MayStart
<1>8. CASE CheckpointFailed(w)
    <2>1. pc[w] \in Running
        BY <1>8 DEF CheckpointFailed, Running
    <2> QED
        BY <1>1, <1>4, <1>8, <2>1, FailRow DEF CheckpointFailed, SETTLED
<1>9. CASE RetryRunNode(w)
    <2>1. pc[w] \in Running
        BY <1>9 DEF RetryRunNode, Running
    <2> QED
        BY <1>1, <1>4, <1>9, <2>1, ClaimRow DEF RetryRunNode, SETTLED
<1> QED
    BY <1>2, <1>3, <1>5, <1>6, <1>7, <1>8, <1>9
       DEF RunNode, LoseRace, Replay, LeaveClaimedForRetry

LEMMA StepStore ==
    ASSUME InductiveInv, [Next]_vars
    PROVE  SettledStays /\ OnlyMayStartMoves /\ SkipsJustified /\ OnlyCompletedLights'
<1> USE DEF SettledStays, OnlyMayStartMoves, SkipsJustified, OnlyCompletedLights
<1>1. /\ TypeOK /\ store \in StoreType
      /\ \A n \in Nodes : store[n].status # "completed" => store[n].ports = {}
    BY DEF InductiveInv, TypeOK, StoreType
<1>2. CASE store' = store
    BY <1>1, <1>2
<1>3. ASSUME NEW w \in Workers, RunNode(w)
      PROVE  SettledStays /\ OnlyMayStartMoves /\ SkipsJustified /\ OnlyCompletedLights'
    BY <1>3, RunNodeStore
<1>4. ASSUME NEW a \in Actors, NEW n \in Nodes, SettleSkip(a, n)
      PROVE  SettledStays /\ OnlyMayStartMoves /\ SkipsJustified /\ OnlyCompletedLights'
    <2>1. ~Live(n) /\ Sources(Graph, n) \subseteq Settled(store)
        BY <1>4 DEF SettleSkip, InductiveInv, PendingSkipsStand
    <2> QED
        BY <1>1, <1>4, <2>1, SkipRow DEF SettleSkip
<1>5. ASSUME NEW n \in Nodes, AnswerAndRelease(n)
      PROVE  SettledStays /\ OnlyMayStartMoves /\ SkipsJustified /\ OnlyCompletedLights'
    <2>1. store[n].status = "paused"
        BY <1>5 DEF AnswerAndRelease, AwaitingAnswer
    <2>2. MayStart(n)
        BY <2>1 DEF InductiveInv, DecidedAfterSources, Started, MayStart
    <2> QED
        BY <1>1, <1>5, <2>1, <2>2, ReleaseRow DEF AnswerAndRelease, NoRow, SETTLED
<1> QED
    BY <1>2, <1>3, <1>4, <1>5
       DEF Next, AdvanceCall, ReadFrontier, SelectAfterSkips, Dispatch, Answer,
           AnswerAndRedispatch, Crash, CrashInAdvance, vars

LEMMA DecidedStep ==
    ASSUME InductiveInv, [Next]_vars
    PROVE  DecidedAfterSources'
<1>1. /\ TypeOK /\ TypeOK' /\ DecidedAfterSources
      /\ SettledStays /\ OnlyMayStartMoves /\ SkipsJustified
    BY TypeStep, StepStore DEF InductiveInv
<1>2. Settled(store) \subseteq Settled(store')
    BY <1>1, SettledGrows
<1> SUFFICES ASSUME NEW n \in Nodes
             PROVE  /\ store'[n].status # "none" => Sources(Graph, n) \subseteq Settled(store')
                    /\ Started(n)' => Live(n)'
                    /\ store'[n].status = "skipped" => (~Live(n)' \/ n \in Graph.layout)
    BY DEF DecidedAfterSources
<1>3. (Sources(Graph, n) \subseteq Settled(store) /\ ~Live(n)) => ~Live(n)'
    BY <1>1, DeadStays
<1>4. Live(n) => Live(n)'
    BY <1>1, LiveStays
<1>5. CASE store'[n].status = store[n].status
    BY <1>1, <1>2, <1>3, <1>4, <1>5 DEF DecidedAfterSources, Started
<1>6. CASE store'[n].status # store[n].status /\ store'[n].status = "skipped"
    BY <1>1, <1>2, <1>3, <1>6 DEF SkipsJustified, Started
<1>7. CASE store'[n].status # store[n].status /\ store'[n].status # "skipped"
    BY <1>1, <1>2, <1>4, <1>7 DEF OnlyMayStartMoves, MayStart
<1> QED
    BY <1>5, <1>6, <1>7

LEMMA LanesStep ==
    ASSUME InductiveInv, [Next]_vars
    PROVE  OnlyLanesWalkedPast'
<1> USE DEF OnlyLanesWalkedPast
<1>0. TypeOK /\ OnlyLanesWalkedPast /\ Workers \subseteq Actors
    BY DEF InductiveInv, Actors
<1>1. CASE UNCHANGED vars
    BY <1>0, <1>1 DEF vars
<1>2. ASSUME NEW w \in Workers, Replay(w)
      PROVE  OnlyLanesWalkedPast'
    <2>1. /\ task' = [task EXCEPT ![w].attempt = store[task[w].node].attempts]
          /\ task[w] \in TaskRecord
          /\ pc[w] = "claimed"
        BY <1>0, <1>2 DEF Replay, TypeOK
    <2>2. /\ task'[w].node = task[w].node
          /\ \A v \in Workers \ {w} : task'[v] = task[v] /\ pc'[v] = pc[v]
        BY <1>0, <1>2, <2>1 DEF Replay, TypeOK, TaskRecord
    <2>3. pc'[w] = "dead" => EngineWalksPast(task[w].node)
        BY <1>0, <1>2 DEF Replay, TypeOK
    <2>4. ~Dead(Graph, store, task[w].node)
        BY <2>1 DEF InductiveInv, HandedOutSoundly, Running, MayStart, Live
    <2> QED
        BY <1>0, <2>2, <2>3, <2>4 DEF EngineWalksPast, WalkedPast
<1>3. ASSUME NEW w \in Workers, RunNode(w), ~Replay(w)
      PROVE  OnlyLanesWalkedPast'
    BY <1>0, <1>3 DEF RunNode, Take, LoseRace, CheckpointCompleted, CheckpointPaused, TypeOK,
       CheckpointSkipped, CheckpointFailed, LeaveClaimedForRetry, RetryRunNode
<1>4. ASSUME NEW a \in Actors, AdvanceCall(a)
      PROVE  OnlyLanesWalkedPast'
    <2>1. /\ task' = task
          /\ \E next \in {"dispatching", "skipping", "selecting", "idle"} :
                pc' = [pc EXCEPT ![a] = next]
        BY <1>4 DEF AdvanceCall, ReadFrontier, SettleSkip, SelectAfterSkips, Dispatch, HandOut
    <2> QED
        BY <1>0, <2>1 DEF TypeOK
<1>5. ASSUME NEW w \in Workers, Crash(w) \/ CrashInAdvance(w)
      PROVE  OnlyLanesWalkedPast'
    BY <1>0, <1>5 DEF Crash, CrashInAdvance, TypeOK
<1>6. ASSUME NEW n \in Nodes, Answer(n)
      PROVE  OnlyLanesWalkedPast'
    BY <1>0, <1>6 DEF Answer, AnswerAndRelease, AnswerAndRedispatch, TypeOK
<1> QED
    BY <1>1, <1>2, <1>3, <1>4, <1>5, <1>6 DEF Next

\* A worker that is handed a claim is not handed another worker's.
LEMMA ClaimNotShared ==
    ASSUME InductiveInv, NEW w \in Workers, NEW j \in jobs, Take(w, j),
           NEW v \in Workers, pc[v] \in Running
    PROVE  task[v].node # j.node
<1> SUFFICES ASSUME task[v].node = j.node PROVE FALSE
    OBVIOUS
<1>1. /\ store[j.node].status = "claimed"
      /\ store[j.node].owner = task[v].owner
      /\ task[v].owner \in Tokens
    BY DEF InductiveInv, ExclusiveRun, TypeOK
<1>2. TokenFor(j) = task[v].owner
    BY <1>1 DEF Take, CanClaim, OwnClaim
<1>3. /\ j.owner = NoOwner => TokenFor(j) \notin InUse
      /\ j.owner # NoOwner => TokenFor(j) = j.owner
      /\ j = Job(j.node, j.owner)
    BY FreshTokenType DEF Take, InductiveInv
<1>4. task[v].owner \in InUse
    BY DEF InUse
<1>5. j = Job(task[v].node, task[v].owner)
    BY <1>2, <1>3, <1>4
<1> QED
    BY <1>5 DEF InductiveInv, TokensNotShared

\* The worker that leaves run_node, or stays in it, disturbs no other's row.
LEMMA ExclusiveStep ==
    ASSUME InductiveInv, [Next]_vars
    PROVE  ExclusiveRun'
<1>0. TypeOK /\ ExclusiveRun /\ Workers \subseteq Actors /\ store \in StoreType
    BY DEF InductiveInv, Actors, TypeOK, StoreType
<1>1. CASE UNCHANGED vars
    BY <1>0, <1>1 DEF vars, ExclusiveRun
<1>2. ASSUME NEW w \in Workers, NEW j \in jobs, Take(w, j)
      PROVE  ExclusiveRun'
    <2>1. TokenFor(j) \in Tokens /\ j.node \in Nodes
        BY <1>0, <1>2, FreshTokenType DEF Take
    <2>2. \A v \in Workers : pc[v] \in Running => task[v].node # j.node /\ task[v].node \in Nodes
        BY <1>0, <1>2, ClaimNotShared DEF TypeOK
    <2>3. /\ \A m \in Nodes \ {j.node} : store'[m] = store[m]
          /\ store'[j.node].status = "claimed" /\ store'[j.node].owner = TokenFor(j)
        BY <1>0, <1>2, <2>1, ClaimRow DEF Take
    <2>4. /\ \A v \in Workers \ {w} : pc'[v] = pc[v] /\ task'[v] = task[v]
          /\ task'[w].node = j.node /\ task'[w].owner = TokenFor(j)
        BY <1>0, <1>2 DEF Take, TypeOK
    <2> QED
        BY <1>0, <2>2, <2>3, <2>4 DEF ExclusiveRun
<1>3. ASSUME NEW w \in Workers, pc[w] \in Running, pc'[w] \notin Running,
             \A v \in Workers \ {w} : pc'[v] = pc[v] /\ task'[v] = task[v],
             \A m \in Nodes \ {task[w].node} : store'[m] = store[m]
      PROVE  ExclusiveRun'
    BY <1>0, <1>3 DEF ExclusiveRun, TypeOK
<1>4. ASSUME NEW w \in Workers,
             CheckpointCompleted(w) \/ CheckpointPaused(w) \/ CheckpointSkipped(w) \/ CheckpointFailed(w)
      PROVE  ExclusiveRun'
    <2>1. /\ pc[w] \in Running /\ pc'[w] \notin Running
          /\ \A v \in Workers \ {w} : pc'[v] = pc[v] /\ task'[v] = task[v]
        BY <1>0, <1>4 DEF CheckpointCompleted, CheckpointPaused, CheckpointSkipped,
           CheckpointFailed, Running, TypeOK
    <2>2. task[w].node \in Nodes /\ choice[task[w].node] \in SUBSET Ports
        BY <1>0, <2>1 DEF TypeOK
    <2>3. \A m \in Nodes \ {task[w].node} : store'[m] = store[m]
        <3>1. CASE CheckpointCompleted(w)
            BY <1>0, <2>2, <3>1, CompleteRow DEF CheckpointCompleted
        <3>2. CASE CheckpointPaused(w)
            BY <1>0, <2>2, <3>2, PauseRow DEF CheckpointPaused
        <3>3. CASE CheckpointSkipped(w)
            BY <1>0, <2>2, <3>3, SkipRow DEF CheckpointSkipped
        <3>4. CASE CheckpointFailed(w)
            BY <1>0, <2>2, <3>4, FailRow DEF CheckpointFailed
        <3> QED
            BY <1>4, <3>1, <3>2, <3>3, <3>4
    <2> QED
        BY <1>3, <2>1, <2>3
<1>5. ASSUME NEW w \in Workers, Crash(w) \/ CrashInAdvance(w)
      PROVE  ExclusiveRun'
    BY <1>0, <1>5 DEF Crash, CrashInAdvance, Running, Advancing, ExclusiveRun, TypeOK
<1>6. ASSUME NEW w \in Workers, pc[w] \in Running,
             \A v \in Workers \ {w} : pc'[v] = pc[v] /\ task'[v] = task[v],
             task'[w].node = task[w].node, task'[w].owner = task[w].owner,
             \A m \in Nodes \ {task[w].node} : store'[m] = store[m],
             store'[task[w].node].status = "claimed",
             store'[task[w].node].owner = task[w].owner
      PROVE  ExclusiveRun'
    BY <1>0, <1>6 DEF ExclusiveRun, TypeOK
<1>7. ASSUME NEW w \in Workers, Replay(w)
      PROVE  ExclusiveRun'
    <2>1. /\ pc[w] \in Running /\ task[w] \in TaskRecord
          /\ task' = [task EXCEPT ![w].attempt = store[task[w].node].attempts]
          /\ store' = store
        BY <1>0, <1>7 DEF Replay, Running, TypeOK
    <2>2. /\ task'[w].node = task[w].node /\ task'[w].owner = task[w].owner
          /\ \A v \in Workers \ {w} : pc'[v] = pc[v] /\ task'[v] = task[v]
        BY <1>0, <1>7, <2>1 DEF Replay, TypeOK, TaskRecord
    <2> QED
        BY <1>0, <1>6, <2>1, <2>2 DEF ExclusiveRun
<1>8. ASSUME NEW w \in Workers, LeaveClaimedForRetry(w) \/ RetryRunNode(w)
      PROVE  ExclusiveRun'
    <2>1. pc[w] \in Running /\ task' = task /\ \A v \in Workers \ {w} : pc'[v] = pc[v]
        BY <1>0, <1>8 DEF LeaveClaimedForRetry, RetryRunNode, Running, TypeOK
    <2>2. task[w].node \in Nodes /\ task[w].owner \in Tokens
        BY <1>0, <2>1 DEF TypeOK
    <2>3. CASE store' = store
        BY <1>0, <1>6, <2>1, <2>3 DEF ExclusiveRun
    <2>4. CASE RetryRunNode(w)
        BY <1>0, <1>6, <2>1, <2>2, <2>4, ClaimRow DEF RetryRunNode
    <2> QED
        BY <1>8, <2>3, <2>4 DEF LeaveClaimedForRetry
<1>9. ASSUME NEW n \in Nodes, store[n].status # "claimed",
             \A m \in Nodes \ {n} : store'[m] = store[m],
             task' = task,
             \A v \in Workers : pc'[v] \in Running => pc[v] \in Running
      PROVE  ExclusiveRun'
    BY <1>0, <1>9 DEF ExclusiveRun, TypeOK
<1>10. ASSUME NEW a \in Actors, AdvanceCall(a)
       PROVE  ExclusiveRun'
    <2>1. /\ task' = task
          /\ \E next \in {"dispatching", "skipping", "selecting", "idle"} :
                pc' = [pc EXCEPT ![a] = next]
        BY <1>10 DEF AdvanceCall, ReadFrontier, SettleSkip, SelectAfterSkips, Dispatch, HandOut
    <2>2. \A v \in Workers : pc'[v] \in Running => pc[v] \in Running
        BY <1>0, <2>1 DEF TypeOK, Running
    <2>3. CASE store' = store
        BY <1>0, <2>1, <2>2, <2>3 DEF ExclusiveRun
    <2>4. ASSUME NEW n \in Nodes, SettleSkip(a, n)
          PROVE  ExclusiveRun'
        <3>1. store[n].status # "claimed"
            BY <2>4 DEF SettleSkip, InductiveInv, PendingSkipsStand
        <3>2. \A m \in Nodes \ {n} : store'[m] = store[m]
            BY <1>0, <2>4, SkipRow DEF SettleSkip
        <3> QED
            BY <1>9, <2>1, <2>2, <3>1, <3>2
    <2> QED
        BY <1>10, <2>3, <2>4 DEF AdvanceCall, ReadFrontier, SelectAfterSkips, Dispatch
<1>11. ASSUME NEW n \in Nodes, Answer(n)
       PROVE  ExclusiveRun'
    <2>1. store[n].status = "paused"
        BY <1>11 DEF Answer, AnswerAndRelease, AnswerAndRedispatch, AwaitingAnswer
    <2>2. \A m \in Nodes \ {n} : store'[m] = store[m]
        BY <1>0, <1>11, ReleaseRow DEF Answer, AnswerAndRelease, AnswerAndRedispatch
    <2>3. task' = task /\ \A v \in Workers : pc'[v] \in Running => pc[v] \in Running
        BY <1>0, <1>11 DEF Answer, AnswerAndRelease, AnswerAndRedispatch, Running, TypeOK
    <2> QED
        BY <1>9, <2>1, <2>2, <2>3
<1>12. ASSUME NEW w \in Workers, NEW j \in jobs, LoseRace(w, j)
       PROVE  ExclusiveRun'
    BY <1>0, <1>12 DEF LoseRace, ExclusiveRun
<1> QED
    BY <1>1, <1>2, <1>4, <1>5, <1>7, <1>8, <1>10, <1>11, <1>12 DEF Next, RunNode

LEMMA TokensStep ==
    ASSUME InductiveInv, [Next]_vars
    PROVE  TokensNotShared'
<1>0. /\ TypeOK /\ ExclusiveRun /\ TokensNotShared /\ Workers \subseteq Actors
      /\ \A v \in Workers : pc[v] \in Running => task[v].node \in Nodes /\ task[v].owner \in Tokens
    BY DEF InductiveInv, Actors, TypeOK
<1>1. CASE UNCHANGED vars
    BY <1>0, <1>1 DEF vars, TokensNotShared
<1>2. ASSUME NEW w \in Workers, NEW j \in jobs, Take(w, j)
      PROVE  TokensNotShared'
    <2>1. /\ TokenFor(j) \in Tokens
          /\ j.owner = NoOwner => TokenFor(j) \notin InUse
          /\ j.owner # NoOwner => TokenFor(j) = j.owner
          /\ j = Job(j.node, j.owner)
        BY <1>0, <1>2, FreshTokenType DEF Take
    <2>2. /\ \A v \in Workers \ {w} : pc'[v] = pc[v] /\ task'[v] = task[v]
          /\ task'[w].node = j.node /\ task'[w].owner = TokenFor(j)
        BY <1>0, <1>2 DEF Take, TypeOK
    <2>3. /\ jobs' \subseteq jobs
          /\ j.owner # NoOwner => j \notin jobs'
        BY <1>2 DEF Take, TakenFrom
    <2>4. \A i \in jobs' : i # Job(j.node, TokenFor(j))
        <3>1. CASE j.owner # NoOwner
            BY <2>1, <2>3, <3>1
        <3>2. CASE j.owner = NoOwner
            BY <2>1, <2>3, <3>2 DEF InUse, Job
        <3> QED
            BY <3>1, <3>2
    <2> QED
        BY <1>0, <2>2, <2>3, <2>4 DEF TokensNotShared
<1>3. ASSUME jobs' \subseteq jobs,
             \A v \in Workers : pc'[v] \in Running =>
                /\ pc[v] \in Running
                /\ task'[v].node = task[v].node /\ task'[v].owner = task[v].owner
      PROVE  TokensNotShared'
    BY <1>0, <1>3 DEF TokensNotShared
<1>4. ASSUME NEW w \in Workers, RunNode(w), \A j \in jobs : ~Take(w, j)
      PROVE  TokensNotShared'
    <2>1. CASE Replay(w)
        <3>1. /\ pc[w] \in Running /\ task[w] \in TaskRecord /\ jobs' = jobs
              /\ task' = [task EXCEPT ![w].attempt = store[task[w].node].attempts]
            BY <1>0, <2>1 DEF Replay, Running, TypeOK
        <3>2. /\ task'[w].node = task[w].node /\ task'[w].owner = task[w].owner
              /\ \A v \in Workers \ {w} : pc'[v] = pc[v] /\ task'[v] = task[v]
            BY <1>0, <2>1, <3>1 DEF Replay, TypeOK, TaskRecord
        <3> QED
            BY <1>3, <3>1, <3>2
    <2>2. CASE ~Replay(w)
        <3>1. /\ jobs' \subseteq jobs
              /\ \A v \in Workers : pc'[v] \in Running => pc[v] \in Running /\ task'[v] = task[v]
            BY <1>0, <1>4, <2>2
               DEF RunNode, LoseRace, CheckpointCompleted, CheckpointPaused, CheckpointSkipped,
                   CheckpointFailed, LeaveClaimedForRetry, RetryRunNode, Running, TypeOK
        <3> QED
            BY <1>3, <3>1
    <2> QED
        BY <2>1, <2>2
<1>5. ASSUME NEW a \in Actors, AdvanceCall(a)
      PROVE  TokensNotShared'
    <2>1. /\ task' = task
          /\ \E next \in {"dispatching", "skipping", "selecting", "idle"} :
                pc' = [pc EXCEPT ![a] = next]
        BY <1>5 DEF AdvanceCall, ReadFrontier, SettleSkip, SelectAfterSkips, Dispatch, HandOut
    <2>2. \A v \in Workers : pc'[v] \in Running => pc[v] \in Running
        BY <1>0, <2>1 DEF TypeOK, Running
    <2>3. CASE jobs' = jobs
        BY <1>3, <2>1, <2>2, <2>3
    <2>4. CASE Dispatch(a)
        <3>1. jobs' = jobs \cup {Job(n, NoOwner) : n \in view[a].batch}
            BY <2>4 DEF Dispatch
        <3> QED
            BY <1>0, <2>1, <2>2, <3>1, TokenAssumption DEF TokensNotShared, Job
    <2> QED
        BY <1>5, <2>3, <2>4 DEF AdvanceCall, ReadFrontier, SettleSkip, SelectAfterSkips
<1>6. ASSUME NEW n \in Nodes, Answer(n)
      PROVE  TokensNotShared'
    <2>1. /\ store[n].status = "paused"
          /\ jobs' \subseteq jobs \cup {Job(n, store[n].owner)}
          /\ task' = task
          /\ \A v \in Workers : pc'[v] \in Running => pc[v] \in Running
        BY <1>0, <1>6 DEF Answer, AnswerAndRelease, AnswerAndRedispatch, AwaitingAnswer, Running, TypeOK
    <2>2. \A v \in Workers : pc[v] \in Running => task[v].node # n
        BY <1>0, <2>1 DEF ExclusiveRun
    <2> QED
        BY <1>0, <2>1, <2>2 DEF TokensNotShared, Job
<1>7. ASSUME NEW w \in Workers, Crash(w)
      PROVE  TokensNotShared'
    <2>1. PICK o \in {task[w].owner, NoOwner} : jobs' = jobs \cup {Job(task[w].node, o)}
        BY <1>7 DEF Crash
    <2>2. /\ pc[w] \in Running
          /\ \A v \in Workers : pc'[v] \in Running => v # w /\ pc[v] \in Running /\ task'[v] = task[v]
        BY <1>0, <1>7 DEF Crash, Running, TypeOK
    <2>3. \A v \in Workers : pc'[v] \in Running => task[v].node # task[w].node
        BY <1>0, <2>2 DEF ExclusiveRun
    <2> QED
        BY <1>0, <2>1, <2>2, <2>3 DEF TokensNotShared, Job
<1>8. ASSUME NEW w \in Workers, CrashInAdvance(w)
      PROVE  TokensNotShared'
    BY <1>0, <1>3, <1>8 DEF CrashInAdvance, Running, TypeOK
<1> QED
    BY <1>1, <1>2, <1>4, <1>5, <1>6, <1>7, <1>8 DEF Next

\* The frontier hands out nodes whose sources are settled or about to be skipped.
LEMMA ReadySound ==
    ASSUME NEW n \in Ready(Graph, store)
    PROVE  Live(n) /\ Sources(Graph, n) \subseteq Settled(store) \cup Skips(Graph, store)
<1>1. /\ n \in Nodes /\ n \notin Skips(Graph, store) /\ store[n].status = "none"
      /\ Sources(Graph, n) \subseteq Settled(store) \cup Skips(Graph, store)
    BY DEF Ready, Nodes
<1>2. ~SkippedGiven(Graph, store, Skips(Graph, store), n)
    BY <1>1, SkipsClosed DEF ClosedUnderSkips, Nodes
<1> QED
    BY <1>1, <1>2 DEF SkippedGiven, Live

LEMMA SkipsSound ==
    ASSUME NEW n \in Skips(Graph, store)
    PROVE  /\ n \in Nodes /\ store[n].status = "none" /\ ~Live(n)
           /\ Sources(Graph, n) \subseteq Settled(store) \cup Skips(Graph, store)
BY SkipsFixed DEF SkippedGiven, Live

LEMMA PendingStep ==
    ASSUME InductiveInv, [Next]_vars
    PROVE  PendingSkipsStand'
<1>0. /\ TypeOK /\ TypeOK' /\ PendingSkipsStand /\ Workers \subseteq Actors
      /\ SettledStays /\ OnlyMayStartMoves
      /\ \A a \in Actors : view[a].skips \subseteq Nodes
    BY TypeStep, StepStore DEF InductiveInv, Actors, TypeOK, IsView
<1>1. Settled(store) \subseteq Settled(store')
    BY <1>0, SettledGrows
\* What a has left to skip stands, whatever the step did.
<1>2. ASSUME NEW a \in Actors, NEW n \in view[a].skips
      PROVE  /\ n \in Nodes
             /\ store'[n].status \in {"none", "skipped"}
             /\ ~Live(n)'
             /\ Sources(Graph, n) \subseteq Settled(store') \cup view[a].skips
    <2>1. /\ n \in Nodes /\ ~Live(n)
          /\ Sources(Graph, n) \subseteq Settled(store) \cup view[a].skips
        BY <1>0 DEF PendingSkipsStand
    <2>2. ASSUME NEW m \in view[a].skips
          PROVE  store'[m].status \in {"none", "skipped"}
        <3>1. m \in Nodes /\ store[m].status \in {"none", "skipped"} /\ ~Live(m)
            BY <1>0 DEF PendingSkipsStand
        <3> QED
            BY <1>0, <3>1 DEF OnlyMayStartMoves, MayStart
    <2>3. \A s \in Sources(Graph, n) : s \notin Settled(store) => store'[s].status # "completed"
        BY <2>1, <2>2
    <2>4. ~Live(n)'
        BY <1>0, <2>1, <2>3, DeadStays
    <2> QED
        BY <1>1, <2>1, <2>2, <2>4
<1> SUFFICES ASSUME NEW b \in Actors
             PROVE  /\ pc'[b] # "skipping" => view'[b].skips = {}
                    /\ \A n \in view'[b].skips :
                          /\ store'[n].status \in {"none", "skipped"}
                          /\ ~Live(n)'
                          /\ Sources(Graph, n) \subseteq Settled(store') \cup view'[b].skips
    BY DEF PendingSkipsStand
<1>3. CASE view'[b].skips = view[b].skips /\ (pc[b] = "skipping" => pc'[b] = "skipping")
    BY <1>0, <1>2, <1>3 DEF PendingSkipsStand
<1>4. CASE view'[b].skips = {}
    BY <1>4
<1>5. ASSUME NEW a \in Actors, ReadFrontier(a)
      PROVE  \/ view'[b].skips = view[b].skips /\ pc'[b] = pc[b]
             \/ view'[b].skips = {}
             \/ view'[b].skips = Skips(Graph, store) /\ pc'[b] = "skipping"
    BY <1>0, <1>5, ReadFrontierView DEF ReadFrontier, TypeOK
<1>6. ASSUME NEW a \in Actors, ReadFrontier(a), view'[b].skips = Skips(Graph, store)
      PROVE  \A n \in view'[b].skips :
                /\ store'[n].status \in {"none", "skipped"}
                /\ ~Live(n)'
                /\ Sources(Graph, n) \subseteq Settled(store') \cup view'[b].skips
    <2>1. store' = store
        BY <1>6 DEF ReadFrontier
    <2> QED
        BY <1>6, <2>1, SkipsSound DEF Live, Dead, ActiveInto
<1>7. ASSUME NEW a \in Actors, NEW m \in Nodes, SettleSkip(a, m)
      PROVE  /\ pc'[b] # "skipping" => view'[b].skips = {}
             /\ \A n \in view'[b].skips :
                   /\ store'[n].status \in {"none", "skipped"}
                   /\ ~Live(n)'
                   /\ Sources(Graph, n) \subseteq Settled(store') \cup view'[b].skips
    <2>1. CASE b # a
        BY <1>0, <1>3, <1>7, <2>1, SettleSkipView DEF TypeOK
    <2>2. CASE b = a
        <3>1. /\ view'[a].skips = view[a].skips \ {m}
              /\ pc'[a] = IF view[a].skips = {m} THEN "selecting" ELSE "skipping"
            BY <1>0, <1>7, SettleSkipView DEF TypeOK
        <3>2. m \in Settled(store')
            <4>1. store \in StoreType /\ store' \in StoreType /\ store' = Skip(store, m)
                BY <1>0, <1>7 DEF SettleSkip, TypeOK, StoreType
            <4>2. store'[m].status \in SETTLED
                BY <4>1, SkipRow DEF SETTLED
            <4> QED
                BY <4>1, <4>2 DEF Settled, StoreType
        <3> QED
            BY <1>2, <2>2, <3>1, <3>2
    <2> QED
        BY <2>1, <2>2
<1>8. CASE \E w \in Workers : RunNode(w)
    BY <1>0, <1>3, <1>8
       DEF RunNode, Take, LoseRace, Replay, CheckpointCompleted, CheckpointPaused, CheckpointSkipped,
           CheckpointFailed, LeaveClaimedForRetry, RetryRunNode, TypeOK
<1>9. CASE \E w \in Workers : Crash(w) \/ CrashInAdvance(w)
    BY <1>0, <1>3, <1>4, <1>9 DEF Crash, CrashInAdvance, Running, NoView, TypeOK
<1>10. CASE \E a \in Actors : SelectAfterSkips(a) \/ Dispatch(a)
    <2>1. PICK a \in Actors : SelectAfterSkips(a) \/ Dispatch(a)
        BY <1>10
    <2>2. /\ view'[a].skips = {}
          /\ b # a => view'[b].skips = view[b].skips /\ pc'[b] = pc[b]
        <3>1. CASE SelectAfterSkips(a)
            BY <1>0, <3>1, SelectView DEF TypeOK
        <3>2. CASE Dispatch(a)
            BY <1>0, <3>2, DispatchView DEF Dispatch, NoView, TypeOK
        <3> QED
            BY <2>1, <3>1, <3>2
    <2> QED
        BY <1>3, <1>4, <2>2
<1>11. CASE \E n \in Nodes : Answer(n)
    BY <1>0, <1>3, <1>11 DEF Answer, AnswerAndRelease, AnswerAndRedispatch, TypeOK
<1>12. CASE UNCHANGED vars
    BY <1>3, <1>12 DEF vars
<1>13. CASE \E a \in Actors : ReadFrontier(a)
    <2>1. PICK a \in Actors : ReadFrontier(a)
        BY <1>13
    <2>2. CASE view'[b].skips = Skips(Graph, store) /\ pc'[b] = "skipping"
        BY <1>6, <2>1, <2>2
    <2> QED
        BY <1>3, <1>4, <1>5, <2>1, <2>2
<1> QED
    BY <1>7, <1>8, <1>9, <1>10, <1>11, <1>12, <1>13 DEF Next, AdvanceCall

LEMMA HandedOutStep ==
    ASSUME InductiveInv, [Next]_vars
    PROVE  HandedOutSoundly'
<1>0. /\ TypeOK /\ TypeOK' /\ HandedOutSoundly /\ Workers \subseteq Actors
      /\ SettledStays
    BY TypeStep, StepStore DEF InductiveInv, Actors
<1>1. \A n \in Nodes : /\ MayStart(n) => MayStart(n)'
                       /\ Live(n) => Live(n)'
    BY <1>0, MayStartStays, LiveStays
<1>2. Settled(store) \subseteq Settled(store')
    BY <1>0, SettledGrows
\* Every job, task and batch of the next state holds nodes that may start now.
<1>3. \A j \in jobs' : MayStart(j.node)
    <2>1. CASE jobs' \subseteq jobs
        BY <1>0, <2>1 DEF HandedOutSoundly
    <2>2. ASSUME NEW a \in Actors, Dispatch(a)
          PROVE  \A j \in jobs' : MayStart(j.node)
        BY <1>0, <2>2 DEF Dispatch, HandedOutSoundly, Job
    <2>3. ASSUME NEW n \in Nodes, AnswerAndRedispatch(n)
          PROVE  \A j \in jobs' : MayStart(j.node)
        <3>1. store[n].status = "paused"
            BY <2>3 DEF AnswerAndRedispatch, AwaitingAnswer
        <3>2. MayStart(n)
            BY <3>1 DEF InductiveInv, DecidedAfterSources, Started, MayStart
        <3> QED
            BY <1>0, <2>3, <3>2 DEF AnswerAndRedispatch, HandedOutSoundly, Job
    <2>4. ASSUME NEW w \in Workers, Crash(w)
          PROVE  \A j \in jobs' : MayStart(j.node)
        BY <1>0, <2>4 DEF Crash, HandedOutSoundly, Job
    <2> QED
        BY <2>1, <2>2, <2>3, <2>4
           DEF Next, RunNode, Take, TakenFrom, LoseRace, Replay, CheckpointCompleted, CheckpointPaused,
               CheckpointSkipped, CheckpointFailed, LeaveClaimedForRetry, RetryRunNode, AdvanceCall,
               ReadFrontier, SettleSkip, SelectAfterSkips, Answer, AnswerAndRelease, CrashInAdvance, vars
<1>4. \A w \in Workers : pc'[w] \in Running => MayStart(task'[w].node)
    <2>1. CASE \A w \in Workers :
                  pc'[w] \in Running => pc[w] \in Running /\ task'[w].node = task[w].node
        BY <1>0, <2>1 DEF HandedOutSoundly
    <2>2. ASSUME NEW w \in Workers, NEW j \in jobs, Take(w, j)
          PROVE  \A v \in Workers : pc'[v] \in Running => MayStart(task'[v].node)
        <3>1. /\ task'[w].node = j.node
              /\ \A v \in Workers \ {w} : pc'[v] = pc[v] /\ task'[v] = task[v]
            BY <1>0, <2>2 DEF Take, TypeOK
        <3> QED
            BY <1>0, <3>1 DEF HandedOutSoundly
    <2>3. ASSUME NEW w \in Workers, Replay(w)
          PROVE  \A v \in Workers : pc'[v] \in Running => MayStart(task'[v].node)
        <3>1. /\ pc[w] \in Running /\ task[w] \in TaskRecord
              /\ task' = [task EXCEPT ![w].attempt = store[task[w].node].attempts]
            BY <1>0, <2>3 DEF Replay, Running, TypeOK
        <3>2. /\ task'[w].node = task[w].node
              /\ \A v \in Workers \ {w} : pc'[v] = pc[v] /\ task'[v] = task[v]
            BY <1>0, <2>3, <3>1 DEF Replay, TypeOK, TaskRecord
        <3> QED
            BY <2>1, <3>1, <3>2
    <2>4. ASSUME NEW w \in Workers, RunNode(w), ~Replay(w), \A j \in jobs : ~Take(w, j)
          PROVE  \A v \in Workers :
                    pc'[v] \in Running => pc[v] \in Running /\ task'[v].node = task[v].node
        BY <1>0, <2>4
           DEF RunNode, LoseRace, CheckpointCompleted, CheckpointPaused, CheckpointSkipped,
               CheckpointFailed, LeaveClaimedForRetry, RetryRunNode, Running, TypeOK
    <2>5. ASSUME NEW a \in Actors, AdvanceCall(a)
          PROVE  \A v \in Workers :
                    pc'[v] \in Running => pc[v] \in Running /\ task'[v].node = task[v].node
        <3>1. /\ task' = task
              /\ \E next \in {"dispatching", "skipping", "selecting", "idle"} :
                    pc' = [pc EXCEPT ![a] = next]
            BY <2>5 DEF AdvanceCall, ReadFrontier, SettleSkip, SelectAfterSkips, Dispatch, HandOut
        <3> QED
            BY <1>0, <3>1 DEF TypeOK, Running
    <2>6. ASSUME NEW w \in Workers, Crash(w) \/ CrashInAdvance(w)
          PROVE  \A v \in Workers :
                    pc'[v] \in Running => pc[v] \in Running /\ task'[v].node = task[v].node
        BY <1>0, <2>6 DEF Crash, CrashInAdvance, Running, TypeOK
    <2>7. ASSUME NEW n \in Nodes, Answer(n)
          PROVE  \A v \in Workers :
                    pc'[v] \in Running => pc[v] \in Running /\ task'[v].node = task[v].node
        BY <1>0, <2>7 DEF Answer, AnswerAndRelease, AnswerAndRedispatch, Running, TypeOK
    <2>8. CASE UNCHANGED vars
        BY <2>1, <2>8 DEF vars
    <2> QED
        BY <2>1, <2>2, <2>3, <2>4, <2>5, <2>6, <2>7, <2>8 DEF Next
<1>5. ASSUME NEW a \in Actors, ReadFrontier(a)
      PROVE  /\ \A n \in view'[a].batch : MayStart(n)
             /\ \A n \in DOMAIN view'[a].ready :
                   Live(n) /\ Sources(Graph, n) \subseteq Settled(store) \cup view'[a].skips
    BY <1>0, <1>5, ReadFrontierView, ReadySound DEF MayStart
<1>6. ASSUME NEW a \in Actors, SelectAfterSkips(a)
      PROVE  /\ \A n \in view'[a].batch : MayStart(n)
             /\ DOMAIN view'[a].ready = {}
    <2>1. view[a].skips = {}
        BY <1>6 DEF SelectAfterSkips, InductiveInv, PendingSkipsStand
    <2> QED
        BY <1>0, <1>6, <2>1, SelectView DEF HandedOutSoundly, MayStart
<1>7. ASSUME NEW a \in Actors, NEW m \in Nodes, SettleSkip(a, m)
      PROVE  /\ view'[a].batch = {}
             /\ \A n \in DOMAIN view'[a].ready :
                   Live(n) /\ Sources(Graph, n) \subseteq Settled(store') \cup view'[a].skips
    <2>1. /\ view'[a].batch = {} /\ view'[a].ready = view[a].ready
          /\ view'[a].skips = view[a].skips \ {m}
        BY <1>0, <1>7, SettleSkipView
    <2>2. store \in StoreType /\ store' \in StoreType /\ store' = Skip(store, m)
        BY <1>0, <1>7 DEF SettleSkip, TypeOK, StoreType
    <2>3. m \in Settled(store')
        BY <2>2, SkipRow DEF Settled, StoreType, SETTLED
    <2> QED
        BY <1>0, <1>2, <2>1, <2>3 DEF HandedOutSoundly
<1>8. ASSUME NEW a \in Actors, view' = [view EXCEPT ![a] = NoView]
      PROVE  view'[a].batch = {} /\ DOMAIN view'[a].ready = {}
    BY <1>0, <1>8, DispatchView DEF NoView
<1>9. ASSUME NEW b \in Actors
      PROVE  /\ \A n \in view'[b].batch : MayStart(n)
             /\ \A n \in DOMAIN view'[b].ready :
                   Live(n) /\ Sources(Graph, n) \subseteq Settled(store') \cup view'[b].skips
    <2>1. CASE view'[b] = view[b]
        BY <1>0, <1>2, <2>1 DEF HandedOutSoundly
    <2>2. ASSUME NEW a \in Actors, AdvanceCall(a) \/ CrashInAdvance(a), view'[b] # view[b]
          PROVE  b = a
        BY <1>0, <2>2, ReadFrontierView, SelectView, SettleSkipView, DispatchView
           DEF AdvanceCall, Dispatch, CrashInAdvance
    <2>3. CASE ReadFrontier(b)
        BY <1>2, <1>5, <2>3
    <2>4. CASE SelectAfterSkips(b)
        BY <1>6, <2>4
    <2>5. CASE \E m \in Nodes : SettleSkip(b, m)
        BY <1>7, <2>5
    <2>6. CASE Dispatch(b) \/ CrashInAdvance(b)
        BY <1>8, <2>6 DEF Dispatch, CrashInAdvance
    <2>7. CASE \E a \in Actors : AdvanceCall(a) \/ CrashInAdvance(a)
        BY <2>1, <2>2, <2>3, <2>4, <2>5, <2>6, <2>7 DEF AdvanceCall
    <2>8. CASE UNCHANGED view
        BY <2>1, <2>8
    <2> QED
        BY <1>0, <2>7, <2>8
           DEF Next, RunNode, Take, LoseRace, Replay, CheckpointCompleted, CheckpointPaused,
               CheckpointSkipped, CheckpointFailed, LeaveClaimedForRetry, RetryRunNode,
               Answer, AnswerAndRelease, AnswerAndRedispatch, Crash, vars
<1>10. /\ \A j \in jobs' : j.node \in Nodes
       /\ \A w \in Workers : pc'[w] \in Running => task'[w].node \in Nodes
       /\ \A a \in Actors : view'[a].batch \subseteq Nodes /\ DOMAIN view'[a].ready \subseteq Nodes
    BY <1>0 DEF TypeOK, IsView
<1> QED
    BY <1>1, <1>3, <1>4, <1>9, <1>10 DEF HandedOutSoundly
-----------------------------------------------------------------------------
LEMMA InductiveInit == Init => InductiveInv
<1> SUFFICES ASSUME Init PROVE InductiveInv
    OBVIOUS
<1>1. TypeOK
    BY InitType
<1>2. /\ \A n \in Nodes : store[n] = NoRow
      /\ jobs = {}
      /\ \A a \in Actors : pc[a] = "idle" /\ view[a] = NoView
      /\ Workers \subseteq Actors
    BY DEF Init, Actors
<1>3. /\ \A a \in Actors : view[a].skips = {} /\ view[a].batch = {} /\ DOMAIN view[a].ready = {}
      /\ \A n \in Nodes : store[n].status = "none" /\ store[n].ports = {}
    BY <1>2 DEF NoView, NoRow
<1>4. \A w \in Workers : pc[w] \notin Running /\ pc[w] # "dead"
    BY <1>2 DEF Running
<1> QED
    BY <1>1, <1>2, <1>3, <1>4
       DEF InductiveInv, ExclusiveRun, DecidedAfterSources, Started, HandedOutSoundly,
           PendingSkipsStand, TokensNotShared, OnlyCompletedLights, OnlyLanesWalkedPast

LEMMA InductiveStep == InductiveInv /\ [Next]_vars => InductiveInv'
<1> SUFFICES ASSUME InductiveInv, [Next]_vars PROVE InductiveInv'
    OBVIOUS
<1>1. TypeOK' /\ OnlyCompletedLights'
    BY TypeStep, StepStore DEF InductiveInv
<1> QED
    BY <1>1, ExclusiveStep, DecidedStep, HandedOutStep, PendingStep, TokensStep, LanesStep
       DEF InductiveInv

\* What workers, queued jobs and half-finished advance calls assume of the store
\* holds through every interleaving of the coordinator's steps.
THEOREM InductiveInvariant == Spec => []InductiveInv
BY InductiveInit, InductiveStep, PTL DEF Spec

\* No node is run by two workers: whoever is inside run_node holds the claimed
\* row of its node under its own token, for any number of workers and any graph.
THEOREM RunsAreExclusive == Spec => []ExclusiveRun
<1>1. InductiveInv => ExclusiveRun
    BY DEF InductiveInv
<1> QED
    BY <1>1, InductiveInvariant, PTL

\* A node is decided after all its sources, started only when lit and skipped
\* only when dead (or never executed): the durable driver decides every branch as
\* the engine's walk does, in every acyclic graph.
THEOREM DecisionsAreSound == Spec => []DecidedAfterSources
<1>1. InductiveInv => DecidedAfterSources
    BY DEF InductiveInv
<1> QED
    BY <1>1, InductiveInvariant, PTL

\* A settled row is never written again, whoever still holds a stale reading of it.
THEOREM SettledIsForever == Spec => SettledForever
<1>1. InductiveInv /\ [Next]_vars
        => [\A n \in Nodes : store[n].status \in SETTLED => store'[n] = store[n]]_vars
    BY StepStore DEF SettledStays
<1> QED
    BY <1>1, InductiveInvariant, PTL DEF Spec, SettledForever

-----------------------------------------------------------------------------
(* The detailed run implements the abstract one, FlowRun, under the        *)
(* refinement mapping of Durable.                                          *)

\* The abstract status of a row, and the abstract status of a whole store.
StatusOf(row) ==
    IF row.status = "none" THEN "pending" ELSE IF row.status \in HELD THEN "running" ELSE row.status

StatusIn(s) == [n \in Nodes |-> StatusOf(s[n])]
LitIn(s) == [n \in Nodes |-> s[n].ports]

LEMMA MappingIsByRow ==
    ASSUME TypeOK, TypeOK'
    PROVE  /\ AbstractStatus = StatusIn(store) /\ AbstractStatus' = StatusIn(store')
           /\ [n \in Nodes |-> store[n].ports] = LitIn(store)
           /\ [n \in Nodes |-> store[n].ports]' = LitIn(store')
<1> USE DEF StatusIn, StatusOf, LitIn, HELD
<1>1. AbstractStatus = StatusIn(store)
    BY DEF AbstractStatus
<1>2. AbstractStatus' = StatusIn(store')
    BY DEF AbstractStatus
<1> QED
    BY <1>1, <1>2

\* A step that writes one row changes one node of the abstract run.
LEMMA OneRow ==
    ASSUME NEW s \in StoreType, NEW t \in StoreType, NEW n \in Nodes,
           \A m \in Nodes \ {n} : t[m] = s[m]
    PROVE  /\ StatusIn(t) = [StatusIn(s) EXCEPT ![n] = StatusOf(t[n])]
           /\ LitIn(t) = [LitIn(s) EXCEPT ![n] = t[n].ports]
BY DEF StatusIn, LitIn

LEMMA OneNode ==
    ASSUME InductiveInv, InductiveInv', NEW n \in Nodes, \A m \in Nodes \ {n} : store'[m] = store[m]
    PROVE  /\ AbstractStatus[n] = StatusOf(store[n])
           /\ AbstractStatus' = [AbstractStatus EXCEPT ![n] = StatusOf(store'[n])]
           /\ LitIn(store') = [LitIn(store) EXCEPT ![n] = store'[n].ports]
           /\ store'[n].ports = store[n].ports => LitIn(store') = LitIn(store)
<1>1. store \in StoreType /\ store' \in StoreType /\ TypeOK /\ TypeOK'
    BY DEF InductiveInv, TypeOK, StoreType
<1>2. AbstractStatus = StatusIn(store) /\ AbstractStatus' = StatusIn(store')
    BY <1>1, MappingIsByRow
<1>3. /\ StatusIn(store') = [StatusIn(store) EXCEPT ![n] = StatusOf(store'[n])]
      /\ LitIn(store') = [LitIn(store) EXCEPT ![n] = store'[n].ports]
    BY <1>1, OneRow
<1>4. StatusIn(store)[n] = StatusOf(store[n])
    BY DEF StatusIn
<1>5. store'[n].ports = store[n].ports => LitIn(store') = LitIn(store)
    BY <1>3 DEF LitIn
<1> QED
    BY <1>2, <1>3, <1>4, <1>5

\* Both runs read the graph alike.
LEMMA SameGraph ==
    /\ Abstract!Nodes = Nodes
    /\ \A n : Abstract!Incoming(Graph, n) = Incoming(Graph, n)
    /\ \A n : Abstract!Sources(Graph, n) = Sources(Graph, n)
BY DEF Abstract!Nodes, Abstract!NodesOf, Abstract!Incoming, Abstract!Sources,
       Nodes, NodesOf, Incoming, Sources

\* A node with settled sources is Reached in the abstract run, and what lights
\* or bars it there is what lights or bars it here.
LEMMA SameReach ==
    ASSUME InductiveInv, NEW n \in Nodes, Sources(Graph, n) \subseteq Settled(store)
    PROVE  /\ Abstract!Reached(n)
           /\ Live(n) => Incoming(Graph, n) = {} \/ Abstract!LitInto(n) # {}
           /\ Dead(Graph, store, n) => Incoming(Graph, n) # {} /\ Abstract!LitInto(n) = {}
<1>1. /\ \A m \in Nodes : store[m].status # "completed" => store[m].ports = {}
      /\ \A m \in Sources(Graph, n) : m \in Nodes
      /\ \A e \in Incoming(Graph, n) : e.source \in Sources(Graph, n)
      /\ TypeOK
    BY SourcesAreNodes DEF InductiveInv, OnlyCompletedLights, Sources
<1>2. Abstract!LitInto(n) = ActiveInto(Graph, store, n)
    BY <1>1, SameGraph DEF Abstract!LitInto, ActiveInto, Active, Incoming, Sources
<1>3. Abstract!Reached(n)
    <2>1. \A m \in Settled(store) : m \in Nodes /\ AbstractStatus[m] \in {"completed", "skipped", "failed"}
        BY <1>1 DEF AbstractStatus, Settled, SETTLED, HELD, TypeOK
    <2> QED
        BY <2>1, SameGraph DEF Abstract!Reached, Abstract!Decided
<1> QED
    BY <1>2, <1>3 DEF Live, Dead

LEMMA RunNodeImplements ==
    ASSUME InductiveInv, InductiveInv', NEW w \in Workers, RunNode(w)
    PROVE  [Abstract!Next]_(Abstract!vars)
<1> DEFINE n == task[w].node
<1>1. /\ TypeOK /\ TypeOK' /\ store \in StoreType /\ store' \in StoreType
      /\ AbstractStatus = StatusIn(store) /\ AbstractStatus' = StatusIn(store')
      /\ [m \in Nodes |-> store[m].ports] = LitIn(store)
      /\ [m \in Nodes |-> store[m].ports]' = LitIn(store')
      /\ Abstract!Nodes = Nodes
      /\ \A m \in Nodes : store[m].status # "completed" => store[m].ports = {}
    BY MappingIsByRow, SameGraph DEF InductiveInv, TypeOK, StoreType, OnlyCompletedLights
<1>2. pc[w] \in Running =>
          /\ n \in Nodes /\ task[w].owner \in Tokens
          /\ store[n].status = "claimed" /\ store[n].ports = {}
          /\ MayStart(n)
    BY <1>1 DEF InductiveInv, TypeOK, ExclusiveRun, HandedOutSoundly
\* What the row of one node becomes decides the abstract step.
<1>3. ASSUME NEW m \in Nodes, \A k \in Nodes \ {m} : store'[k] = store[k],
             StatusOf(store'[m]) = StatusOf(store[m]), store'[m].ports = store[m].ports
      PROVE  UNCHANGED Abstract!vars
    <2>1. StatusIn(store') = StatusIn(store) /\ LitIn(store') = LitIn(store)
        BY <1>1, <1>3, OneRow DEF StatusIn, LitIn
    <2> QED
        BY <1>1, <2>1 DEF Abstract!vars
<1>4. ASSUME NEW j \in jobs, Take(w, j)
      PROVE  [Abstract!Next]_(Abstract!vars)
    <2>1. j.node \in Nodes /\ TokenFor(j) \in Tokens
        BY <1>1, <1>4, FreshTokenType DEF Take
    <2>2. /\ \A k \in Nodes \ {j.node} : store'[k] = store[k]
          /\ store'[j.node].status = "claimed" /\ store'[j.node].ports = store[j.node].ports
          /\ store[j.node].status \in HELD \cup {"none"}
        BY <1>1, <1>4, <2>1, ClaimRow DEF Take, CanClaim, OwnClaim
    <2>3. CASE store[j.node].status \in HELD
        BY <1>3, <2>1, <2>2, <2>3 DEF StatusOf, HELD
    <2>4. CASE store[j.node].status = "none"
        <3>1. MayStart(j.node)
            BY DEF InductiveInv, HandedOutSoundly
        <3>2. /\ Abstract!Reached(j.node)
              /\ Incoming(Graph, j.node) = {} \/ Abstract!LitInto(j.node) # {}
            BY <2>1, <3>1, SameReach DEF MayStart
        <3>3. /\ AbstractStatus[j.node] = "pending"
              /\ AbstractStatus' = [AbstractStatus EXCEPT ![j.node] = "running"]
              /\ LitIn(store') = LitIn(store)
            BY <2>1, <2>2, <2>4, OneNode DEF StatusOf, HELD
        <3>4. Abstract!Start(j.node)
            BY <1>1, <3>2, <3>3, SameGraph DEF Abstract!Start
        <3> QED
            BY <1>1, <2>1, <3>4 DEF Abstract!Next
    <2> QED
        BY <2>2, <2>3, <2>4
<1>5. CASE store' = store
    BY <1>1, <1>5 DEF Abstract!vars
<1>6. CASE CheckpointCompleted(w)
    <2>1. pc[w] \in Running /\ choice[n] \in SUBSET Ports
        BY <1>1, <1>2, <1>6 DEF CheckpointCompleted, Running, TypeOK
    <2>2. /\ \A k \in Nodes \ {n} : store'[k] = store[k]
          /\ store'[n].status = "completed" /\ store'[n].ports = choice[n]
        BY <1>1, <1>2, <1>6, <2>1, CompleteRow DEF CheckpointCompleted
    <2>3. /\ AbstractStatus[n] = "running"
          /\ AbstractStatus' = [AbstractStatus EXCEPT ![n] = "completed"]
          /\ LitIn(store') = [LitIn(store) EXCEPT ![n] = choice[n]]
        BY <1>2, <2>1, <2>2, OneNode DEF StatusOf, HELD
    <2>4. \E ports \in SUBSET Ports : Abstract!Finish(n, ports)
        BY <1>1, <2>1, <2>3 DEF Abstract!Finish
    <2> QED
        BY <1>1, <1>2, <2>1, <2>4 DEF Abstract!Next
<1>7. CASE CheckpointPaused(w)
    <2>1. pc[w] \in Running
        BY <1>7 DEF CheckpointPaused, Running
    <2>2. /\ \A k \in Nodes \ {n} : store'[k] = store[k]
          /\ store'[n].status = "paused" /\ store'[n].ports = {}
        BY <1>1, <1>2, <1>7, <2>1, PauseRow DEF CheckpointPaused
    <2>3. UNCHANGED Abstract!vars
        BY <1>2, <1>3, <2>1, <2>2 DEF StatusOf, HELD
    <2> QED
        BY <2>3
<1>8. CASE CheckpointSkipped(w)
    <2>1. pc[w] \in Running /\ pc[w] = "dead"
        BY <1>8 DEF CheckpointSkipped, Running
    <2>2. n \in Graph.layout
        BY <2>1 DEF InductiveInv, OnlyLanesWalkedPast
    <2>3. /\ \A k \in Nodes \ {n} : store'[k] = store[k]
          /\ store'[n].status = "skipped" /\ store'[n].ports = {}
        BY <1>1, <1>2, <1>8, <2>1, SkipRow DEF CheckpointSkipped, SETTLED
    <2>4. /\ AbstractStatus[n] = "running"
          /\ AbstractStatus' = [AbstractStatus EXCEPT ![n] = "skipped"]
          /\ LitIn(store') = LitIn(store)
        BY <1>2, <2>1, <2>3, OneNode DEF StatusOf, HELD
    <2>5. Abstract!Reached(n)
        BY <1>2, <2>1, SameReach DEF MayStart
    <2>6. Abstract!PassOver(n)
        BY <1>1, <2>2, <2>4, <2>5, SameGraph DEF Abstract!PassOver
    <2> QED
        BY <1>1, <1>2, <2>1, <2>6 DEF Abstract!Next
<1>9. CASE CheckpointFailed(w)
    <2>1. pc[w] \in Running
        BY <1>9 DEF CheckpointFailed, Running
    <2>2. /\ \A k \in Nodes \ {n} : store'[k] = store[k]
          /\ store'[n].status = "failed" /\ store'[n].ports = {}
        BY <1>1, <1>2, <1>9, <2>1, FailRow DEF CheckpointFailed
    <2>3. /\ AbstractStatus[n] = "running"
          /\ AbstractStatus' = [AbstractStatus EXCEPT ![n] = "failed"]
          /\ LitIn(store') = LitIn(store)
        BY <1>2, <2>1, <2>2, OneNode DEF StatusOf, HELD
    <2>4. Abstract!Break(n)
        BY <1>1, <2>3 DEF Abstract!Break
    <2> QED
        BY <1>1, <1>2, <2>1, <2>4 DEF Abstract!Next
<1>10. CASE RetryRunNode(w)
    <2>1. pc[w] \in Running
        BY <1>10 DEF RetryRunNode, Running
    <2>2. /\ \A k \in Nodes \ {n} : store'[k] = store[k]
          /\ store'[n].status = "claimed" /\ store'[n].ports = store[n].ports
        BY <1>1, <1>2, <1>10, <2>1, ClaimRow DEF RetryRunNode
    <2>3. UNCHANGED Abstract!vars
        BY <1>2, <1>3, <2>1, <2>2 DEF StatusOf, HELD
    <2> QED
        BY <2>3
<1> QED
    BY <1>4, <1>5, <1>6, <1>7, <1>8, <1>9, <1>10
       DEF RunNode, LoseRace, Replay, LeaveClaimedForRetry

LEMMA StepImplements ==
    ASSUME InductiveInv, InductiveInv', [Next]_vars
    PROVE  [Abstract!Next]_(Abstract!vars)
<1>1. /\ TypeOK /\ TypeOK' /\ store \in StoreType /\ store' \in StoreType
      /\ AbstractStatus = StatusIn(store) /\ AbstractStatus' = StatusIn(store')
      /\ [m \in Nodes |-> store[m].ports] = LitIn(store)
      /\ [m \in Nodes |-> store[m].ports]' = LitIn(store')
      /\ Abstract!Nodes = Nodes
      /\ \A m \in Nodes : store[m].status # "completed" => store[m].ports = {}
    BY MappingIsByRow, SameGraph DEF InductiveInv, TypeOK, StoreType, OnlyCompletedLights
<1>2. CASE store' = store
    BY <1>1, <1>2 DEF Abstract!vars
<1>3. ASSUME NEW a \in Actors, NEW n \in Nodes, SettleSkip(a, n)
      PROVE  [Abstract!Next]_(Abstract!vars)
    <2>1. /\ store' = Skip(store, n)
          /\ store[n].status \in {"none", "skipped"} /\ ~Live(n)
          /\ Sources(Graph, n) \subseteq Settled(store)
        BY <1>3 DEF SettleSkip, InductiveInv, PendingSkipsStand
    <2>2. CASE store[n].status = "skipped"
        BY <1>1, <1>2, <2>1, <2>2, SkipRow DEF SETTLED
    <2>3. CASE store[n].status = "none"
        <3>1. /\ \A k \in Nodes \ {n} : store'[k] = store[k]
              /\ store'[n].status = "skipped" /\ store'[n].ports = {}
            BY <1>1, <2>1, <2>3, SkipRow DEF SETTLED
        <3>2. /\ AbstractStatus[n] = "pending"
              /\ AbstractStatus' = [AbstractStatus EXCEPT ![n] = "skipped"]
              /\ LitIn(store') = LitIn(store)
            BY <1>1, <2>3, <3>1, OneNode DEF StatusOf, HELD
        <3>3. /\ Abstract!Reached(n)
              /\ (Incoming(Graph, n) # {} /\ Abstract!LitInto(n) = {}) \/ n \in Graph.layout
            BY <2>1, SameReach, GraphAssumption DEF Live, WellFormed
        <3>4. Abstract!PassOver(n)
            BY <1>1, <3>2, <3>3, SameGraph DEF Abstract!PassOver
        <3> QED
            BY <1>1, <3>4 DEF Abstract!Next
    <2> QED
        BY <2>1, <2>2, <2>3
<1>4. ASSUME NEW n \in Nodes, AnswerAndRelease(n)
      PROVE  [Abstract!Next]_(Abstract!vars)
    <2>1. store[n].status = "paused" /\ store' = Release(store, n)
        BY <1>4 DEF AnswerAndRelease, AwaitingAnswer
    <2>2. /\ \A k \in Nodes \ {n} : store'[k] = store[k]
          /\ store'[n].status = "none" /\ store'[n].ports = {}
        BY <1>1, <2>1, ReleaseRow DEF NoRow
    <2>5. store'[n].ports = store[n].ports
        BY <1>1, <2>1, <2>2
    <2>3. /\ AbstractStatus[n] = "running"
          /\ AbstractStatus' = [AbstractStatus EXCEPT ![n] = "pending"]
          /\ LitIn(store') = LitIn(store)
        BY <2>1, <2>2, <2>5, OneNode DEF StatusOf, HELD
    <2>4. Abstract!Suspend(n)
        BY <1>1, <2>3 DEF Abstract!Suspend
    <2> QED
        BY <1>1, <2>4 DEF Abstract!Next
<1> QED
    BY <1>2, <1>3, <1>4, RunNodeImplements
       DEF Next, AdvanceCall, ReadFrontier, SelectAfterSkips, Dispatch, Answer,
           AnswerAndRedispatch, Crash, CrashInAdvance, vars

LEMMA InitImplements ==
    ASSUME Init
    PROVE  Abstract!Init
<1>1. \A n \in Nodes : store[n].status = "none" /\ store[n].ports = {}
    BY DEF Init, NoRow
<1> QED
    BY <1>1, SameGraph DEF Abstract!Init, AbstractStatus, HELD

\* The durable driver, with its store, its queue and its crashes, implements the
\* walk of a flow run: every step of a coordinator, a worker or the host is one
\* step of FlowRun on the node it decides, or changes nothing there.
THEOREM Implementation == Spec => ImplementsFlowRun
<1>1. Init => Abstract!Init
    BY InitImplements
<1>2. InductiveInv /\ InductiveInv' /\ [Next]_vars => [Abstract!Next]_(Abstract!vars)
    BY StepImplements
<1> QED
    BY <1>1, <1>2, InductiveInvariant, PTL DEF Spec, ImplementsFlowRun, Abstract!Spec

-----------------------------------------------------------------------------
(***************************************************************************)
(* What the driver of Durable counts and promises once: attempts within    *)
(* the retry policy, one diagnostic for every skip, and a gate nobody      *)
(* passes before it is answered.                                           *)
(***************************************************************************)

(* Attempts.  The store counts claims, the history counts the work done;   *)
(* while no worker has died, the two agree but for the claims that parked. *)

RowCounts(n) ==
    /\ runs[n] <= TriesFor(n)
    /\ store[n].status = "none" => store[n].attempts = 0 /\ runs[n] = 0
    /\ store[n].status = "paused" => n \in Gates /\ runs[n] = 0
    /\ n \in Gates \ answered => runs[n] = 0
    /\ store[n].status = "claimed" => \E w \in Workers : pc[w] \in Running /\ task[w].node = n
    /\ (n \notin Gates /\ store[n].status = "failed") => runs[n] = TriesFor(n)

WorkerCounts(w) ==
    LET n == task[w].node
        made == store[n].attempts
    IN  /\ pc[w] = "claimed" =>
              runs[n] < made /\ runs[n] < TriesFor(n) /\ (n \notin Gates => made = runs[n] + 1)
        /\ pc[w] \in {"ran", "raised"} =>
              task[w].attempt = made /\ runs[n] <= made /\ (n \notin Gates => made = runs[n])
        /\ pc[w] = "parked" => n \in Gates /\ runs[n] = 0
        /\ pc[w] = "retry" =>
              made < TriesFor(n) /\ runs[n] <= made /\ (n \notin Gates => made = runs[n])

Counts ==
    /\ \A n \in Nodes : RowCounts(n)
    /\ \A w \in Workers : WorkerCounts(w)

CountsInv == InductiveInv /\ (crashes = 0 => Counts)

(* Diagnostics.  A skip that was written is told by one caller, or has     *)
(* been.                                                                   *)

TellsInv ==
    /\ \A a \in Actors :
          /\ pc[a] \notin {"skipping", "selecting"} => view[a].told = {}
          /\ \A n \in view[a].told : store[n].status = "skipped" /\ reported[n] = 0
    /\ \A a, b \in Actors : a # b => view[a].told \cap view[b].told = {}
    /\ SkipReportedOnce
    /\ crashes = 0 =>
          \A n \in Nodes : store[n].status = "skipped" =>
              reported[n] = 1 \/ n \in Graph.layout \ Graph.notes \/ \E a \in Actors : n \in view[a].told

(* Gates.  No executor of a gate has run before the answer is recorded.    *)

GatesInv ==
    /\ \A g \in Gates \ answered : store[g].status \notin {"completed", "failed"}
    /\ \A w \in Workers :
          pc[w] \in {"ran", "raised", "retry"} => task[w].node \notin Gates \ answered

-----------------------------------------------------------------------------
(* Attempts *)

LEMMA TriesType ==
    ASSUME NEW n
    PROVE  /\ TriesFor(n) \in Nat
           /\ TriesFor(n) >= 1
           /\ n \in UnsafeToReplay => TriesFor(n) = 1
BY PolicyAssumption DEF TriesFor, AtLeastOne

\* A step that writes the row of one node disturbs nobody's counts but its own.
LEMMA CountsLocally ==
    ASSUME InductiveInv, Counts, NEW n \in Nodes, NEW W \in SUBSET Workers,
           \A m \in Nodes \ {n} : store'[m] = store[m] /\ runs'[m] = runs[m],
           answered \subseteq answered',
           \A v \in Workers \ W :
              /\ pc'[v] = pc[v] \/ (pc[v] \notin Running /\ pc'[v] \notin Running)
              /\ task'[v] = task[v]
              /\ pc[v] \in Running => task[v].node # n,
           \A v \in W : (pc[v] \in Running => task[v].node = n) /\ WorkerCounts(v)',
           RowCounts(n)'
    PROVE  Counts'
<1>1. TypeOK
    BY DEF InductiveInv
<1>2. ASSUME NEW m \in Nodes \ {n}
      PROVE  RowCounts(m)'
    <2>1. RowCounts(m) /\ store'[m] = store[m] /\ runs'[m] = runs[m]
        BY DEF Counts
    <2>2. ASSUME NEW v \in Workers, pc[v] \in Running, task[v].node = m
          PROVE  pc'[v] \in Running /\ task'[v].node = m
        BY <2>2
    <2> QED
        BY <2>1, <2>2 DEF RowCounts
<1>3. ASSUME NEW v \in Workers \ W
      PROVE  WorkerCounts(v)'
    <2>1. CASE pc[v] \in Running
        <3>1. task[v].node \in Nodes \ {n}
            BY <1>1, <2>1 DEF TypeOK
        <3>2. pc'[v] = pc[v] /\ task'[v] = task[v]
            BY <2>1
        <3>3. /\ store'[task[v].node] = store[task[v].node]
              /\ runs'[task[v].node] = runs[task[v].node]
            BY <3>1
        <3>4. WorkerCounts(v)
            BY DEF Counts
        <3> QED
            BY <3>2, <3>3, <3>4 DEF WorkerCounts
    <2>2. CASE pc'[v] \notin Running
        BY <2>2 DEF WorkerCounts, Running
    <2> QED
        BY <2>1, <2>2
<1> QED
    BY <1>2, <1>3 DEF Counts

\* The same for a step of one worker on one node.
LEMMA CountsByWorker ==
    ASSUME InductiveInv, Counts, NEW n \in Nodes, NEW w \in Workers,
           \A m \in Nodes \ {n} : store'[m] = store[m] /\ runs'[m] = runs[m],
           answered \subseteq answered',
           \A v \in Workers \ {w} :
              pc'[v] = pc[v] /\ task'[v] = task[v] /\ (pc[v] \in Running => task[v].node # n),
           pc[w] \in Running => task[w].node = n,
           WorkerCounts(w)',
           RowCounts(n)'
    PROVE  Counts'
<1>1. {w} \in SUBSET Workers
    OBVIOUS
<1>2. \A v \in {w} : (pc[v] \in Running => task[v].node = n) /\ WorkerCounts(v)'
    <2>1. ASSUME NEW v, v = w PROVE (pc[v] \in Running => task[v].node = n) /\ WorkerCounts(v)'
        BY <2>1
    <2> QED
        BY <2>1
<1> QED
    BY <1>1, <1>2, CountsLocally

LEMMA CountsRunNode ==
    ASSUME InductiveInv, Counts, NEW w \in Workers, RunNode(w)
    PROVE  Counts'
<1> SUFFICES ASSUME NEW n, n = task[w].node PROVE Counts'
    OBVIOUS
<1>1. /\ TypeOK /\ store \in StoreType /\ w \in Actors /\ {w} \subseteq Workers
      /\ WorkerCounts(w) /\ \A m \in Nodes : RowCounts(m)
      /\ runs \in [Nodes -> Nat]
      /\ \A m \in Nodes : store[m].attempts \in Nat
    BY DEF InductiveInv, TypeOK, StoreType, Actors, Counts, Row
<1>2. pc[w] \in Running =>
          /\ n \in Nodes /\ task[w].owner \in Tokens /\ task[w] \in TaskRecord
          /\ store[n].status = "claimed"
          /\ RowCounts(n)
          /\ \A v \in Workers \ {w} : pc[v] \in Running => task[v].node # n
    BY <1>1 DEF InductiveInv, TypeOK, ExclusiveRun
<1>3. ASSUME NEW m \in Nodes
      PROVE  TriesFor(m) \in Nat /\ TriesFor(m) >= 1
    BY TriesType
<1>4. ASSUME NEW j \in jobs, Take(w, j)
      PROVE  Counts'
    <2>1. j.node \in Nodes /\ TokenFor(j) \in Tokens
        BY <1>1, <1>4, FreshTokenType DEF Take
    <2>2. \A v \in Workers : pc[v] \in Running => task[v].node # j.node
        BY <1>4, ClaimNotShared
    <2>3. store[j.node].status \in {"none", "paused"}
        <3>1. store[j.node].status # "claimed"
            BY <1>1, <2>1, <2>2 DEF RowCounts
        <3> QED
            BY <1>4, <3>1 DEF Take, CanClaim, OwnClaim, HELD
    <2>4. /\ runs[j.node] = 0 /\ RowCounts(j.node)
        BY <1>1, <2>1, <2>3 DEF RowCounts
    <2>5. /\ \A m \in Nodes \ {j.node} : store'[m] = store[m]
          /\ store'[j.node].status = "claimed"
          /\ store'[j.node].attempts = store[j.node].attempts + 1
          /\ runs' = runs /\ answered' = answered
        BY <1>1, <1>4, <2>1, ClaimRow DEF Take, Claim, StoreType
    <2>6. /\ pc' = [pc EXCEPT ![w] = "claimed"] /\ pc[w] = "idle"
          /\ pc'[w] = "claimed" /\ task'[w].node = j.node
          /\ \A v \in Workers \ {w} : pc'[v] = pc[v] /\ task'[v] = task[v]
        BY <1>1, <1>4 DEF Take, TypeOK
    <2>7. RowCounts(j.node)'
        BY <2>4, <2>5, <2>6 DEF RowCounts, Running
    <2>8. store[j.node].status = "none" => store[j.node].attempts = 0
        BY <2>4 DEF RowCounts
    <2>9. store[j.node].status = "paused" => j.node \in Gates
        BY <2>4 DEF RowCounts
    <2>10. WorkerCounts(w)'
        BY <1>1, <1>3, <2>1, <2>3, <2>4, <2>5, <2>6, <2>8, <2>9 DEF WorkerCounts
    <2> QED
        BY <1>1, <2>1, <2>2, <2>5, <2>6, <2>7, <2>10, CountsByWorker DEF Running
<1>5. CASE Replay(w)
    <2>1. pc[w] \in Running /\ pc[w] = "claimed"
        BY <1>5 DEF Replay, Running
    <2>2. /\ task' = [task EXCEPT ![w] = [task[w] EXCEPT !.attempt = store[n].attempts]]
          /\ store' = store /\ answered' = answered
        BY <1>5 DEF Replay
    <2>3. /\ task'[w].node = n /\ task'[w].attempt = store[n].attempts
          /\ \A v \in Workers \ {w} : task'[v] = task[v]
        BY <1>1, <1>2, <2>1, <2>2 DEF TypeOK, TaskRecord
    <2>4. /\ runs[n] < store[n].attempts /\ runs[n] < TriesFor(n)
          /\ n \notin Gates => store[n].attempts = runs[n] + 1
        BY <1>1, <2>1 DEF WorkerCounts
    <2>0. \E outcome \in {"dead", "parked", "ran", "raised"} :
            /\ pc' = [pc EXCEPT ![w] = outcome]
            /\ \/ outcome = "dead" /\ runs' = runs
               \/ outcome = "parked" /\ runs' = runs /\ n \in Gates \ answered
               \/ outcome \in {"ran", "raised"} /\ runs' = [runs EXCEPT ![n] = @ + 1]
                                              /\ n \notin Gates \ answered
        BY <1>5 DEF Replay, Parks
    <2>5. /\ \A v \in Workers \ {w} : pc'[v] = pc[v]
          /\ \/ pc'[w] = "dead" /\ runs' = runs
             \/ pc'[w] = "parked" /\ runs' = runs /\ n \in Gates \ answered
             \/ pc'[w] \in {"ran", "raised"} /\ runs' = [runs EXCEPT ![n] = @ + 1]
                                             /\ n \notin Gates \ answered
        BY <1>1, <2>0 DEF TypeOK
    <2>6. pc'[w] \in Running
        BY <2>5 DEF Running
    <2>7. /\ \A m \in Nodes \ {n} : store'[m] = store[m] /\ runs'[m] = runs[m]
          /\ runs'[n] \in {runs[n], runs[n] + 1}
          /\ runs'[n] # runs[n] => n \notin Gates \ answered
        BY <1>1, <1>2, <2>1, <2>2, <2>5
    <2>8. RowCounts(n)'
        BY <1>1, <1>2, <1>3, <2>1, <2>2, <2>3, <2>4, <2>6, <2>7 DEF RowCounts
    <2>9. RowCounts(n)
        BY <1>2, <2>1
    <2>10. WorkerCounts(w)'
        <3>1. CASE pc'[w] = "dead"
            BY <3>1 DEF WorkerCounts
        <3>2. CASE pc'[w] = "parked" /\ runs' = runs /\ n \in Gates \ answered
            BY <2>3, <2>9, <3>2 DEF WorkerCounts, RowCounts
        <3>3. CASE pc'[w] \in {"ran", "raised"} /\ runs' = [runs EXCEPT ![n] = @ + 1]
            <4>1. runs'[n] = runs[n] + 1
                BY <1>1, <1>2, <2>1, <3>3
            <4>2. runs[n] \in Nat /\ store[n].attempts \in Nat
                BY <1>1, <1>2, <2>1
            <4> QED
                BY <2>2, <2>3, <2>4, <3>3, <4>1, <4>2 DEF WorkerCounts
        <3> QED
            BY <2>5, <3>1, <3>2, <3>3
    <2> QED
        BY <1>1, <1>2, <2>1, <2>2, <2>3, <2>5, <2>7, <2>8, <2>10, CountsByWorker
<1>6. CASE CheckpointCompleted(w) \/ CheckpointPaused(w) \/ CheckpointSkipped(w) \/ CheckpointFailed(w)
    <2>0. TypeOK /\ Workers \subseteq Actors
        BY <1>1 DEF Actors
    <2>1. /\ pc[w] \in Running /\ pc'[w] \notin Running
          /\ \A v \in Workers \ {w} : pc'[v] = pc[v] /\ task'[v] = task[v]
        BY <2>0, <1>6 DEF CheckpointCompleted, CheckpointPaused, CheckpointSkipped,
           CheckpointFailed, Running, TypeOK
    <2>5. runs' = runs /\ answered' = answered
        BY <1>6 DEF CheckpointCompleted, CheckpointPaused, CheckpointSkipped, CheckpointFailed
    <2>2. n \in Nodes /\ choice[n] \in SUBSET Ports /\ store[n].status = "claimed" /\ RowCounts(n)
        BY <1>1, <1>2, <2>1 DEF TypeOK
    <2>3. WorkerCounts(w)'
        BY <2>1 DEF WorkerCounts, Running
    <2>4. (\A m \in Nodes \ {n} : store'[m] = store[m]) /\ RowCounts(n)'
        <3>1. CASE CheckpointCompleted(w)
            <4>1. (\A m \in Nodes \ {n} : store'[m] = store[m]) /\ store'[n].status = "completed"
                BY <1>1, <2>2, <3>1, CompleteRow DEF CheckpointCompleted
            <4> QED
                BY <2>2, <2>5, <4>1 DEF RowCounts
        <3>2. CASE CheckpointPaused(w)
            <4>1. (\A m \in Nodes \ {n} : store'[m] = store[m]) /\ store'[n].status = "paused"
                BY <1>1, <2>2, <3>2, PauseRow DEF CheckpointPaused
            <4>2. n \in Gates /\ runs[n] = 0
                BY <1>1, <3>2 DEF CheckpointPaused, WorkerCounts
            <4> QED
                BY <2>2, <2>5, <4>1, <4>2 DEF RowCounts
        <3>3. CASE CheckpointSkipped(w)
            <4>1. (\A m \in Nodes \ {n} : store'[m] = store[m]) /\ store'[n].status = "skipped"
                BY <1>1, <2>2, <3>3, SkipRow DEF CheckpointSkipped, SETTLED
            <4> QED
                BY <2>2, <2>5, <4>1 DEF RowCounts
        <3>4. CASE CheckpointFailed(w)
            <4>1. (\A m \in Nodes \ {n} : store'[m] = store[m]) /\ store'[n].status = "failed"
                BY <1>1, <2>2, <3>4, FailRow DEF CheckpointFailed
            <4>2. pc[w] = "raised" /\ ~(task[w].attempt < TriesFor(n))
                BY <3>4 DEF CheckpointFailed, AnotherTry
            <4>3. n \notin Gates => task[w].attempt = runs[n]
                BY <1>1, <4>2 DEF WorkerCounts
            <4>4. n \notin Gates => runs[n] = TriesFor(n)
                BY <1>1, <1>3, <2>2, <4>2, <4>3 DEF RowCounts
            <4> QED
                BY <2>2, <2>5, <4>1, <4>4 DEF RowCounts
        <3> QED
            BY <1>6, <3>1, <3>2, <3>3, <3>4
    <2> QED
        BY <1>1, <1>2, <2>1, <2>2, <2>3, <2>4, <2>5, CountsByWorker
<1>7. CASE LeaveClaimedForRetry(w)
    <2>1. /\ pc[w] \in Running /\ pc[w] = "raised" /\ pc'[w] = "retry" /\ pc'[w] \in Running
          /\ \A v \in Workers \ {w} : pc'[v] = pc[v]
          /\ task' = task /\ runs' = runs /\ answered' = answered /\ store' = store
          /\ task[w].attempt < TriesFor(n)
        BY <1>1, <1>7 DEF LeaveClaimedForRetry, AnotherTry, Running, TypeOK
    <2>2. n \in Nodes /\ RowCounts(n)
        BY <1>2, <2>1
    <2>3. RowCounts(n)'
        BY <2>1, <2>2 DEF RowCounts
    <2>4. WorkerCounts(w)'
        BY <1>1, <2>1 DEF WorkerCounts
    <2> QED
        BY <1>1, <1>2, <2>1, <2>2, <2>3, <2>4, CountsByWorker
<1>8. CASE RetryRunNode(w)
    <2>1. /\ pc[w] \in Running /\ pc[w] = "retry" /\ pc'[w] = "claimed" /\ pc'[w] \in Running
          /\ \A v \in Workers \ {w} : pc'[v] = pc[v]
          /\ task' = task /\ runs' = runs /\ answered' = answered
        BY <1>1, <1>8 DEF RetryRunNode, Running, TypeOK
    <2>2. /\ n \in Nodes /\ RowCounts(n)
          /\ \A m \in Nodes \ {n} : store'[m] = store[m]
          /\ store'[n].status = "claimed" /\ store'[n].attempts = store[n].attempts + 1
        BY <1>1, <1>2, <1>8, <2>1, ClaimRow DEF RetryRunNode, Claim, StoreType
    <2>3. RowCounts(n)'
        BY <2>1, <2>2 DEF RowCounts
    <2>4. WorkerCounts(w)'
        BY <1>1, <1>3, <2>1, <2>2 DEF WorkerCounts
    <2> QED
        BY <1>1, <1>2, <2>1, <2>2, <2>3, <2>4, CountsByWorker
<1>9. CASE UNCHANGED <<store, pc, task, runs, answered>>
    BY <1>9 DEF Counts, RowCounts, WorkerCounts
<1> QED
    BY <1>4, <1>5, <1>6, <1>7, <1>8, <1>9 DEF RunNode, LoseRace

LEMMA CountsStep ==
    ASSUME InductiveInv, Counts, [Next]_vars, crashes' = 0
    PROVE  Counts'
<1>1. /\ TypeOK /\ store \in StoreType /\ Workers \subseteq Actors /\ crashes \in Nat
      /\ \A m \in Nodes : RowCounts(m)
    BY DEF InductiveInv, TypeOK, StoreType, Actors, Counts
<1>2. CASE UNCHANGED vars
    BY <1>2 DEF vars, Counts, RowCounts, WorkerCounts
<1>3. ASSUME NEW w \in Workers, RunNode(w)
      PROVE  Counts'
    BY <1>3, CountsRunNode
<1>4. ASSUME NEW a \in Actors, AdvanceCall(a)
      PROVE  Counts'
    <2>1. /\ task' = task /\ runs' = runs /\ answered' = answered
          /\ pc[a] \notin Running
          /\ \E next \in {"dispatching", "skipping", "selecting", "idle"} :
                pc' = [pc EXCEPT ![a] = next]
        BY <1>4 DEF AdvanceCall, ReadFrontier, MayAdvance, SettleSkip, SelectAfterSkips, Dispatch,
           HandOut, Running
    <2>2. \A v \in Workers : pc'[v] = pc[v] \/ (pc[v] \notin Running /\ pc'[v] \notin Running)
        BY <1>1, <2>1 DEF TypeOK, Running
    <2>3. CASE store' = store
        <3>1. \A v \in Workers : pc[v] \in Running => pc'[v] = pc[v]
            BY <2>2
        <3>2. \A m \in Nodes : RowCounts(m)'
            BY <1>1, <2>1, <2>3, <3>1 DEF RowCounts
        <3>3. \A v \in Workers : WorkerCounts(v)'
            BY <2>1, <2>2, <2>3 DEF Counts, WorkerCounts, Running
        <3> QED
            BY <3>2, <3>3 DEF Counts
    <2>4. ASSUME NEW n \in Nodes, SettleSkip(a, n)
          PROVE  Counts'
        <3>1. store[n].status \in {"none", "skipped"} /\ store' = Skip(store, n)
            BY <2>4 DEF SettleSkip, InductiveInv, PendingSkipsStand
        <3>2. /\ \A m \in Nodes \ {n} : store'[m] = store[m]
              /\ store'[n].status = "skipped"
            BY <1>1, <3>1, SkipRow DEF SETTLED
        <3>3. RowCounts(n)'
            BY <1>1, <2>1, <3>1, <3>2 DEF RowCounts
        <3>4. \A v \in Workers : pc[v] \in Running => task[v].node # n
            BY <3>1 DEF InductiveInv, ExclusiveRun
        <3>5. {} \in SUBSET Workers /\ Workers \ {} = Workers
            OBVIOUS
        <3> QED
            BY <2>1, <2>2, <3>2, <3>3, <3>4, <3>5, CountsLocally
    <2> QED
        BY <1>4, <2>3, <2>4 DEF AdvanceCall, ReadFrontier, SelectAfterSkips, Dispatch
<1>5. ASSUME NEW w \in Workers, Crash(w) \/ CrashInAdvance(w)
      PROVE  FALSE
    BY <1>1, <1>5 DEF Crash, CrashInAdvance
<1>6. ASSUME NEW n \in Nodes, Answer(n)
      PROVE  Counts'
    <2>1. store[n].status = "paused" /\ n \in Gates \ answered /\ RowCounts(n) /\ runs[n] = 0
        BY <1>1, <1>6 DEF Answer, AnswerAndRelease, AnswerAndRedispatch, AwaitingAnswer, RowCounts
    <2>2. /\ task' = task /\ runs' = runs /\ answered' = answered \cup {n}
          /\ \A v \in Workers : pc'[v] = pc[v]
        BY <1>1, <1>6, ActorAssumption DEF Answer, AnswerAndRelease, AnswerAndRedispatch, TypeOK, Actors
    <2>3. /\ \A m \in Nodes \ {n} : store'[m] = store[m]
          /\ store'[n] = store[n] \/ store'[n] = NoRow
        BY <1>1, <1>6, ReleaseRow DEF Answer, AnswerAndRelease, AnswerAndRedispatch
    <2>4. RowCounts(n)'
        BY <2>1, <2>2, <2>3 DEF RowCounts, NoRow
    <2>5. \A v \in Workers : pc[v] \in Running => task[v].node # n
        BY <2>1 DEF InductiveInv, ExclusiveRun
    <2>6. {} \in SUBSET Workers /\ Workers \ {} = Workers
        OBVIOUS
    <2> QED
        BY <2>2, <2>3, <2>4, <2>5, <2>6, CountsLocally
<1> QED
    BY <1>2, <1>3, <1>4, <1>5, <1>6 DEF Next

LEMMA CountsInit ==
    ASSUME Init
    PROVE  Counts
<1>1. \A n \in Nodes : store[n] = NoRow /\ runs[n] = 0 /\ TriesFor(n) >= 1 /\ TriesFor(n) \in Nat
    BY TriesType DEF Init
<1>2. \A w \in Workers : pc[w] = "idle"
    BY DEF Init, Actors
<1> QED
    BY <1>1, <1>2 DEF Counts, RowCounts, WorkerCounts, NoRow

THEOREM CountsInvariant == Spec => []CountsInv
<1>1. Init => CountsInv
    BY CountsInit, InductiveInit DEF CountsInv
<1>2. CountsInv /\ [Next]_vars => CountsInv'
    <2> SUFFICES ASSUME CountsInv, [Next]_vars PROVE CountsInv'
        OBVIOUS
    <2>1. crashes' = 0 => crashes = 0
        BY DEF CountsInv, InductiveInv, TypeOK, Next, RunNode, Take, LoseRace, Replay,
           CheckpointCompleted, CheckpointPaused, CheckpointSkipped, CheckpointFailed,
           LeaveClaimedForRetry, RetryRunNode, AdvanceCall, ReadFrontier, SettleSkip,
           SelectAfterSkips, Dispatch, Answer, AnswerAndRelease, AnswerAndRedispatch,
           Crash, CrashInAdvance, vars
    <2> QED
        BY <2>1, CountsStep, InductiveStep DEF CountsInv
<1> QED
    BY <1>1, <1>2, PTL DEF Spec

\* As long as no worker has died, an executor does its work at most as often as
\* the retry policy allows, one that is unsafe to replay once, and a node is
\* recorded failed only when its last try is spent: whatever the queue doubles,
\* whoever sweeps, and whichever way a gate is answered.
THEOREM AttemptsFollowThePolicy == Spec => [](crashes = 0 => AttemptsAsConfigured)
<1>1. CountsInv => (crashes = 0 => AttemptsAsConfigured)
    <2> SUFFICES ASSUME Counts PROVE AttemptsAsConfigured
        BY DEF CountsInv
    <2>1. ASSUME NEW n \in Nodes
          PROVE  /\ runs[n] <= TriesFor(n)
                 /\ n \in UnsafeToReplay => runs[n] <= 1
                 /\ (n \notin Gates /\ store[n].status = "failed") => runs[n] = TriesFor(n)
        BY TriesType DEF Counts, RowCounts
    <2> QED
        BY <2>1 DEF AttemptsAsConfigured, WorkWithinTries, FailedOnlyWhenExhausted
<1> QED
    BY <1>1, CountsInvariant, PTL

-----------------------------------------------------------------------------
(* Diagnostics *)

\* A step that reports nothing and decides no skip, unless it walks a worker past
\* a lane, keeps the tellings; only a caller that dies may lose its own.
LEMMA TellsStay ==
    ASSUME InductiveInv, TellsInv, SettledStays, crashes' = 0 => crashes = 0,
           reported' = reported,
           \A b \in Actors :
              /\ view'[b].told \subseteq view[b].told
              /\ crashes' = 0 => view'[b].told = view[b].told
              /\ view'[b].told = {} \/ pc'[b] = pc[b],
           \A n \in Nodes : (store'[n].status = "skipped" /\ store[n].status # "skipped")
                                => n \in Graph.layout \ Graph.notes
    PROVE  TellsInv'
<1> USE DEF TellsInv, SkipReportedOnce
<1>1. \A b \in Actors : view[b].told \subseteq Nodes
    BY DEF InductiveInv, TypeOK, IsView
<1>2. \A n \in Nodes : store[n].status = "skipped" => store'[n].status = "skipped"
    BY DEF SettledStays, SETTLED
<1>3. \A b \in Actors :
          /\ pc'[b] \notin {"skipping", "selecting"} => view'[b].told = {}
          /\ \A n \in view'[b].told : store'[n].status = "skipped" /\ reported'[n] = 0
    BY <1>1, <1>2
<1>4. \A a, b \in Actors : a # b => view'[a].told \cap view'[b].told = {}
    OBVIOUS
<1>5. SkipReportedOnce'
    BY <1>2
<1>6. ASSUME crashes' = 0, NEW n \in Nodes, store'[n].status = "skipped"
      PROVE  \/ reported'[n] = 1 \/ n \in Graph.layout \ Graph.notes
             \/ \E a \in Actors : n \in view'[a].told
    <2>1. CASE store[n].status = "skipped"
        <3>1. reported[n] = 1 \/ n \in Graph.layout \ Graph.notes \/ \E a \in Actors : n \in view[a].told
            BY <1>6, <2>1
        <3> QED
            BY <1>6, <3>1
    <2> QED
        BY <1>6, <2>1
<1> QED
    BY <1>3, <1>4, <1>5, <1>6

\* The caller whose write settles a node is the one that will tell of it.
LEMMA TellsSettleSkip ==
    ASSUME InductiveInv, InductiveInv', TellsInv, SettledStays,
           NEW a \in Actors, NEW n \in Nodes, SettleSkip(a, n)
    PROVE  TellsInv'
<1> USE DEF TellsInv, SkipReportedOnce
<1>1. /\ TypeOK /\ store \in StoreType /\ store' = Skip(store, n)
      /\ store[n].status \in {"none", "skipped"}
      /\ reported' = reported /\ crashes' = crashes /\ pc[a] = "skipping"
      /\ reported \in [Nodes -> Nat]
      /\ \A b \in Actors : view[b].told \subseteq Nodes
    BY DEF SettleSkip, InductiveInv, PendingSkipsStand, TypeOK, StoreType, IsView
<1>2. /\ \A m \in Nodes \ {n} : store'[m] = store[m]
      /\ store'[n].status = "skipped"
    BY <1>1, SkipRow DEF SETTLED
<1>3. SkipsNow(store, n) <=> store[n].status = "none"
    BY <1>1 DEF SkipsNow, SETTLED
<1>4. /\ view'[a].told = view[a].told \cup IF store[n].status = "none" THEN {n} ELSE {}
      /\ pc'[a] \in {"skipping", "selecting"}
      /\ \A b \in Actors \ {a} : view'[b] = view[b] /\ pc'[b] = pc[b]
    <2>1. \E rest : view' = [view EXCEPT ![a] =
                        [skips |-> rest, ready |-> view[a].ready,
                         told |-> view[a].told \cup IF SkipsNow(store, n) THEN {n} ELSE {},
                         batch |-> {}]]
        BY DEF SettleSkip
    <2>2. pc' = [pc EXCEPT ![a] = IF view[a].skips = {n} THEN "selecting" ELSE "skipping"]
        BY DEF SettleSkip
    <2>3. view'[a].told = view[a].told \cup IF SkipsNow(store, n) THEN {n} ELSE {}
        BY <1>1, <2>1 DEF TypeOK
    <2> QED
        BY <1>1, <1>3, <2>1, <2>2, <2>3 DEF TypeOK
<1>5. store[n].status = "none" =>
          reported[n] = 0 /\ \A b \in Actors : n \notin view[b].told
    BY <1>1
<1>6. ASSUME NEW b \in Actors
      PROVE  /\ pc'[b] \notin {"skipping", "selecting"} => view'[b].told = {}
             /\ \A m \in view'[b].told : store'[m].status = "skipped" /\ reported'[m] = 0
    BY <1>1, <1>2, <1>4, <1>5
<1>7. ASSUME NEW b \in Actors, NEW c \in Actors, b # c
      PROVE  view'[b].told \cap view'[c].told = {}
    <2>1. view[b].told \cap view[c].told = {}
        BY <1>7
    <2>2. \A d \in Actors : view'[d].told \subseteq view[d].told
                            \/ (d = a /\ store[n].status = "none" /\ view'[d].told \subseteq view[d].told \cup {n})
        BY <1>4
    <2> QED
        BY <1>5, <1>7, <2>1, <2>2
<1>8. SkipReportedOnce'
    BY <1>1, <1>2
<1>9. ASSUME crashes' = 0, NEW m \in Nodes, store'[m].status = "skipped"
      PROVE  \/ reported'[m] = 1 \/ m \in Graph.layout \ Graph.notes
             \/ \E b \in Actors : m \in view'[b].told
    <2>1. CASE store[m].status = "skipped"
        <3>1. reported[m] = 1 \/ m \in Graph.layout \ Graph.notes \/ \E b \in Actors : m \in view[b].told
            BY <1>1, <1>9, <2>1
        <3>2. \A b \in Actors : view[b].told \subseteq view'[b].told
            BY <1>4
        <3> QED
            BY <1>1, <3>1, <3>2
    <2>2. CASE store[m].status # "skipped"
        <3>1. m = n /\ store[n].status = "none"
            BY <1>1, <1>2, <1>9, <2>2
        <3> QED
            BY <1>4, <3>1
    <2> QED
        BY <2>1, <2>2
<1> QED
    BY <1>6, <1>7, <1>8, <1>9

\* Telling is done once: what one caller tells no other has been told.
LEMMA TellsSelect ==
    ASSUME InductiveInv, InductiveInv', TellsInv, NEW a \in Actors, SelectAfterSkips(a)
    PROVE  TellsInv'
<1> USE DEF TellsInv, SkipReportedOnce
<1>1. /\ TypeOK /\ store' = store /\ crashes' = crashes
      /\ reported' = [n \in Nodes |-> IF n \in view[a].told THEN reported[n] + 1 ELSE reported[n]]
      /\ reported \in [Nodes -> Nat]
      /\ \A b \in Actors : view[b].told \subseteq Nodes
    BY DEF SelectAfterSkips, InductiveInv, TypeOK, IsView
<1>2. /\ view'[a].told = {}
      /\ \A b \in Actors \ {a} : view'[b] = view[b] /\ pc'[b] = pc[b]
    BY <1>1 DEF SelectAfterSkips, HandOut, NoView, TypeOK
<1>3. \A n \in Nodes : reported'[n] = IF n \in view[a].told THEN 1 ELSE reported[n]
    BY <1>1
<1>4. ASSUME NEW b \in Actors
      PROVE  /\ pc'[b] \notin {"skipping", "selecting"} => view'[b].told = {}
             /\ \A m \in view'[b].told : store'[m].status = "skipped" /\ reported'[m] = 0
    <2>1. CASE b = a
        BY <1>2, <2>1
    <2>2. CASE b # a
        <3>1. view[a].told \cap view[b].told = {}
            BY <2>2
        <3> QED
            BY <1>1, <1>2, <1>3, <2>2, <3>1
    <2> QED
        BY <2>1, <2>2
<1>5. \A b, c \in Actors : b # c => view'[b].told \cap view'[c].told = {}
    BY <1>2
<1>6. SkipReportedOnce'
    BY <1>1, <1>3
<1>7. ASSUME crashes' = 0, NEW m \in Nodes, store'[m].status = "skipped"
      PROVE  \/ reported'[m] = 1 \/ m \in Graph.layout \ Graph.notes
             \/ \E b \in Actors : m \in view'[b].told
    <2>1. reported[m] = 1 \/ m \in Graph.layout \ Graph.notes \/ \E b \in Actors : m \in view[b].told
        BY <1>1, <1>7
    <2> QED
        BY <1>2, <1>3, <2>1
<1> QED
    BY <1>4, <1>5, <1>6, <1>7

LEMMA TellsStep ==
    ASSUME InductiveInv, InductiveInv', TellsInv, [Next]_vars
    PROVE  TellsInv'
<1>1. /\ TypeOK /\ SettledStays /\ crashes \in Nat /\ Workers \subseteq Actors
      /\ store \in StoreType
      /\ \A b \in Actors : pc[b] \notin {"skipping", "selecting"} => view[b].told = {}
    BY StepStore DEF InductiveInv, TypeOK, TellsInv, Actors, StoreType
<1>2. ASSUME NEW w \in Workers, RunNode(w)
      PROVE  TellsInv'
    <2>1. /\ view' = view /\ reported' = reported /\ crashes' = crashes
          /\ pc[w] \notin {"skipping", "selecting"}
        BY <1>2 DEF RunNode, Take, LoseRace, Replay, CheckpointCompleted, CheckpointPaused,
           CheckpointSkipped, CheckpointFailed, LeaveClaimedForRetry, RetryRunNode
    <2>2. \A b \in Actors \ {w} : pc'[b] = pc[b]
        BY <1>1, <1>2 DEF RunNode, Take, LoseRace, Replay, CheckpointCompleted, CheckpointPaused,
           CheckpointSkipped, CheckpointFailed, LeaveClaimedForRetry, RetryRunNode, TypeOK
    <2>3. ASSUME NEW n \in Nodes, store'[n].status = "skipped", store[n].status # "skipped"
          PROVE  n \in Graph.layout \ Graph.notes
        <3>1. CASE CheckpointSkipped(w)
            <4>1. pc[w] \in Running /\ pc[w] = "dead"
                BY <3>1 DEF CheckpointSkipped, Running
            <4>2. task[w].node \in Graph.layout /\ MayStart(task[w].node) /\ task[w].node \in Nodes
                BY <4>1 DEF InductiveInv, OnlyLanesWalkedPast, HandedOutSoundly, TypeOK
            <4>3. n = task[w].node
                BY <1>1, <2>3, <3>1, <4>2, SkipRow DEF CheckpointSkipped
            <4> QED
                BY <4>2, <4>3 DEF MayStart, Live
        <3>2. CASE ~CheckpointSkipped(w)
            <4>1. SkipsJustified /\ OnlyMayStartMoves
                BY StepStore
            <4>2. pc[w] \in Running => /\ task[w].node \in Nodes /\ task[w].owner \in Tokens
                                       /\ choice[task[w].node] \in SUBSET Ports
                BY <1>1 DEF TypeOK
            <4>3. CASE store' = store
                BY <2>3, <4>3
            <4>4. ASSUME NEW j \in jobs, Take(w, j) PROVE FALSE
                <5>1. TokenFor(j) \in Tokens /\ j.node \in Nodes
                    BY <1>1, <4>4, FreshTokenType DEF Take
                <5> QED
                    BY <1>1, <2>3, <4>4, <5>1, ClaimRow DEF Take
            <4>5. ASSUME CheckpointCompleted(w) PROVE FALSE
                BY <1>1, <2>3, <4>2, <4>5, CompleteRow DEF CheckpointCompleted, Running
            <4>6. ASSUME CheckpointPaused(w) PROVE FALSE
                BY <1>1, <2>3, <4>2, <4>6, PauseRow DEF CheckpointPaused, Running
            <4>7. ASSUME CheckpointFailed(w) PROVE FALSE
                BY <1>1, <2>3, <4>2, <4>7, FailRow DEF CheckpointFailed, Running
            <4>8. ASSUME RetryRunNode(w) PROVE FALSE
                BY <1>1, <2>3, <4>2, <4>8, ClaimRow DEF RetryRunNode, Running
            <4> QED
                BY <1>2, <3>2, <4>3, <4>4, <4>5, <4>6, <4>7, <4>8
                   DEF RunNode, LoseRace, Replay, LeaveClaimedForRetry
        <3> QED
            BY <3>1, <3>2
    <2> QED
        BY <1>1, <2>1, <2>2, <2>3, TellsStay
<1>3. ASSUME NEW a \in Actors, ReadFrontier(a) \/ Dispatch(a)
      PROVE  TellsInv'
    <2>1. /\ view[a].told = {} /\ store' = store /\ reported' = reported /\ crashes' = crashes
        BY <1>1, <1>3 DEF ReadFrontier, MayAdvance, Dispatch
    <2>2. /\ view'[a].told = {}
          /\ \A b \in Actors \ {a} : view'[b] = view[b] /\ pc'[b] = pc[b]
        <3>1. \E mine, next : /\ mine.told = {}
                              /\ view' = [view EXCEPT ![a] = mine] /\ pc' = [pc EXCEPT ![a] = next]
            <4>1. CASE ReadFrontier(a) /\ Skips(Graph, store) = {}
                BY <4>1 DEF ReadFrontier, HandOut, NoView
            <4>2. CASE ReadFrontier(a) /\ Skips(Graph, store) # {}
                BY <4>2 DEF ReadFrontier
            <4>3. CASE Dispatch(a)
                BY <4>3 DEF Dispatch, NoView
            <4> QED
                BY <1>3, <4>1, <4>2, <4>3
        <3> QED
            BY <1>1, <3>1 DEF TypeOK
    <2>3. \A b \in Actors :
              /\ view'[b].told = view[b].told
              /\ view'[b].told = {} \/ pc'[b] = pc[b]
        BY <2>1, <2>2
    <2> QED
        BY <1>1, <2>1, <2>3, TellsStay
<1>4. ASSUME NEW a \in Actors, NEW n \in Nodes, SettleSkip(a, n)
      PROVE  TellsInv'
    BY <1>1, <1>4, TellsSettleSkip
<1>5. ASSUME NEW a \in Actors, SelectAfterSkips(a)
      PROVE  TellsInv'
    BY <1>5, TellsSelect
<1>6. ASSUME NEW w \in Workers, Crash(w) \/ CrashInAdvance(w)
      PROVE  TellsInv'
    <2>1. /\ store' = store /\ reported' = reported /\ crashes' = crashes + 1 /\ crashes' # 0
        BY <1>1, <1>6 DEF Crash, CrashInAdvance
    <2>2. \A b \in Actors :
              /\ view'[b].told \subseteq view[b].told
              /\ view'[b].told = {} \/ pc'[b] = pc[b]
        <3>1. CASE Crash(w)
            <4>1. pc[w] \notin {"skipping", "selecting"}
                BY <3>1 DEF Crash, Running
            <4> QED
                BY <1>1, <3>1, <4>1 DEF Crash, TypeOK
        <3>2. CASE CrashInAdvance(w)
            BY <1>1, <3>2 DEF CrashInAdvance, NoView, TypeOK
        <3> QED
            BY <1>6, <3>1, <3>2
    <2> QED
        BY <1>1, <2>1, <2>2, TellsStay
<1>7. ASSUME NEW n \in Nodes, Answer(n)
      PROVE  TellsInv'
    <2>1. /\ view' = view /\ reported' = reported /\ crashes' = crashes
          /\ \A m \in Nodes : store'[m].status = "skipped" => store[m].status = "skipped"
        BY <1>1, <1>7, ReleaseRow
           DEF Answer, AnswerAndRelease, AnswerAndRedispatch, NoRow
    <2>2. \A b \in Actors : view[b].told = {} \/ pc'[b] = pc[b]
        BY <1>1, <1>7 DEF Answer, AnswerAndRelease, AnswerAndRedispatch, TypeOK
    <2> QED
        BY <1>1, <2>1, <2>2, TellsStay
<1>8. CASE UNCHANGED vars
    BY <1>8 DEF vars, TellsInv, SkipReportedOnce
<1> QED
    BY <1>2, <1>3, <1>4, <1>5, <1>6, <1>7, <1>8 DEF Next, AdvanceCall

LEMMA TellsInit ==
    ASSUME Init
    PROVE  TellsInv
<1>1. /\ \A a \in Actors : view[a].told = {}
      /\ \A n \in Nodes : store[n].status = "none" /\ reported[n] = 0
    BY DEF Init, NoView, NoRow
<1> QED
    BY <1>1 DEF TellsInv, SkipReportedOnce

\* A skip is reported exactly once, by the caller whose write settled the node,
\* however many advance calls reach the same decision at the same time; the only
\* diagnostics lost are those of a caller that died between writing and telling.
THEOREM SkipsAreReportedOnce == Spec => []SkipDiagnosticsOnce
<1>1. Init => TellsInv
    BY TellsInit
<1>2. TellsInv /\ InductiveInv /\ InductiveInv' /\ [Next]_vars => TellsInv'
    BY TellsStep
<1>3. TellsInv => SkipDiagnosticsOnce
    <2> SUFFICES ASSUME TellsInv, crashes = 0, \A a \in Actors : pc[a] = "idle",
                        NEW n \in Nodes, store[n].status = "skipped", reported[n] = 0
                 PROVE  n \in Graph.layout \ Graph.notes
        BY DEF TellsInv, SkipDiagnosticsOnce, SkipsAllReported
    <2>1. \A a \in Actors : view[a].told = {}
        BY DEF TellsInv
    <2> QED
        BY <2>1 DEF TellsInv
<1> QED
    BY <1>1, <1>2, <1>3, InductiveInvariant, PTL DEF Spec

-----------------------------------------------------------------------------
(* Gates *)

LEMMA GatesRunNode ==
    ASSUME InductiveInv, GatesInv, NEW w \in Workers, RunNode(w)
    PROVE  GatesInv'
<1> SUFFICES ASSUME NEW n, n = task[w].node PROVE GatesInv'
    OBVIOUS
<1> DEFINE Past == {"ran", "raised", "retry"}
<1>1. /\ TypeOK /\ store \in StoreType /\ w \in Actors /\ Workers \subseteq Actors
      /\ Gates \subseteq Nodes
      /\ \A g \in Gates \ answered : store[g].status \notin {"completed", "failed"}
      /\ \A v \in Workers : pc[v] \in Past => task[v].node \notin Gates \ answered
    BY GateAssumption DEF InductiveInv, GatesInv, TypeOK, StoreType, Actors
<1>2. pc[w] \in Running => n \in Nodes /\ task[w].owner \in Tokens /\ choice[n] \in SUBSET Ports
    BY <1>1 DEF TypeOK
<1>3. answered' = answered
    BY DEF RunNode, Take, LoseRace, Replay, CheckpointCompleted, CheckpointPaused,
       CheckpointSkipped, CheckpointFailed, LeaveClaimedForRetry, RetryRunNode
\* A gate's row becomes completed or failed only behind an executor that ran.
<1>4. \A g \in Gates \ answered : store'[g].status \notin {"completed", "failed"}
    <2>1. CASE store' = store
        BY <1>1, <2>1
    <2>2. ASSUME NEW j \in jobs, Take(w, j)
          PROVE  \A g \in Gates \ answered : store'[g].status \notin {"completed", "failed"}
        <3>1. TokenFor(j) \in Tokens /\ j.node \in Nodes
            BY <1>1, <2>2, FreshTokenType DEF Take
        <3> QED
            BY <1>1, <2>2, <3>1, ClaimRow DEF Take
    <2>3. CASE CheckpointCompleted(w)
        BY <1>1, <1>2, <2>3, CompleteRow DEF CheckpointCompleted, Running
    <2>4. CASE CheckpointPaused(w)
        BY <1>1, <1>2, <2>4, PauseRow DEF CheckpointPaused, Running
    <2>5. CASE CheckpointSkipped(w)
        BY <1>1, <1>2, <2>5, SkipRow DEF CheckpointSkipped, Running
    <2>6. CASE CheckpointFailed(w)
        BY <1>1, <1>2, <2>6, FailRow DEF CheckpointFailed, Running
    <2>7. CASE RetryRunNode(w)
        BY <1>1, <1>2, <2>7, ClaimRow DEF RetryRunNode, Running
    <2> QED
        BY <2>1, <2>2, <2>3, <2>4, <2>5, <2>6, <2>7
           DEF RunNode, LoseRace, Replay, LeaveClaimedForRetry
<1>5. \A v \in Workers : pc'[v] \in Past => task'[v].node \notin Gates \ answered
    <2>1. CASE Replay(w)
        <3>1. \E outcome : /\ pc' = [pc EXCEPT ![w] = outcome]
                           /\ outcome \in Past => n \notin Gates \ answered
            BY <2>1 DEF Replay, Parks
        <3>2. /\ task' = [task EXCEPT ![w] = [task[w] EXCEPT !.attempt = store[n].attempts]]
              /\ pc[w] \in Running /\ task[w] \in TaskRecord
            BY <1>1, <2>1 DEF Replay, Running, TypeOK
        <3>3. /\ task'[w].node = n
              /\ \A v \in Workers \ {w} : task'[v] = task[v] /\ pc'[v] = pc[v]
            BY <1>1, <3>1, <3>2 DEF TypeOK, TaskRecord
        <3>4. pc'[w] \in Past => n \notin Gates \ answered
            BY <1>1, <3>1 DEF TypeOK
        <3> QED
            BY <1>1, <3>3, <3>4
    <2>2. ASSUME ~Replay(w), NEW v \in Workers, pc'[v] \in Past
          PROVE  pc[v] \in Past /\ task'[v].node = task[v].node
        BY <1>1, <2>2 DEF RunNode, Take, LoseRace, CheckpointCompleted, CheckpointPaused,
           CheckpointSkipped, CheckpointFailed, LeaveClaimedForRetry, RetryRunNode, TypeOK
    <2> QED
        BY <1>1, <2>1, <2>2
<1> QED
    BY <1>3, <1>4, <1>5 DEF GatesInv

LEMMA GatesStep ==
    ASSUME InductiveInv, GatesInv, [Next]_vars
    PROVE  GatesInv'
<1> DEFINE Past == {"ran", "raised", "retry"}
<1>1. /\ TypeOK /\ store \in StoreType /\ Workers \subseteq Actors /\ Gates \subseteq Nodes
      /\ \A g \in Gates \ answered : store[g].status \notin {"completed", "failed"}
      /\ \A v \in Workers : pc[v] \in Past => task[v].node \notin Gates \ answered
    BY GateAssumption DEF InductiveInv, GatesInv, TypeOK, StoreType, Actors
\* Nobody but a worker inside run_node completes or fails a row.
<1>2. ASSUME answered \subseteq answered',
             \A m \in Nodes : store'[m].status \in {store[m].status, "skipped", "none"},
             \A v \in Workers : pc'[v] \in Past => pc[v] \in Past /\ task'[v].node = task[v].node
      PROVE  GatesInv'
    BY <1>1, <1>2 DEF GatesInv
<1>3. ASSUME NEW a \in Actors, AdvanceCall(a)
      PROVE  GatesInv'
    <2>1. /\ task' = task /\ answered' = answered
          /\ \E next \in {"dispatching", "skipping", "selecting", "idle"} :
                pc' = [pc EXCEPT ![a] = next]
        BY <1>3 DEF AdvanceCall, ReadFrontier, SettleSkip, SelectAfterSkips, Dispatch, HandOut
    <2>2. \A v \in Workers : pc'[v] \in Past => pc[v] \in Past /\ task'[v].node = task[v].node
        BY <1>1, <2>1 DEF TypeOK
    <2>3. \A m \in Nodes : store'[m].status \in {store[m].status, "skipped", "none"}
        <3>1. CASE store' = store
            BY <3>1
        <3>2. ASSUME NEW n \in Nodes, SettleSkip(a, n)
              PROVE  \A m \in Nodes : store'[m].status \in {store[m].status, "skipped", "none"}
            BY <1>1, <3>2, SkipRow DEF SettleSkip
        <3> QED
            BY <1>3, <3>1, <3>2 DEF AdvanceCall, ReadFrontier, SelectAfterSkips, Dispatch
    <2> QED
        BY <1>2, <2>1, <2>2, <2>3
<1>4. ASSUME NEW w \in Workers, Crash(w) \/ CrashInAdvance(w)
      PROVE  GatesInv'
    BY <1>1, <1>2, <1>4 DEF Crash, CrashInAdvance, TypeOK
<1>5. ASSUME NEW n \in Nodes, Answer(n)
      PROVE  GatesInv'
    <2>1. \A m \in Nodes : store'[m].status \in {store[m].status, "skipped", "none"}
        BY <1>1, <1>5, ReleaseRow DEF Answer, AnswerAndRelease, AnswerAndRedispatch, NoRow
    <2>2. task' = task /\ answered \subseteq answered' /\ \A v \in Workers : pc'[v] \in Past => pc[v] \in Past
        BY <1>1, <1>5 DEF Answer, AnswerAndRelease, AnswerAndRedispatch, TypeOK
    <2> QED
        BY <1>2, <2>1, <2>2
<1>6. CASE UNCHANGED vars
    BY <1>6 DEF vars, GatesInv
<1> QED
    BY <1>3, <1>4, <1>5, <1>6, GatesRunNode DEF Next

\* While a node is not settled nothing reachable from it has a row: a row needs
\* its sources settled, and so it goes back along every path.
LEMMA NothingBehindAnOpenNode ==
    ASSUME DecidedAfterSources, store \in StoreType,
           NEW g \in Nodes, store[g].status \notin SETTLED,
           NEW n \in ReachedFrom(Graph, g)
    PROVE  store[n].status = "none"
<1> DEFINE X == {m \in Nodes : store[m].status = "none"}
<1>1. ASSUME NEW e \in Graph.edges, e.source = g \/ e.source \in X
      PROVE  e.target \in X
    <2>1. e.target \in Nodes /\ e.source \in Nodes /\ e.source \in Sources(Graph, e.target)
        BY GraphAssumption DEF WellFormed, Sources, Incoming, Nodes
    <2>2. e.source \notin Settled(store)
        BY <1>1 DEF Settled, SETTLED
    <2> QED
        BY <2>1, <2>2 DEF DecidedAfterSources
<1>2. X \in SUBSET NodesOf(Graph)
    BY DEF Nodes
<1>3. n \in X
    BY <1>1, <1>2 DEF ReachedFrom
<1> QED
    BY <1>3

\* Nobody passes a gate that waits for a person: it is neither completed nor
\* failed, and no node behind it, by whatever path, has a row, in any graph and
\* after any crash, sweep or redelivery.
THEOREM GatesHold == Spec => []NothingPassesAnOpenGate
<1>1. Init => GatesInv
    <2> SUFFICES ASSUME Init PROVE GatesInv
        OBVIOUS
    <2>1. /\ \A n \in Nodes : store[n].status = "none"
          /\ \A w \in Workers : pc[w] = "idle"
        BY DEF Init, NoRow, Actors
    <2> QED
        BY <2>1, GateAssumption DEF GatesInv
<1>2. InductiveInv /\ GatesInv /\ [Next]_vars => GatesInv'
    BY GatesStep
<1>3. InductiveInv /\ GatesInv => NothingPassesAnOpenGate
    <2> SUFFICES ASSUME InductiveInv, GatesInv, NEW g \in Gates \ answered,
                        store[g].status # "skipped", NEW n \in ReachedFrom(Graph, g)
                 PROVE  store[n].status = "none"
        BY DEF NothingPassesAnOpenGate, GatesInv
    <2>1. g \in Nodes /\ store[g].status \notin SETTLED
        BY GateAssumption DEF GatesInv, SETTLED
    <2> QED
        BY <2>1, NothingBehindAnOpenNode DEF InductiveInv, TypeOK, StoreType
<1> QED
    BY <1>1, <1>2, <1>3, InductiveInvariant, PTL DEF Spec

-----------------------------------------------------------------------------
(***************************************************************************)
(* The durable driver against the engine's walk of the whole graph.        *)
(*                                                                         *)
(* Which nodes run: those the walk runs, whatever the interleaving.        *)
(*                                                                         *)
(* In which order: under the serial default, on a graph whose edges agree  *)
(* with its declaration order, one at a time in that order.  A node is due *)
(* when every node declared before it is settled and nothing is left to    *)
(* skip.  At most one unsettled node is due at a time, and every row, job  *)
(* and half-finished advance call names that one, or a settled one.        *)
(***************************************************************************)

\* A completed node lit what its executor chose, and the engine executes it.
RowsFollowTheChoice ==
    /\ \A n \in Nodes : store[n].status = "completed" => store[n].ports = choice[n] /\ n \notin Graph.layout
    /\ \A w \in Workers : pc[w] = "ran" => task[w].node \notin Graph.layout

Serial == MaxConcurrent = 1 /\ DeclaredTopologically(Graph)

\* n is settled, or due once the nodes of X are settled.
DueAfter(n, X) ==
    n \notin Settled(store) =>
        /\ Skips(Graph, store) \subseteq X
        /\ \A m \in Nodes : DeclaredBefore(Graph, m, n) => m \in Settled(store) \cup X

DecidedInOrder ==
    \A n, m \in Nodes :
        (store[n].status \in {"completed", "failed"} /\ DeclaredBefore(Graph, m, n))
            => m \in Settled(store)

\* The node an advance call will hand out first is due once its cascade is written.
NamesTheNodeDue ==
    /\ \A n \in Held(store) : DueAfter(n, {})
    /\ \A j \in jobs : DueAfter(j.node, {})
    /\ \A a \in Actors :
          /\ \A n \in view[a].batch : DueAfter(n, {})
          /\ \A n \in DOMAIN view[a].ready : view[a].ready[n] = 0 => DueAfter(n, view[a].skips)

SerialInv == DecidedInOrder /\ NamesTheNodeDue

-----------------------------------------------------------------------------
(* What is due stays due *)

\* While no row is held, the first of the frontier is due after the cascade.
LEMMA HeadIsDue ==
    ASSUME TypeOK, DeclaredTopologically(Graph), Held(store) = {},
           NEW n \in Ready(Graph, store), ReadyIndex(Graph, store)[n] = 0
    PROVE  DueAfter(n, Skips(Graph, store))
<1>1. DOMAIN store = NodesOf(Graph) /\ \A m \in NodesOf(Graph) : store[m].status \in Statuses
    BY DEF TypeOK, Row, Nodes
<1> QED
    BY <1>1, GraphAssumption, HeadIsNext DEF DueAfter, Nodes

\* A held node that is due is the only node that is due and not settled.
LEMMA OnlyOneDue ==
    ASSUME TypeOK, NEW n \in Held(store), NEW m \in Nodes, m \notin Settled(store), NEW X, n \notin X,
           DueAfter(n, {}), DueAfter(m, X)
    PROVE  n = m
<1>1. n \in Nodes /\ n \notin Settled(store)
    BY DEF TypeOK, Held, HELD, Settled, SETTLED
<1>2. /\ \A k \in Nodes : DeclaredBefore(Graph, k, n) => k \in Settled(store)
      /\ \A k \in Nodes : DeclaredBefore(Graph, k, m) => k \in Settled(store) \cup X
    BY <1>1 DEF DueAfter
<1> QED
    BY <1>1, <1>2, GraphAssumption, DeclaredOrder DEF Nodes

\* Settling the held node settles the only one that was due.
LEMMA DueAfterSettling ==
    ASSUME TypeOK, TypeOK', NEW k \in Held(store), DueAfter(k, {}),
           store'[k].status \in SETTLED,
           \A m \in Nodes \ {k} : store'[m] = store[m],
           NEW n \in Nodes, NEW X, k \notin X, DueAfter(n, X)
    PROVE  DueAfter(n, X)'
<1>1. Settled(store') = Settled(store) \cup {k}
    BY DEF TypeOK, Held, HELD, Settled, SETTLED
<1>2. n \in Settled(store) \/ n = k
    BY OnlyOneDue
<1> QED
    BY <1>1, <1>2 DEF DueAfter

\* A row that changes without settling moves nothing.
LEMMA DueAfterMoving ==
    ASSUME TypeOK, TypeOK', NEW k \in Nodes, Live(k),
           store[k].status \notin SETTLED, store'[k].status \notin SETTLED,
           \A m \in Nodes \ {k} : store'[m] = store[m],
           NEW n, NEW X, DueAfter(n, X)
    PROVE  DueAfter(n, X)'
<1>1. DOMAIN store = NodesOf(Graph) /\ DOMAIN store' = NodesOf(Graph)
    BY DEF TypeOK, Nodes
<1>2. k \notin Graph.notes /\ ~Dead(Graph, store, k)
    BY DEF Live
<1>3. Skips(Graph, store') = Skips(Graph, store) /\ Settled(store') = Settled(store)
    BY <1>1, <1>2, GraphAssumption, SkipsUnmoved DEF Nodes
<1> QED
    BY <1>3 DEF DueAfter

\* Writing a skip leaves one node less to wait for.
LEMMA DueAfterSkipping ==
    ASSUME TypeOK, TypeOK', NEW k \in Nodes, store' = Skip(store, k),
           store[k].status \in {"none", "skipped"},
           ~Live(k), Sources(Graph, k) \subseteq Settled(store),
           NEW n, NEW X, DueAfter(n, X)
    PROVE  DueAfter(n, X)' /\ DueAfter(n, X \ {k})'
<1>1. store \in StoreType
    BY DEF TypeOK, StoreType
<1>2. CASE store[k].status = "skipped"
    <2>1. store' = store /\ k \in Settled(store)
        BY <1>1, <1>2, SkipRow DEF TypeOK, Settled, SETTLED
    <2>2. k \notin Skips(Graph, store)
        BY <1>2, SkipsFixed DEF SkippedGiven
    <2> QED
        BY <2>1, <2>2 DEF DueAfter
<1>3. CASE store[k].status = "none"
    <2>1. /\ store'[k].status = "skipped"
          /\ \A m \in Nodes \ {k} : store'[m] = store[m]
        BY <1>1, <1>3, SkipRow DEF SETTLED
    <2>2. k \in Skips(Graph, store)
        BY <1>3, SkipsAreFixed DEF SkippedGiven, Live, Nodes
    <2>3. DOMAIN store = NodesOf(Graph) /\ DOMAIN store' = NodesOf(Graph)
        BY DEF TypeOK, Nodes
    <2>4. /\ Skips(Graph, store') = Skips(Graph, store) \ {k}
          /\ Settled(store') = Settled(store) \cup {k}
        BY <1>3, <2>1, <2>2, <2>3, GraphAssumption, SkipsAfterSkip DEF Nodes
    <2> QED
        BY <2>2, <2>4 DEF DueAfter
<1> QED
    BY <1>2, <1>3

\* In every step, for the nodes that are waited for because they are barred.
LEMMA DueStays ==
    ASSUME InductiveInv, NamesTheNodeDue, [Next]_vars,
           NEW n \in Nodes, NEW X, \A m \in X : m \in Nodes /\ ~Live(m), DueAfter(n, X)
    PROVE  DueAfter(n, X)'
<1>1. /\ TypeOK /\ TypeOK' /\ store \in StoreType
      /\ \A w \in Workers : pc[w] \in Running =>
            /\ task[w].node \in Held(store) /\ task[w].node \in Nodes
            /\ Live(task[w].node) /\ DueAfter(task[w].node, {})
    <2>1. TypeOK /\ TypeOK' /\ store \in StoreType
        BY TypeStep DEF InductiveInv, TypeOK, StoreType
    <2> QED
        BY <2>1 DEF InductiveInv, TypeOK, StoreType, ExclusiveRun, Held, HELD, HandedOutSoundly, MayStart,
                    NamesTheNodeDue
<1>2. CASE store' = store
    BY <1>2 DEF DueAfter
<1>3. ASSUME NEW w \in Workers, RunNode(w), store' # store
      PROVE  DueAfter(n, X)'
    <2>1. ASSUME NEW j \in jobs, Take(w, j)
          PROVE  DueAfter(n, X)'
        <3>1. /\ TokenFor(j) \in Tokens /\ j.node \in Nodes
              /\ CanClaim(store, j.node, TokenFor(j)) /\ store' = Claim(store, j.node, TokenFor(j))
            BY <1>1, <2>1, FreshTokenType DEF Take
        <3>2. Live(j.node) /\ store[j.node].status \notin SETTLED
            BY <3>1 DEF InductiveInv, HandedOutSoundly, MayStart, CanClaim, OwnClaim, HELD, SETTLED
        <3>3. /\ store'[j.node].status \notin SETTLED
              /\ \A m \in Nodes \ {j.node} : store'[m] = store[m]
            BY <1>1, <3>1, ClaimRow DEF SETTLED
        <3> QED
            BY <1>1, <3>1, <3>2, <3>3, DueAfterMoving
    <2>2. CASE CheckpointPaused(w) \/ RetryRunNode(w)
        <3>1. /\ task[w].node \in Nodes /\ task[w].node \in Held(store) /\ Live(task[w].node)
              /\ store[task[w].node].status \notin SETTLED
            BY <1>1, <2>2 DEF CheckpointPaused, RetryRunNode, Running, Held, HELD, SETTLED
        <3>2. task[w].owner \in Tokens
            BY <1>1, <2>2 DEF CheckpointPaused, RetryRunNode, Running, TypeOK
        <3>3. /\ store'[task[w].node].status \notin SETTLED
              /\ \A m \in Nodes \ {task[w].node} : store'[m] = store[m]
            <4>1. CASE CheckpointPaused(w)
                BY <1>1, <3>1, <4>1, PauseRow DEF CheckpointPaused, SETTLED
            <4>2. CASE RetryRunNode(w)
                BY <1>1, <3>1, <3>2, <4>2, ClaimRow DEF RetryRunNode, SETTLED
            <4> QED
                BY <2>2, <4>1, <4>2
        <3> QED
            BY <1>1, <3>1, <3>3, DueAfterMoving
    <2>3. CASE CheckpointCompleted(w) \/ CheckpointFailed(w) \/ CheckpointSkipped(w)
        <3>1. /\ task[w].node \in Nodes /\ task[w].node \in Held(store) /\ Live(task[w].node)
              /\ DueAfter(task[w].node, {})
              /\ store[task[w].node].status \notin SETTLED
            BY <1>1, <2>3
               DEF CheckpointCompleted, CheckpointFailed, CheckpointSkipped, Running, Held, HELD, SETTLED
        <3>2. choice[task[w].node] \in SUBSET Ports
            BY <1>1, <3>1 DEF TypeOK
        <3>3. /\ store'[task[w].node].status \in SETTLED
              /\ \A m \in Nodes \ {task[w].node} : store'[m] = store[m]
            <4>1. CASE CheckpointCompleted(w)
                BY <1>1, <3>1, <3>2, <4>1, CompleteRow DEF CheckpointCompleted, SETTLED
            <4>2. CASE CheckpointFailed(w)
                BY <1>1, <3>1, <4>2, FailRow DEF CheckpointFailed, SETTLED
            <4>3. CASE CheckpointSkipped(w)
                BY <1>1, <3>1, <4>3, SkipRow DEF CheckpointSkipped, SETTLED
            <4> QED
                BY <2>3, <4>1, <4>2, <4>3
        <3> QED
            BY <1>1, <3>1, <3>3, DueAfterSettling
    <2> QED
        BY <1>3, <2>1, <2>2, <2>3 DEF RunNode, LoseRace, Replay, LeaveClaimedForRetry
<1>4. ASSUME NEW a \in Actors, NEW k \in Nodes, SettleSkip(a, k)
      PROVE  DueAfter(n, X)'
    <2>1. /\ store' = Skip(store, k) /\ store[k].status \in {"none", "skipped"}
          /\ ~Live(k) /\ Sources(Graph, k) \subseteq Settled(store)
        BY <1>4 DEF SettleSkip, InductiveInv, PendingSkipsStand
    <2> QED
        BY <1>1, <2>1, DueAfterSkipping
<1>5. ASSUME NEW g \in Nodes, AnswerAndRelease(g)
      PROVE  DueAfter(n, X)'
    <2>1. store[g].status = "paused" /\ store' = Release(store, g)
        BY <1>5 DEF AnswerAndRelease, AwaitingAnswer
    <2>2. Live(g)
        BY <2>1 DEF InductiveInv, DecidedAfterSources, Started
    <2>3. /\ store'[g].status \notin SETTLED /\ store[g].status \notin SETTLED
          /\ \A m \in Nodes \ {g} : store'[m] = store[m]
        BY <1>1, <2>1, ReleaseRow DEF NoRow, SETTLED
    <2> QED
        BY <1>1, <2>2, <2>3, DueAfterMoving
<1> QED
    BY <1>2, <1>3, <1>4, <1>5
       DEF Next, AdvanceCall, ReadFrontier, SelectAfterSkips, Dispatch, Answer, AnswerAndRedispatch,
           Crash, CrashInAdvance, vars

-----------------------------------------------------------------------------
(* The steps *)

LEMMA OrderStep ==
    ASSUME InductiveInv, SerialInv, [Next]_vars
    PROVE  DecidedInOrder'
<1>1. /\ TypeOK /\ TypeOK' /\ store \in StoreType /\ Settled(store) \subseteq Settled(store')
    BY TypeStep, StepStore, SettledGrows DEF InductiveInv, TypeOK, StoreType
<1>2. ASSUME NEW n \in Nodes, store'[n].status \in {"completed", "failed"},
             store[n].status \notin {"completed", "failed"}
      PROVE  n \in Held(store)
    <2>1. PICK w \in Workers : CheckpointCompleted(w) \/ CheckpointFailed(w)
        <3>1. CASE \A m \in Nodes : store'[m].status \in {store[m].status, "claimed", "paused", "skipped", "none"}
            BY <1>2, <3>1
        <3>2. ASSUME NEW w \in Workers, RunNode(w), ~CheckpointCompleted(w), ~CheckpointFailed(w)
              PROVE  \A m \in Nodes : store'[m].status \in {store[m].status, "claimed", "paused", "skipped", "none"}
            <4>1. ASSUME NEW j \in jobs, Take(w, j)
                  PROVE  \A m \in Nodes : store'[m].status \in {store[m].status, "claimed"}
                BY <1>1, <4>1, FreshTokenType, ClaimRow DEF Take
            <4>0. pc[w] \in Running => task[w].node \in Nodes /\ task[w].owner \in Tokens
                BY <1>1 DEF TypeOK
            <4>2. CASE CheckpointPaused(w)
                BY <1>1, <4>0, <4>2, PauseRow DEF CheckpointPaused, Running
            <4>3. CASE CheckpointSkipped(w)
                BY <1>1, <4>0, <4>3, SkipRow DEF CheckpointSkipped, Running
            <4>4. CASE RetryRunNode(w)
                BY <1>1, <4>0, <4>4, ClaimRow DEF RetryRunNode, Running
            <4> QED
                BY <3>2, <4>1, <4>2, <4>3, <4>4 DEF RunNode, LoseRace, Replay, LeaveClaimedForRetry
        <3>3. ASSUME NEW a \in Actors, NEW k \in Nodes, SettleSkip(a, k)
              PROVE  \A m \in Nodes : store'[m].status \in {store[m].status, "skipped"}
            <4>1. store' = Skip(store, k)
                BY <3>3 DEF SettleSkip
            <4>2. /\ \A m \in Nodes \ {k} : Skip(store, k)[m] = store[m]
                  /\ store[k].status \in SETTLED => Skip(store, k) = store
                  /\ store[k].status \notin SETTLED => Skip(store, k)[k].status = "skipped"
                BY <1>1, SkipRow
            <4> QED
                BY <4>1, <4>2
        <3>4. ASSUME NEW g \in Nodes, AnswerAndRelease(g)
              PROVE  \A m \in Nodes : store'[m].status \in {store[m].status, "none"}
            BY <1>1, <3>4, ReleaseRow DEF AnswerAndRelease, NoRow
        <3> QED
            BY <3>1, <3>2, <3>3, <3>4
               DEF Next, AdvanceCall, ReadFrontier, SelectAfterSkips, Dispatch, Answer, AnswerAndRedispatch,
                   Crash, CrashInAdvance, vars
    <2>2. pc[w] \in Running /\ task[w].node \in Nodes
        BY <1>1, <2>1 DEF CheckpointCompleted, CheckpointFailed, Running, TypeOK
    <2>3. n = task[w].node
        <3>1. choice[task[w].node] \in SUBSET Ports
            BY <1>1, <2>2 DEF TypeOK
        <3>2. \A m \in Nodes \ {task[w].node} : store'[m] = store[m]
            <4>1. CASE CheckpointCompleted(w)
                BY <1>1, <2>2, <3>1, <4>1, CompleteRow DEF CheckpointCompleted
            <4>2. CASE CheckpointFailed(w)
                BY <1>1, <2>2, <4>2, FailRow DEF CheckpointFailed
            <4> QED
                BY <2>1, <4>1, <4>2
        <3> QED
            BY <1>2, <3>2
    <2> QED
        BY <1>1, <2>2, <2>3 DEF InductiveInv, ExclusiveRun, Held, HELD, StoreType
<1>3. ASSUME NEW n \in Nodes, NEW m \in Nodes, store'[n].status \in {"completed", "failed"},
             DeclaredBefore(Graph, m, n)
      PROVE  m \in Settled(store')
    <2>1. CASE store[n].status \in {"completed", "failed"}
        BY <1>1, <1>3, <2>1 DEF SerialInv, DecidedInOrder
    <2>2. CASE store[n].status \notin {"completed", "failed"}
        <3>1. n \in Held(store)
            BY <1>2, <1>3, <2>2
        <3>2. n \notin Settled(store) /\ DueAfter(n, {})
            BY <3>1 DEF SerialInv, NamesTheNodeDue, Held, HELD, Settled, SETTLED
        <3> QED
            BY <1>1, <1>3, <3>2 DEF DueAfter
    <2> QED
        BY <2>1, <2>2
<1> QED
    BY <1>3 DEF DecidedInOrder

\* With the budget of one, a batch is empty or the head of the frontier.
LEMMA OneAtATime ==
    ASSUME TypeOK, Serial, NEW a \in Actors, NEW R \in SUBSET Nodes, NEW ready \in [R -> Nat],
           HandOut(a, ready), NEW n \in view'[a].batch
    PROVE  Held(store) = {} /\ n \in R /\ ready[n] = 0
<1> DEFINE held == Cardinality(Held(store))
           batch == SelectDispatch(ready, held, MaxConcurrent)
<1>1. view'[a].batch = batch
    BY DEF HandOut, TypeOK, NoView
<1>2. IsFiniteSet(Held(store)) /\ held \in Nat /\ (held = 0 <=> Held(store) = {})
    <2>1. Held(store) \subseteq Nodes
        BY DEF Held, TypeOK
    <2> QED
        BY <2>1, NodesFinite, FS_Subset, FS_CardinalityType, FS_EmptySet
<1>3. n \in R /\ ready[n] < Room(1, held)
    BY <1>1 DEF SelectDispatch, Serial, UNLIMITED
<1> QED
    BY <1>2, <1>3 DEF Room

\* Writing one row holds or frees no other.
LEMMA HeldAfter ==
    ASSUME TypeOK, TypeOK', NEW k \in Nodes, \A m \in Nodes \ {k} : store'[m] = store[m]
    PROVE  /\ Held(store') \subseteq Held(store) \cup {k}
           /\ store'[k].status \notin HELD => Held(store') \subseteq Held(store)
BY DEF Held, TypeOK

LEMMA NamesStep ==
    ASSUME InductiveInv, Serial, SerialInv, [Next]_vars
    PROVE  NamesTheNodeDue'
<1>1. /\ TypeOK /\ TypeOK' /\ store \in StoreType /\ Workers \subseteq Actors
      /\ NamesTheNodeDue /\ Held(store) \subseteq Nodes
      /\ \A j \in jobs : j.node \in Nodes
      /\ \A a \in Actors : /\ view[a].batch \subseteq Nodes /\ DOMAIN view[a].ready \subseteq Nodes
                           /\ \A m \in view[a].skips : m \in Nodes /\ ~Live(m)
    <2>1. TypeOK /\ TypeOK' /\ store \in StoreType
        BY TypeStep DEF InductiveInv, TypeOK, StoreType
    <2> QED
        BY <2>1 DEF Actors, SerialInv, Held, TypeOK, IsView, InductiveInv, PendingSkipsStand
<1>2. \A n \in Nodes : DueAfter(n, {}) => DueAfter(n, {})'
    BY <1>1, DueStays
<1>3. \A n \in Held(store') : DueAfter(n, {})
    <2>1. CASE Held(store') \subseteq Held(store)
        BY <1>1, <2>1 DEF NamesTheNodeDue
    <2>2. ASSUME NEW w \in Workers, RunNode(w)
          PROVE  \A n \in Held(store') : DueAfter(n, {})
        <3>1. pc[w] \in Running =>
                  task[w].node \in Held(store) /\ task[w].node \in Nodes /\ task[w].owner \in Tokens
            BY <1>1 DEF InductiveInv, TypeOK, ExclusiveRun, Held, HELD
        <3>2. ASSUME NEW j \in jobs, Take(w, j)
              PROVE  Held(store') \subseteq Held(store) \cup {j.node}
            <4>1. /\ TokenFor(j) \in Tokens /\ j.node \in Nodes
                  /\ CanClaim(store, j.node, TokenFor(j)) /\ store' = Claim(store, j.node, TokenFor(j))
                BY <1>1, <3>2, FreshTokenType DEF Take
            <4> QED
                BY <1>1, <4>1, ClaimRow, HeldAfter
        <3>3. CASE CheckpointPaused(w)
            BY <1>1, <2>1, <3>1, <3>3, PauseRow, HeldAfter DEF CheckpointPaused, Running
        <3>4. CASE CheckpointSkipped(w)
            BY <1>1, <2>1, <3>1, <3>4, SkipRow, HeldAfter DEF CheckpointSkipped, Running
        <3>5. CASE RetryRunNode(w)
            BY <1>1, <2>1, <3>1, <3>5, ClaimRow, HeldAfter DEF RetryRunNode, Running
        <3>6. CASE CheckpointCompleted(w)
            <4>1. pc[w] \in Running /\ choice[task[w].node] \in SUBSET Ports
                BY <1>1, <3>1, <3>6 DEF CheckpointCompleted, Running, TypeOK
            <4> QED
                BY <1>1, <2>1, <3>1, <3>6, <4>1, CompleteRow, HeldAfter DEF CheckpointCompleted
        <3>7. CASE CheckpointFailed(w)
            BY <1>1, <2>1, <3>1, <3>7, FailRow, HeldAfter DEF CheckpointFailed, Running
        <3> QED
            BY <1>1, <2>1, <2>2, <3>2, <3>3, <3>4, <3>5, <3>6, <3>7
               DEF RunNode, LoseRace, Replay, LeaveClaimedForRetry, NamesTheNodeDue
    <2>3. ASSUME NEW a \in Actors, NEW k \in Nodes, SettleSkip(a, k)
          PROVE  Held(store') \subseteq Held(store)
        <3>1. store' = Skip(store, k)
            BY <2>3 DEF SettleSkip
        <3> QED
            BY <1>1, <3>1, SkipRow, HeldAfter DEF HELD
    <2>4. ASSUME NEW g \in Nodes, AnswerAndRelease(g)
          PROVE  Held(store') \subseteq Held(store)
        <3>1. store' = Release(store, g)
            BY <2>4 DEF AnswerAndRelease
        <3> QED
            BY <1>1, <3>1, ReleaseRow, HeldAfter DEF HELD, NoRow
    <2> QED
        BY <2>1, <2>2, <2>3, <2>4
           DEF Next, AdvanceCall, ReadFrontier, SelectAfterSkips, Dispatch, Answer, AnswerAndRedispatch,
               Crash, CrashInAdvance, vars
<1>4. \A j \in jobs' : j.node \in Nodes /\ DueAfter(j.node, {})
    <2>1. CASE jobs' \subseteq jobs
        BY <1>1, <2>1 DEF NamesTheNodeDue
    <2>2. ASSUME NEW a \in Actors, Dispatch(a)
          PROVE  \A j \in jobs' : j.node \in Nodes /\ DueAfter(j.node, {})
        BY <1>1, <2>2 DEF Dispatch, NamesTheNodeDue, Job
    <2>3. ASSUME NEW n \in Nodes, AnswerAndRedispatch(n)
          PROVE  \A j \in jobs' : j.node \in Nodes /\ DueAfter(j.node, {})
        <3>1. n \in Held(store)
            BY <1>1, <2>3 DEF AnswerAndRedispatch, AwaitingAnswer, Held, HELD, TypeOK
        <3> QED
            BY <1>1, <2>3, <3>1 DEF AnswerAndRedispatch, NamesTheNodeDue, Job
    <2>4. ASSUME NEW w \in Workers, Crash(w)
          PROVE  \A j \in jobs' : j.node \in Nodes /\ DueAfter(j.node, {})
        <3>1. task[w].node \in Held(store)
            BY <1>1, <2>4 DEF Crash, InductiveInv, ExclusiveRun, Held, HELD, TypeOK
        <3> QED
            BY <1>1, <2>4, <3>1 DEF Crash, NamesTheNodeDue, Job
    <2> QED
        BY <2>1, <2>2, <2>3, <2>4
           DEF Next, RunNode, Take, TakenFrom, LoseRace, Replay, CheckpointCompleted, CheckpointPaused,
               CheckpointSkipped, CheckpointFailed, LeaveClaimedForRetry, RetryRunNode, AdvanceCall,
               ReadFrontier, SettleSkip, SelectAfterSkips, Answer, AnswerAndRelease, CrashInAdvance, vars
\* What one advance call names after its own step.
<1>5. ASSUME NEW a \in Actors, ReadFrontier(a)
      PROVE  /\ \A n \in view'[a].batch : n \in Nodes /\ DueAfter(n, {})
             /\ \A n \in DOMAIN view'[a].ready :
                   view'[a].ready[n] = 0 => n \in Nodes /\ DueAfter(n, view[a].skips)'
    <2>1. /\ DOMAIN ReadyIndex(Graph, store) = Ready(Graph, store)
          /\ ReadyIndex(Graph, store) \in [Ready(Graph, store) -> Nat]
          /\ Ready(Graph, store) \in SUBSET Nodes
        BY <1>1, ReadyIndexType DEF Ready, Nodes
    <2>2. \A n \in Ready(Graph, store) :
              ReadyIndex(Graph, store)[n] = 0 /\ Held(store) = {} => DueAfter(n, Skips(Graph, store))
        BY <1>1, HeadIsDue DEF Serial
    <2>3. Held(store) # {} => Skips(Graph, store) = {}
        <3>1. \A n \in Held(store) : n \notin Settled(store) /\ DueAfter(n, {})
            BY <1>1 DEF Held, HELD, Settled, SETTLED, NamesTheNodeDue
        <3> QED
            BY <3>1 DEF DueAfter
    <2>4. CASE Skips(Graph, store) = {} /\ HandOut(a, ReadyIndex(Graph, store))
        <3>1. \A n \in view'[a].batch : n \in Nodes /\ DueAfter(n, {})
            BY <1>1, <2>1, <2>2, <2>4, OneAtATime
        <3>2. DOMAIN view'[a].ready = {}
            BY <1>1, <2>1, <2>4, HandOutType
        <3> QED
            BY <3>1, <3>2
    <2>5. CASE /\ Skips(Graph, store) # {}
               /\ view' = [view EXCEPT ![a] = [skips |-> Skips(Graph, store),
                                               ready |-> ReadyIndex(Graph, store),
                                               told |-> {}, batch |-> {}]]
        <3>1. /\ view'[a].batch = {} /\ view'[a].skips = Skips(Graph, store)
              /\ view'[a].ready = ReadyIndex(Graph, store)
            BY <1>1, <2>5 DEF TypeOK
        <3>2. store' = store
            BY <1>5 DEF ReadFrontier
        <3> QED
            BY <2>1, <2>2, <2>3, <2>5, <3>1, <3>2 DEF DueAfter
    <2> QED
        BY <1>5, <2>4, <2>5 DEF ReadFrontier
<1>6. ASSUME NEW a \in Actors, SelectAfterSkips(a)
      PROVE  /\ \A n \in view'[a].batch : n \in Nodes /\ DueAfter(n, {})
             /\ DOMAIN view'[a].ready = {}
    <2>1. view[a].skips = {}
        BY <1>6 DEF SelectAfterSkips, InductiveInv, PendingSkipsStand
    <2>2. PICK R \in SUBSET Nodes : view[a].ready \in [R -> Nat]
        BY <1>1 DEF TypeOK, IsView
    <2>3. HandOut(a, view[a].ready)
        BY <1>6 DEF SelectAfterSkips
    <2>4. \A n \in view'[a].batch : n \in R /\ view[a].ready[n] = 0
        BY <1>1, <2>2, <2>3, OneAtATime
    <2>5. \A n \in view'[a].batch : n \in Nodes /\ DueAfter(n, view[a].skips)
        BY <1>1, <2>2, <2>4 DEF NamesTheNodeDue
    <2>6. DOMAIN view'[a].ready = {}
        BY <1>1, <1>6, SelectView
    <2> QED
        BY <2>1, <2>5, <2>6
<1>7. ASSUME NEW a \in Actors, NEW m \in Nodes, SettleSkip(a, m)
      PROVE  /\ view'[a].batch = {}
             /\ \A n \in DOMAIN view'[a].ready :
                   view'[a].ready[n] = 0 => n \in Nodes /\ DueAfter(n, view[a].skips)'
    <2>1. /\ view'[a].batch = {} /\ view'[a].ready = view[a].ready
          /\ view'[a].skips = view[a].skips \ {m}
        BY <1>1, <1>7, SettleSkipView
    <2>2. /\ store' = Skip(store, m) /\ store[m].status \in {"none", "skipped"}
          /\ ~Live(m) /\ Sources(Graph, m) \subseteq Settled(store)
        BY <1>7 DEF SettleSkip, InductiveInv, PendingSkipsStand
    <2>3. \A n \in DOMAIN view[a].ready :
              view[a].ready[n] = 0 => n \in Nodes /\ DueAfter(n, view[a].skips)
        BY <1>1 DEF NamesTheNodeDue
    <2>4. ASSUME NEW n, NEW X, DueAfter(n, X)
          PROVE  DueAfter(n, X \ {m})'
        BY <1>1, <2>2, <2>4, DueAfterSkipping
    <2>5. \A n \in DOMAIN view[a].ready :
              view[a].ready[n] = 0 => \A X : X = view[a].skips => DueAfter(n, X \ {m})'
        BY <2>3, <2>4
    <2> QED
        BY <2>1, <2>3, <2>5 DEF DueAfter
<1>8. ASSUME NEW a \in Actors, view' = [view EXCEPT ![a] = NoView]
      PROVE  view'[a].batch = {} /\ DOMAIN view'[a].ready = {}
    BY <1>1, <1>8, DispatchView DEF NoView
<1>9. ASSUME NEW b \in Actors
      PROVE  /\ \A n \in view'[b].batch : n \in Nodes /\ DueAfter(n, {})
             /\ \A n \in DOMAIN view'[b].ready :
                   view'[b].ready[n] = 0 => n \in Nodes /\ DueAfter(n, view[b].skips)'
    <2>1. CASE view'[b] = view[b]
        <3>1. ASSUME NEW n \in DOMAIN view[b].ready, view[b].ready[n] = 0, NEW X, X = view[b].skips
              PROVE  DueAfter(n, X)'
            BY <1>1, <3>1, DueStays DEF NamesTheNodeDue
        <3>2. \A n \in DOMAIN view[b].ready :
                  view[b].ready[n] = 0 => \A X : X = view[b].skips => DueAfter(n, X)'
            BY <3>1
        <3> QED
            BY <1>1, <2>1, <3>2 DEF NamesTheNodeDue, DueAfter
    <2>2. ASSUME NEW a \in Actors, AdvanceCall(a) \/ CrashInAdvance(a), view'[b] # view[b]
          PROVE  b = a
        BY <1>1, <2>2, ReadFrontierView, SelectView, SettleSkipView, DispatchView
           DEF AdvanceCall, Dispatch, CrashInAdvance
    <2>3. CASE ReadFrontier(b)
        BY <1>5, <2>3
    <2>4. CASE SelectAfterSkips(b)
        BY <1>6, <2>4
    <2>5. CASE \E m \in Nodes : SettleSkip(b, m)
        BY <1>7, <2>5
    <2>6. CASE Dispatch(b) \/ CrashInAdvance(b)
        BY <1>8, <2>6 DEF Dispatch, CrashInAdvance
    <2>7. CASE \E a \in Actors : AdvanceCall(a) \/ CrashInAdvance(a)
        BY <2>1, <2>2, <2>3, <2>4, <2>5, <2>6, <2>7 DEF AdvanceCall
    <2> QED
        BY <1>1, <2>1, <2>7
           DEF Next, RunNode, Take, LoseRace, Replay, CheckpointCompleted, CheckpointPaused,
               CheckpointSkipped, CheckpointFailed, LeaveClaimedForRetry, RetryRunNode,
               Answer, AnswerAndRelease, AnswerAndRedispatch, Crash, vars
<1>10. Held(store') \subseteq Nodes
    BY <1>1 DEF Held, TypeOK
<1> QED
    BY <1>2, <1>3, <1>4, <1>9, <1>10 DEF NamesTheNodeDue

LEMMA SerialInit == Init => SerialInv
<1> SUFFICES ASSUME Init PROVE SerialInv
    OBVIOUS
<1>1. \A n \in Nodes : store[n].status = "none"
    BY DEF Init, NoRow
<1>2. \A a \in Actors : view[a].batch = {} /\ DOMAIN view[a].ready = {}
    BY DEF Init, NoView
<1>3. Held(store) = {} /\ jobs = {}
    BY <1>1 DEF Init, Held, HELD
<1> QED
    BY <1>1, <1>2, <1>3 DEF SerialInv, DecidedInOrder, NamesTheNodeDue

LEMMA SerialInvariant == Spec => [](Serial => SerialInv)
<1>1. Init => (Serial => SerialInv)
    BY SerialInit
<1>2. InductiveInv /\ (Serial => SerialInv) /\ [Next]_vars => (Serial => SerialInv)'
    <2> SUFFICES ASSUME InductiveInv, Serial => SerialInv, [Next]_vars, Serial' PROVE SerialInv'
        OBVIOUS
    <2>1. Serial
        BY DEF Serial
    <2> QED
        BY <2>1, OrderStep, NamesStep DEF SerialInv
<1> QED
    BY <1>1, <1>2, InductiveInvariant, PTL DEF Spec

\* Under the serial default no two nodes of a run are held at once, whoever
\* calls advance, however often, and whoever dies: the race on the count of the
\* held rows hands out one node twice, never two nodes.
THEOREM OneNodeAtATime == Spec => [](Serial => HeldWithinBudget)
<1>1. InductiveInv /\ (Serial => SerialInv) => (Serial => HeldWithinBudget)
    <2> SUFFICES ASSUME InductiveInv, Serial, SerialInv PROVE Cardinality(Held(store)) <= 1
        BY DEF HeldWithinBudget, Serial
    <2>1. TypeOK /\ Held(store) \subseteq Nodes /\ Held(store) \cap Settled(store) = {}
        BY DEF InductiveInv, TypeOK, Held, HELD, Settled, SETTLED
    <2>2. \A n, m \in Held(store) : n = m
        BY <2>1, OnlyOneDue DEF SerialInv, NamesTheNodeDue
    <2>3. CASE Held(store) = {}
        BY <2>3, FS_EmptySet
    <2>4. CASE Held(store) # {}
        <3>1. PICK n \in Held(store) : Held(store) = {n}
            BY <2>2, <2>4
        <3> QED
            BY <3>1, FS_Singleton
    <2> QED
        BY <2>3, <2>4
<1> QED
    BY <1>1, InductiveInvariant, SerialInvariant, PTL

\* Under the serial default a node starts only once everything declared before
\* it is settled: what runs, and in what order, is the same on every run.
THEOREM RunsInDeclarationOrder == Spec => [](Serial => DeclarationOrder)
<1>1. InductiveInv /\ (Serial => SerialInv) => (Serial => DeclarationOrder)
    <2> SUFFICES ASSUME InductiveInv, Serial, SerialInv, NEW n \in Nodes, NEW m \in Nodes,
                        Started(m), DeclaredBefore(Graph, n, m)
                 PROVE  n \in Settled(store)
        BY DEF DeclarationOrder, Settled
    <2>1. CASE store[m].status \in {"completed", "failed"}
        BY <2>1 DEF SerialInv, DecidedInOrder
    <2>2. CASE store[m].status \in {"claimed", "paused"}
        <3>1. m \in Held(store) /\ m \notin Settled(store)
            BY <2>2 DEF Held, HELD, Settled, SETTLED, InductiveInv, TypeOK
        <3> QED
            BY <3>1 DEF SerialInv, NamesTheNodeDue, DueAfter
    <2> QED
        BY <2>1, <2>2 DEF Started
<1> QED
    BY <1>1, InductiveInvariant, SerialInvariant, PTL
-----------------------------------------------------------------------------
(* Which nodes run *)

LEMMA ChoiceStep ==
    ASSUME InductiveInv, RowsFollowTheChoice, [Next]_vars
    PROVE  RowsFollowTheChoice'
<1>1. /\ TypeOK /\ store \in StoreType /\ Workers \subseteq Actors /\ choice' = choice
      /\ \A w \in Workers : pc[w] \in Running => task[w].node \in Nodes /\ task[w].owner \in Tokens
    BY DEF InductiveInv, TypeOK, StoreType, Actors, Next, RunNode, Take, LoseRace, Replay,
           CheckpointCompleted, CheckpointPaused, CheckpointSkipped, CheckpointFailed,
           LeaveClaimedForRetry, RetryRunNode, AdvanceCall, ReadFrontier, SettleSkip,
           SelectAfterSkips, Dispatch, Answer, AnswerAndRelease, AnswerAndRedispatch,
           Crash, CrashInAdvance, vars
\* Only a completed checkpoint completes a row, and only a replay makes a worker run.
<1>2. ASSUME \A m \in Nodes : store'[m].status = "completed" => store'[m] = store[m],
             \A v \in Workers : pc'[v] = "ran" => pc[v] = "ran" /\ task'[v] = task[v]
      PROVE  RowsFollowTheChoice'
    BY <1>1, <1>2 DEF RowsFollowTheChoice
<1>3. ASSUME NEW w \in Workers, RunNode(w)
      PROVE  RowsFollowTheChoice'
    <2>1. ASSUME NEW j \in jobs, Take(w, j)
          PROVE  RowsFollowTheChoice'
        <3>1. TokenFor(j) \in Tokens /\ j.node \in Nodes
            BY <1>1, <2>1, FreshTokenType DEF Take
        <3> QED
            BY <1>1, <1>2, <2>1, <3>1, ClaimRow DEF Take, TypeOK
    <2>2. CASE Replay(w)
        <3>1. /\ pc'[w] = "ran" => task[w].node \notin Graph.layout
              /\ task'[w].node = task[w].node
              /\ \A v \in Workers \ {w} : pc'[v] = pc[v] /\ task'[v] = task[v]
              /\ store' = store
            BY <1>1, <2>2 DEF Replay, EngineWalksPast, WalkedPast, TypeOK, TaskRecord
        <3> QED
            BY <1>1, <3>1 DEF RowsFollowTheChoice
    <2>3. CASE CheckpointCompleted(w)
        <3> SUFFICES ASSUME NEW n \in Nodes, n = task[w].node PROVE RowsFollowTheChoice'
            BY <1>1, <2>3 DEF CheckpointCompleted, Running
        <3>1. n \notin Graph.layout /\ choice[n] \in SUBSET Ports
            BY <1>1, <2>3 DEF CheckpointCompleted, RowsFollowTheChoice, TypeOK
        <3>2. store'[n].ports = choice[n] /\ \A m \in Nodes \ {n} : store'[m] = store[m]
            BY <1>1, <2>3, <3>1, CompleteRow DEF CheckpointCompleted
        <3>3. \A v \in Workers : pc'[v] = "ran" => pc[v] = "ran" /\ task'[v] = task[v]
            BY <1>1, <2>3 DEF CheckpointCompleted, TypeOK
        <3> QED
            BY <1>1, <3>1, <3>2, <3>3 DEF RowsFollowTheChoice
    <2>4. CASE CheckpointPaused(w)
        <3>1. pc[w] \in Running /\ task[w].node \in Nodes /\ task[w].owner \in Tokens
            BY <1>1, <2>4 DEF CheckpointPaused, Running
        <3>2. \A m \in Nodes : store'[m].status = "completed" => store'[m] = store[m]
            BY <1>1, <2>4, <3>1, PauseRow DEF CheckpointPaused
        <3>3. \A v \in Workers : pc'[v] = "ran" => pc[v] = "ran" /\ task'[v] = task[v]
            BY <1>1, <2>4 DEF CheckpointPaused, TypeOK
        <3> QED
            BY <1>2, <3>2, <3>3
    <2>5. CASE CheckpointSkipped(w)
        <3>1. pc[w] \in Running /\ task[w].node \in Nodes /\ task[w].owner \in Tokens
            BY <1>1, <2>5 DEF CheckpointSkipped, Running
        <3>2. \A m \in Nodes : store'[m].status = "completed" => store'[m] = store[m]
            BY <1>1, <2>5, <3>1, SkipRow DEF CheckpointSkipped
        <3>3. \A v \in Workers : pc'[v] = "ran" => pc[v] = "ran" /\ task'[v] = task[v]
            BY <1>1, <2>5 DEF CheckpointSkipped, TypeOK
        <3> QED
            BY <1>2, <3>2, <3>3
    <2>6. CASE CheckpointFailed(w)
        <3>1. pc[w] \in Running /\ task[w].node \in Nodes /\ task[w].owner \in Tokens
            BY <1>1, <2>6 DEF CheckpointFailed, Running
        <3>2. \A m \in Nodes : store'[m].status = "completed" => store'[m] = store[m]
            BY <1>1, <2>6, <3>1, FailRow DEF CheckpointFailed
        <3>3. \A v \in Workers : pc'[v] = "ran" => pc[v] = "ran" /\ task'[v] = task[v]
            BY <1>1, <2>6 DEF CheckpointFailed, TypeOK
        <3> QED
            BY <1>2, <3>2, <3>3
    <2>7. CASE RetryRunNode(w)
        <3>1. pc[w] \in Running /\ task[w].node \in Nodes /\ task[w].owner \in Tokens
            BY <1>1, <2>7 DEF RetryRunNode, Running
        <3>2. \A m \in Nodes : store'[m].status = "completed" => store'[m] = store[m]
            BY <1>1, <2>7, <3>1, ClaimRow DEF RetryRunNode
        <3>3. \A v \in Workers : pc'[v] = "ran" => pc[v] = "ran" /\ task'[v] = task[v]
            BY <1>1, <2>7 DEF RetryRunNode, TypeOK
        <3> QED
            BY <1>2, <3>2, <3>3
    <2>8. CASE LeaveClaimedForRetry(w) \/ \E j \in jobs : LoseRace(w, j)
        BY <1>1, <1>2, <2>8 DEF LeaveClaimedForRetry, LoseRace, TypeOK
    <2> QED
        BY <1>3, <2>1, <2>2, <2>3, <2>4, <2>5, <2>6, <2>7, <2>8 DEF RunNode
<1>4. ASSUME NEW a \in Actors, AdvanceCall(a)
      PROVE  RowsFollowTheChoice'
    <2>1. /\ task' = task
          /\ \E next \in {"dispatching", "skipping", "selecting", "idle"} :
                pc' = [pc EXCEPT ![a] = next]
        BY <1>4 DEF AdvanceCall, ReadFrontier, SettleSkip, SelectAfterSkips, Dispatch, HandOut
    <2>2. \A v \in Workers : pc'[v] = "ran" => pc[v] = "ran" /\ task'[v] = task[v]
        BY <1>1, <2>1 DEF TypeOK
    <2>3. \A m \in Nodes : store'[m].status = "completed" => store'[m] = store[m]
        <3>1. ASSUME NEW n \in Nodes, SettleSkip(a, n)
              PROVE  \A m \in Nodes : store'[m].status = "completed" => store'[m] = store[m]
            BY <1>1, <3>1, SkipRow DEF SettleSkip
        <3> QED
            BY <1>4, <3>1 DEF AdvanceCall, ReadFrontier, SelectAfterSkips, Dispatch
    <2> QED
        BY <1>2, <2>2, <2>3
<1>5. ASSUME NEW n \in Nodes, Answer(n)
      PROVE  RowsFollowTheChoice'
    <2>1. \A m \in Nodes : store'[m].status = "completed" => store'[m] = store[m]
        BY <1>1, <1>5, ReleaseRow DEF Answer, AnswerAndRelease, AnswerAndRedispatch, NoRow
    <2>2. \A v \in Workers : pc'[v] = "ran" => pc[v] = "ran" /\ task'[v] = task[v]
        BY <1>1, <1>5 DEF Answer, AnswerAndRelease, AnswerAndRedispatch, TypeOK
    <2> QED
        BY <1>2, <2>1, <2>2
<1>6. ASSUME NEW w \in Workers, Crash(w) \/ CrashInAdvance(w)
      PROVE  RowsFollowTheChoice'
    BY <1>1, <1>2, <1>6 DEF Crash, CrashInAdvance, TypeOK
<1>7. CASE UNCHANGED vars
    BY <1>7 DEF vars, RowsFollowTheChoice
<1> QED
    BY <1>3, <1>4, <1>5, <1>6, <1>7 DEF Next

\* The first node decided otherwise than in the walk would have sources that were
\* decided as in the walk, and would have been decided by them.
LEMMA DecidedAsInTheWalk ==
    ASSUME InductiveInv, RowsFollowTheChoice, \A n \in Nodes : store[n].status # "failed"
    PROVE  \A n \in Settled(store) :
              (store[n].status = "completed") <=> n \in RunsIn(Graph, choice, Nodes)
<1> DEFINE R == RunsIn(Graph, choice, Nodes)
           T == {n \in Settled(store) : ~((store[n].status = "completed") <=> n \in R)}
<1>1. /\ TypeOK /\ DecidedAfterSources /\ OnlyCompletedLights
      /\ T \subseteq Nodes /\ WellFormed(Graph) /\ Acyclic(Graph) /\ Nodes = NodesOf(Graph)
    BY GraphAssumption DEF InductiveInv, TypeOK, Settled, Nodes
<1>2. \A n \in Nodes :
          n \in R <=> /\ n \notin Graph.layout
                    /\ \/ Incoming(Graph, n) = {}
                       \/ \E e \in Incoming(Graph, n) : e.handle \in choice[e.source] /\ e.source \in R
    BY <1>1, RunsInSolves
<1> HIDE DEF R
<1>3. ASSUME NEW n \in T, Sources(Graph, n) \cap T = {}
      PROVE  FALSE
    <2>1. n \in Nodes /\ store[n].status \in {"completed", "skipped"}
        BY <1>1 DEF Settled, SETTLED
    <2>2. Sources(Graph, n) \subseteq Settled(store)
        BY <1>1, <2>1 DEF DecidedAfterSources
    <2>3. ASSUME NEW e \in Incoming(Graph, n)
          PROVE  Active(store, e) <=> (e.handle \in choice[e.source] /\ e.source \in R)
        <3>1. e.source \in Nodes /\ e.source \in Settled(store) /\ e.source \notin T
            BY <1>1, <1>3, <2>2, GraphEnds DEF Sources, Incoming
        <3>2. store[e.source].status = "completed" <=> e.source \in R
            BY <3>1
        <3>3. store[e.source].status = "completed" => store[e.source].ports = choice[e.source]
            BY <3>1 DEF RowsFollowTheChoice
        <3> QED
            BY <3>2, <3>3 DEF Active
    <2>4. CASE store[n].status = "completed"
        <3>1. Live(n) /\ n \notin Graph.layout
            BY <1>1, <2>1, <2>4 DEF DecidedAfterSources, Started, RowsFollowTheChoice
        <3>2. Incoming(Graph, n) = {} \/ \E e \in Incoming(Graph, n) : Active(store, e)
            BY <3>1 DEF Live, Dead, ActiveInto
        <3> QED
            BY <1>2, <1>3, <2>1, <2>3, <2>4, <3>1, <3>2
    <2>5. CASE store[n].status = "skipped"
        <3>1. ~Live(n) \/ n \in Graph.layout
            BY <1>1, <2>1, <2>5 DEF DecidedAfterSources
        <3>2. n \in Graph.layout \/ (Incoming(Graph, n) # {} /\ \A e \in Incoming(Graph, n) : ~Active(store, e))
            BY <1>1, <3>1 DEF Live, Dead, ActiveInto, WellFormed
        <3> QED
            BY <1>2, <1>3, <2>1, <2>3, <2>5, <3>2
    <2> QED
        BY <2>1, <2>4, <2>5
<1>4. T = {}
    BY <1>1, <1>3, FirstOfASet
<1> QED
    BY <1>4 DEF R

\* A run without a failure decides every node as the engine's walk of the whole
\* graph does, however its calls interleave and whoever dies.
THEOREM DecidesAsTheWalk == Spec => []SameDecisionsAsTheWalk
<1>1. Init => RowsFollowTheChoice
    BY DEF Init, RowsFollowTheChoice, NoRow, Actors
<1>2. InductiveInv /\ RowsFollowTheChoice /\ [Next]_vars => RowsFollowTheChoice'
    BY ChoiceStep
<1>3. InductiveInv /\ RowsFollowTheChoice => SameDecisionsAsTheWalk
    BY DecidedAsInTheWalk DEF SameDecisionsAsTheWalk
<1> QED
    BY <1>1, <1>2, <1>3, InductiveInvariant, PTL DEF Spec
=============================================================================
