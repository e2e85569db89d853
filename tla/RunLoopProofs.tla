---------------------------- MODULE RunLoopProofs ----------------------------
(***************************************************************************)
(* The safety theorems of RunLoop: what calls of run_to_completion, several*)
(* at once and dying, promise to the host and to the people it asks.       *)
(***************************************************************************)
EXTENDS RunLoop, FrontierProofs

StoreType == [Nodes -> Row(Drivers, Ports \cup Decisions)]

TodoOf(d) == {todo[d][i] : i \in DOMAIN todo[d]}

\* The types TypeOK leaves out, the history's among them; a gate that got past
\* its question had an answer, which is never taken back.
TypeInv ==
    /\ TypeOK
    /\ choice \in [Nodes -> SUBSET Ports]
    /\ runs \in [Nodes -> Nat] /\ releases \in [Nodes -> Nat]
    /\ beheld \in [Drivers -> SUBSET Nodes]
    /\ \A d \in Drivers : pc[d] \in Working => node[d] \in Nodes
    /\ \A d \in Drivers : pc[d] \in {"ran", "raised"} /\ node[d] \in Gates => Answered(node[d])

-----------------------------------------------------------------------------
(* Rows *)

LEMMA RowType ==
    ASSUME NEW s \in StoreType, NEW n \in Nodes, NEW o \in Drivers, NEW P \in SUBSET (Ports \cup Decisions)
    PROVE  /\ Claim(s, n, o) \in StoreType
           /\ Complete(s, n, P) \in StoreType /\ Fail(s, n) \in StoreType
           /\ Pause(s, n) \in StoreType /\ Skip(s, n) \in StoreType /\ Release(s, n) \in StoreType
           /\ \A m \in Nodes \ {n} :
                 /\ Claim(s, n, o)[m] = s[m]
                 /\ Complete(s, n, P)[m] = s[m] /\ Fail(s, n)[m] = s[m]
                 /\ Pause(s, n)[m] = s[m] /\ Skip(s, n)[m] = s[m] /\ Release(s, n)[m] = s[m]
<1>1. s[n] \in Row(Drivers, Ports \cup Decisions)
    BY DEF StoreType
<1>2. Entry(s[n]) \in Row(Drivers, Ports \cup Decisions)
    BY <1>1 DEF Entry, Row, Statuses, HELD, SETTLED
<1>3. /\ [Entry(s[n]) EXCEPT !.status = "completed", !.ports = P] \in Row(Drivers, Ports \cup Decisions)
      /\ \A v \in {"failed", "paused", "skipped"} :
            [Entry(s[n]) EXCEPT !.status = v, !.ports = {}] \in Row(Drivers, Ports \cup Decisions)
    BY <1>2 DEF Row, Statuses, HELD, SETTLED
<1>4. /\ [status |-> "claimed", owner |-> o, attempts |-> s[n].attempts + 1, ports |-> s[n].ports]
            \in Row(Drivers, Ports \cup Decisions)
      /\ NoRow \in Row(Drivers, Ports \cup Decisions)
    BY <1>1 DEF Row, NoRow, Statuses, HELD, SETTLED
<1> QED
    BY <1>3, <1>4 DEF StoreType, Claim, Complete, Fail, Pause, Skip, Release

\* The row that was written, of a node the caller holds.
LEMMA HeldRow ==
    ASSUME NEW s \in StoreType, NEW n \in Nodes, NEW P, s[n].status = "claimed"
    PROVE  /\ Complete(s, n, P)[n].status = "completed" /\ Complete(s, n, P)[n].ports = P
           /\ Fail(s, n)[n].status = "failed"
           /\ Pause(s, n)[n].status = "paused" /\ Pause(s, n)[n].owner = s[n].owner
           /\ Skip(s, n)[n].status = "skipped"
           /\ Release(s, n)[n] = NoRow
<1>1. s[n] \in Row(Drivers, Ports \cup Decisions)
    BY DEF StoreType
<1> QED
    BY <1>1 DEF StoreType, Row, Complete, Fail, Pause, Skip, SkipsNow, Release, Entry, SETTLED

LEMMA ClaimedRow ==
    ASSUME NEW s \in StoreType, NEW n \in Nodes, NEW o
    PROVE  /\ Claim(s, n, o)[n].status = "claimed" /\ Claim(s, n, o)[n].owner = o
           /\ Claim(s, n, o)[n].attempts = s[n].attempts + 1
           /\ \A m \in Nodes \ {n} : Claim(s, n, o)[m] = s[m]
BY DEF StoreType, Claim

\* A cascade writes the rows of nodes that have none.
LEMMA CascadeRows ==
    ASSUME store \in StoreType
    PROVE  LET skips == Skips(Graph, store)
               after == AfterSkips(skips)
           IN  /\ skips \subseteq Nodes
               /\ after \in StoreType
               /\ \A n \in Nodes \ skips : after[n] = store[n]
               /\ \A n \in skips : store[n].status = "none" /\ after[n].status = "skipped"
<1> DEFINE skips == Skips(Graph, store)
<1>1. \A n \in skips : n \in Nodes /\ store[n].status = "none"
    BY SkipsAreFixed DEF SkippedGiven, Nodes
<1>2. ASSUME NEW n \in skips
      PROVE  Skip(store, n)[n].status = "skipped"
             /\ Skip(store, n)[n] \in Row(Drivers, Ports \cup Decisions)
    <2>1. store[n] \in Row(Drivers, Ports \cup Decisions) /\ store[n].status = "none" /\ n \in Nodes
        BY <1>1 DEF StoreType
    <2> QED
        BY <2>1 DEF StoreType, Row, Skip, SkipsNow, Entry, SETTLED, Statuses, HELD
<1> QED
    BY <1>1, <1>2 DEF AfterSkips, StoreType

-----------------------------------------------------------------------------
(* Types *)

\* What one driver does leaves the others where they are.
LEMMA OthersKeep ==
    ASSUME TypeOK, NEW d \in Drivers, Drive(d) \/ Crash(d), NEW e \in Drivers \ {d}
    PROVE  /\ pc'[e] = pc[e] /\ todo'[e] = todo[e] /\ node'[e] = node[e]
           /\ result'[e] = result[e] /\ passes'[e] = passes[e]
<1> USE DEF TypeOK
<1>1. CASE Advance(d)
    <2>1. /\ \E next : pc' = [pc EXCEPT ![d] = next]
          /\ \E list : todo' = [todo EXCEPT ![d] = list]
          /\ \E left : passes' = [passes EXCEPT ![d] = left]
          /\ node' = node /\ result' = result
        BY <1>1 DEF Advance
    <2> QED
        BY <2>1
<1>2. CASE Call(d) \/ OutOfPasses(d) \/ ReturnAtTheEnd(d)
    BY <1>2 DEF Call, OutOfPasses, ReturnAtTheEnd, Return, loop
<1>3. CASE RunNext(d)
    BY <1>3 DEF RunNext
<1>4. CASE Execute(d)
    BY <1>4 DEF Execute, loop
<1>5. CASE Checkpoint(d) \/ TryAgain(d)
    BY <1>5 DEF Checkpoint, TryAgain, loop
<1>6. CASE PauseTheRun(d) \/ FailTheRun(d) \/ Crash(d)
    BY <1>6 DEF PauseTheRun, FailTheRun, Crash, Return
<1> QED
    BY <1>1, <1>2, <1>3, <1>4, <1>5, <1>6 DEF Drive

LEMMA AdvanceFacts ==
    ASSUME TypeInv, NEW d \in Drivers, Advance(d)
    PROVE  LET skips == Skips(Graph, store)
               ready == ReadyIndex(Graph, store)
               after == AfterSkips(skips)
               batch == SelectDispatch(ready, Cardinality(Held(after)), MaxConcurrent)
           IN  /\ pc[d] = "node" /\ todo[d] = <<>> /\ passes[d] > 0
               /\ store' = after /\ store' \in StoreType
               /\ batch \subseteq Ready(Graph, store) /\ Ready(Graph, store) \subseteq Nodes
               /\ IsFiniteSet(batch)
               /\ todo'[d] \in Seq(batch) /\ Len(todo'[d]) = Cardinality(batch)
               /\ \A i, j \in DOMAIN todo'[d] : todo'[d][i] = todo'[d][j] => i = j
               /\ passes'[d] = passes[d] - 1
               /\ pc'[d] = IF batch = {} THEN "finish" ELSE "node"
               /\ todo' = [todo EXCEPT ![d] = todo'[d]]
               /\ beheld'[d] = Held(after) /\ \A e \in Drivers \ {d} : beheld'[e] = beheld[e]
<1> DEFINE skips == Skips(Graph, store)
           ready == ReadyIndex(Graph, store)
           after == AfterSkips(skips)
           batch == SelectDispatch(ready, Cardinality(Held(after)), MaxConcurrent)
           R == Ready(Graph, store)
<1>1. store \in StoreType /\ TypeOK /\ beheld \in [Drivers -> SUBSET Nodes]
    BY DEF TypeInv, TypeOK, StoreType
<1>2. R \subseteq Nodes /\ IsFiniteSet(R)
    BY LoopAssumption, GraphFinite, FS_Subset DEF Ready, Nodes
<1>3. DOMAIN ready = R /\ \A n \in R : ready[n] \in Nat
    <2>1. ASSUME NEW S \in SUBSET R PROVE Cardinality(S) \in Nat
        BY <1>2, FS_Subset, FS_CardinalityType
    <2> QED
        BY <2>1 DEF ReadyIndex
<1>4. batch \subseteq R
    BY <1>3 DEF SelectDispatch
<1>5. IsFiniteSet(batch) /\ Cardinality(batch) \in Nat
    BY <1>2, <1>4, FS_Subset, FS_CardinalityType
<1>6. after \in StoreType
    BY <1>1, CascadeRows
<1>7. /\ pc[d] = "node" /\ todo[d] = <<>> /\ passes[d] > 0
      /\ store' = after
      /\ passes' = [passes EXCEPT ![d] = passes[d] - 1]
      /\ beheld' = [beheld EXCEPT ![d] = Held(after)]
      /\ pc' = [pc EXCEPT ![d] = IF batch = {} THEN "finish" ELSE "node"]
      /\ \E s \in InOrder(batch, ready) : todo' = [todo EXCEPT ![d] = s]
    BY DEF Advance, PassesLeft
<1> HIDE DEF ready, after, batch, R
<1>8. PICK s \in InOrder(batch, ready) : todo' = [todo EXCEPT ![d] = s]
    BY <1>7
<1>9. todo'[d] = s /\ s \in [1..Cardinality(batch) -> batch]
    BY <1>1, <1>8 DEF InOrder, TypeOK
<1>10. s \in Seq(batch) /\ Len(s) = Cardinality(batch)
    BY <1>5, <1>9
<1>11. ASSUME NEW i \in DOMAIN s, NEW j \in DOMAIN s, s[i] = s[j]
       PROVE  i = j
    <2>1. i \in Nat /\ j \in Nat
        BY <1>5, <1>9
    <2>2. ready[s[i]] \in Nat /\ ready[s[j]] \in Nat
        BY <1>3, <1>4, <1>9
    <2>3. ~(i < j) /\ ~(j < i)
        BY <1>11, <2>2 DEF InOrder
    <2> QED
        BY <2>1, <2>3
<1>12. /\ passes'[d] = passes[d] - 1
       /\ pc'[d] = IF batch = {} THEN "finish" ELSE "node"
       /\ beheld'[d] = Held(after) /\ \A e \in Drivers \ {d} : beheld'[e] = beheld[e]
    BY <1>1, <1>7 DEF TypeOK
<1> QED
    BY <1>2, <1>4, <1>5, <1>6, <1>7, <1>8, <1>9, <1>10, <1>11, <1>12 DEF after, batch, ready, R

\* What a node lights is a port it may light, or a decision.
LEMMA LitType ==
    ASSUME TypeInv, NEW n \in Nodes
    PROVE  PortsLit(n) \in SUBSET (Ports \cup Decisions) \/ (n \in Gates /\ ~Answered(n))
<1>1. CASE n \notin Gates
    <2>1. choice[n] \in SUBSET Ports
        BY DEF TypeInv
    <2> QED
        BY <1>1, <2>1 DEF PortsLit
<1>2. CASE n \in Gates /\ n \in DOMAIN answers
    <2>1. answers[n] \in Decisions
        BY <1>2 DEF TypeInv, TypeOK
    <2>2. PortsLit(n) = {answers[n]}
        BY <1>2 DEF PortsLit, Decision
    <2> QED
        BY <2>1, <2>2
<1>3. CASE n \in Gates /\ n \notin DOMAIN answers /\ Answered(n)
    <2>1. PreFilled[n] \in Decisions
        BY <1>3, LoopAssumption DEF Answered
    <2>2. PortsLit(n) = {PreFilled[n]}
        BY <1>3 DEF PortsLit, Decision
    <2> QED
        BY <2>1, <2>2
<1> QED
    BY <1>1, <1>2, <1>3

\* The three ways through a node.
LEMMA ExecuteFacts ==
    ASSUME TypeInv, NEW d \in Drivers, Execute(d)
    PROVE  /\ node[d] \in Nodes /\ pc[d] = "claimed"
           /\ UNCHANGED <<store, node, todo, passes, result, beheld, answers, choice, releases, crashes>>
           /\ \E v \in {"dead", "parked", "ran", "raised"} : pc' = [pc EXCEPT ![d] = v]
           /\ \/ /\ pc'[d] = "dead" /\ WalkedPast(Graph, store, node[d])
                 /\ awaiting' = awaiting /\ runs' = runs
              \/ /\ pc'[d] = "parked" /\ ~WalkedPast(Graph, store, node[d])
                 /\ node[d] \in Gates /\ ~Answered(node[d])
                 /\ awaiting' = node[d] /\ runs' = runs
              \/ /\ pc'[d] \in {"ran", "raised"} /\ ~WalkedPast(Graph, store, node[d])
                 /\ node[d] \in Gates => Answered(node[d])
                 /\ awaiting' = awaiting /\ runs' = [runs EXCEPT ![node[d]] = runs[node[d]] + 1]
<1>1. pc \in [Drivers -> Working \cup {"idle", "node", "finish"}]
    BY DEF TypeInv, TypeOK
<1>2. /\ pc[d] = "claimed"
      /\ UNCHANGED <<store, node, todo, passes, result, beheld, answers, choice, releases, crashes>>
    BY DEF Execute, loop, history
<1>3. node[d] \in Nodes
    BY <1>2 DEF TypeInv, Working
<1>4. CASE pc' = [pc EXCEPT ![d] = "dead"] /\ WalkedPast(Graph, store, node[d])
           /\ UNCHANGED <<awaiting, runs>>
    BY <1>1, <1>2, <1>3, <1>4
<1>5. CASE pc' = [pc EXCEPT ![d] = "parked"] /\ ~WalkedPast(Graph, store, node[d])
           /\ node[d] \in Gates /\ ~Answered(node[d]) /\ awaiting' = node[d] /\ UNCHANGED runs
    BY <1>1, <1>2, <1>3, <1>5
<1>6. CASE /\ pc' = [pc EXCEPT ![d] = "ran"] \/ pc' = [pc EXCEPT ![d] = "raised"]
           /\ ~WalkedPast(Graph, store, node[d])
           /\ node[d] \in Gates => Answered(node[d])
           /\ runs' = [runs EXCEPT ![node[d]] = runs[node[d]] + 1] /\ UNCHANGED awaiting
    BY <1>1, <1>2, <1>3, <1>6
<1> QED
    BY <1>4, <1>5, <1>6 DEF Execute

LEMMA TypeStep ==
    ASSUME TypeInv, [Next]_vars
    PROVE  TypeInv'
<1> USE DEF Working, Results, Answered
<1>1. /\ TypeOK /\ store \in StoreType /\ choice \in [Nodes -> SUBSET Ports]
      /\ runs \in [Nodes -> Nat] /\ releases \in [Nodes -> Nat] /\ beheld \in [Drivers -> SUBSET Nodes]
      /\ \A d \in Drivers : pc[d] \in Working => node[d] \in Nodes
      /\ \A d \in Drivers : pc[d] \in {"ran", "raised"} /\ node[d] \in Gates => Answered(node[d])
      /\ MaxPasses \in Nat
    BY LoopAssumption DEF TypeInv, TypeOK, StoreType
<1>2. CASE UNCHANGED vars
    BY <1>1, <1>2 DEF vars, TypeInv, TypeOK
<1>3. ASSUME NEW d \in Drivers, Advance(d)
      PROVE  TypeInv'
    <2>1. /\ store' \in StoreType /\ passes[d] > 0 /\ todo'[d] \in Seq(Nodes)
          /\ todo' = [todo EXCEPT ![d] = todo'[d]]
        BY <1>3, AdvanceFacts
    <2>2. \E next \in {"finish", "node"} : pc' = [pc EXCEPT ![d] = next]
        BY <1>3 DEF Advance
    <2>3. /\ passes' = [passes EXCEPT ![d] = passes[d] - 1] /\ passes[d] \in 0..MaxPasses
          /\ node' = node /\ result' = result /\ answers' = answers /\ awaiting' = awaiting
          /\ runs' = runs /\ choice' = choice /\ releases' = releases
        BY <1>1, <1>3 DEF Advance, gates, history, TypeOK
    <2>4. passes' \in [Drivers -> 0..MaxPasses]
        BY <1>1, <2>1, <2>3 DEF TypeOK
    <2>5. todo' \in [Drivers -> Seq(Nodes)]
        <3> DEFINE s == todo'[d]
        <3>1. s \in Seq(Nodes) /\ todo' = [todo EXCEPT ![d] = s]
            BY <2>1
        <3> HIDE DEF s
        <3> QED
            BY <1>1, <3>1 DEF TypeOK
    <2>6. beheld' \in [Drivers -> SUBSET Nodes]
        <3>1. Held(AfterSkips(Skips(Graph, store))) \subseteq Nodes
            BY DEF Held, AfterSkips
        <3>2. beheld' = [beheld EXCEPT ![d] = Held(AfterSkips(Skips(Graph, store)))]
            BY <1>3 DEF Advance
        <3> QED
            BY <1>1, <3>1, <3>2
    <2> QED
        BY <1>1, <2>1, <2>2, <2>3, <2>4, <2>5, <2>6 DEF TypeInv, TypeOK, StoreType
<1>4. ASSUME NEW d \in Drivers, Call(d) \/ OutOfPasses(d)
      PROVE  TypeInv'
    <2>1. /\ \E next \in {"node", "finish"} : pc' = [pc EXCEPT ![d] = next]
          /\ passes' = passes \/ passes' = [passes EXCEPT ![d] = MaxPasses]
          /\ UNCHANGED <<store, todo, node, result, beheld, answers, awaiting, runs, choice, releases>>
        BY <1>4 DEF Call, OutOfPasses, loop, gates, history
    <2>2. passes' \in [Drivers -> 0..MaxPasses]
        <3>1. MaxPasses \in 0..MaxPasses /\ passes \in [Drivers -> 0..MaxPasses]
            BY <1>1 DEF TypeOK
        <3> QED
            BY <2>1, <3>1
    <2> QED
        BY <1>1, <2>1, <2>2 DEF TypeInv, TypeOK
<1>5. ASSUME NEW d \in Drivers, NEW r \in Results, Return(d, r),
             UNCHANGED <<passes, gates, choice, runs, releases, beheld>>, store' \in StoreType
      PROVE  TypeInv'
    <2>1. <<>> \in Seq(Nodes)
        OBVIOUS
    <2> QED
        BY <1>1, <1>5, <2>1 DEF Return, gates, TypeInv, TypeOK, StoreType
<1>6. ASSUME NEW d \in Drivers, ReturnAtTheEnd(d) \/ Crash(d)
      PROVE  TypeInv'
    BY <1>1, <1>5, <1>6 DEF ReturnAtTheEnd, Crash, Finish, history
<1>7. ASSUME NEW d \in Drivers, RunNext(d)
      PROVE  TypeInv'
    <2>1. todo[d] \in Seq(Nodes) /\ todo[d] # <<>>
        BY <1>1, <1>7 DEF RunNext, TypeOK
    <2>2. Head(todo[d]) \in Nodes /\ Tail(todo[d]) \in Seq(Nodes)
        BY <2>1
    <2>3. Claim(store, Head(todo[d]), d) \in StoreType
        BY <1>1, <2>2, RowType
    <2>4. store' \in StoreType
        <3>1. store' = Claim(store, Head(todo[d]), d) \/ store' = store
            BY <1>7 DEF RunNext, Token
        <3> QED
            BY <1>1, <2>3, <3>1
    <2>5. /\ todo' = [todo EXCEPT ![d] = Tail(todo[d])]
          /\ node' = node \/ node' = [node EXCEPT ![d] = Head(todo[d])]
          /\ \/ pc' = pc /\ node' = node
             \/ pc' = [pc EXCEPT ![d] = "claimed"] /\ node' = [node EXCEPT ![d] = Head(todo[d])]
          /\ UNCHANGED <<passes, result, beheld, answers, awaiting, runs, choice, releases>>
        BY <1>7 DEF RunNext, gates, history
    <2> QED
        BY <1>1, <2>2, <2>4, <2>5 DEF TypeInv, TypeOK, StoreType
<1>8. ASSUME NEW d \in Drivers, Execute(d)
      PROVE  TypeInv'
    <2>1. /\ node[d] \in Nodes
          /\ \E next \in {"dead", "parked", "ran", "raised"} : pc' = [pc EXCEPT ![d] = next]
          /\ awaiting' = awaiting \/ (awaiting' = node[d] /\ node[d] \in Gates)
          /\ runs' \in [Nodes -> Nat]
          /\ pc'[d] \in {"ran", "raised"} /\ node[d] \in Gates => Answered(node[d])
          /\ UNCHANGED <<store, node, todo, passes, result, beheld, answers, choice, releases>>
        BY <1>1, <1>8, ExecuteFacts
    <2> QED
        BY <1>1, <2>1 DEF TypeInv, TypeOK
<1>9. ASSUME NEW d \in Drivers, Checkpoint(d) \/ TryAgain(d) \/ PauseTheRun(d) \/ FailTheRun(d)
      PROVE  store' \in StoreType
    <2>1. node[d] \in Nodes
        BY <1>1, <1>9 DEF Checkpoint, TryAgain, PauseTheRun, FailTheRun
    <2>2. PortsLit(node[d]) \in SUBSET (Ports \cup Decisions) \/ pc[d] # "ran"
        BY <1>1, <2>1, LitType DEF TypeInv
    <2>3. /\ Claim(store, node[d], d) \in StoreType /\ Fail(store, node[d]) \in StoreType
          /\ Pause(store, node[d]) \in StoreType /\ Skip(store, node[d]) \in StoreType
        BY <1>1, <2>1, RowType
    <2>4. CASE Checkpoint(d)
        <3>1. CASE pc[d] = "ran"
            <4>1. store' = Complete(store, node[d], PortsLit(node[d]))
                BY <2>4, <3>1 DEF Checkpoint
            <4> QED
                BY <1>1, <2>1, <2>2, <3>1, <4>1, RowType
        <3>2. CASE pc[d] = "dead"
            BY <2>3, <2>4, <3>2 DEF Checkpoint
        <3> QED
            BY <2>4, <3>1, <3>2 DEF Checkpoint
    <2> QED
        BY <1>9, <2>3, <2>4 DEF TryAgain, PauseTheRun, FailTheRun, Token
<1>10. ASSUME NEW d \in Drivers, PauseTheRun(d) \/ FailTheRun(d)
       PROVE  TypeInv'
    BY <1>5, <1>9, <1>10 DEF PauseTheRun, FailTheRun, history
<1>11. ASSUME NEW d \in Drivers, Checkpoint(d) \/ TryAgain(d)
       PROVE  TypeInv'
    <2>1. /\ store' \in StoreType
          /\ \/ pc' = [pc EXCEPT ![d] = "node"] /\ node' = [node EXCEPT ![d] = NoNode]
             \/ pc' = [pc EXCEPT ![d] = "claimed"] /\ node' = node /\ pc[d] \in Working
          /\ UNCHANGED <<todo, passes, result, beheld, answers, awaiting, runs, choice, releases>>
        BY <1>9, <1>11 DEF Checkpoint, TryAgain, loop, gates, history
    <2> QED
        BY <1>1, <2>1 DEF TypeInv, TypeOK, StoreType
<1>12. ASSUME NEW n \in Nodes, NEW decision \in Decisions, Record(n, decision)
       PROVE  TypeInv'
    <2>1. n \in Gates
        BY <1>1, <1>12, LoopAssumption DEF Record, MayRecord, TypeOK
    <2>2. /\ DOMAIN answers' = DOMAIN answers \cup {n}
          /\ \A m \in DOMAIN answers' : answers'[m] = IF m = n THEN decision ELSE answers[m]
          /\ awaiting' = NoNode
          /\ UNCHANGED <<store, pc, node, todo, passes, result, beheld, runs, choice, releases>>
        BY <1>12 DEF Record, loop, history
    <2>3. DOMAIN answers' \subseteq Gates /\ \A m \in DOMAIN answers' : answers'[m] \in Decisions
        BY <1>1, <1>12, <2>1, <2>2 DEF TypeOK
    <2> QED
        BY <1>1, <2>2, <2>3 DEF TypeInv, TypeOK
<1>13. ASSUME NEW n \in Nodes, ReleaseRow(n)
       PROVE  TypeInv'
    <2>1. Release(store, n) \in StoreType
        <3>1. NoRow \in Row(Drivers, Ports \cup Decisions)
            BY DEF NoRow, Row, Statuses, HELD, SETTLED
        <3> QED
            BY <1>1, <3>1 DEF Release, StoreType
    <2>2. /\ store' = Release(store, n) /\ releases' = [releases EXCEPT ![n] = releases[n] + 1]
          /\ UNCHANGED <<pc, node, todo, passes, result, beheld, answers, awaiting, runs, choice>>
        BY <1>13 DEF ReleaseRow, loop, gates
    <2>3. releases' \in [Nodes -> Nat]
        BY <1>1, <2>2
    <2> QED
        BY <1>1, <2>1, <2>2, <2>3 DEF TypeInv, TypeOK, StoreType
<1> QED
    BY <1>2, <1>3, <1>4, <1>6, <1>7, <1>8, <1>10, <1>11, <1>12, <1>13 DEF Next, Drive, Answer

-----------------------------------------------------------------------------
(* Who holds what *)

Distinct(s) == \A i, j \in DOMAIN s : s[i] = s[j] => i = j

\* A driver holds the node it is at and no node of the pass it has still to run.
OwnInv ==
    /\ \A d \in Drivers : pc[d] \in Working =>
          store[node[d]].status = "claimed" /\ store[node[d]].owner = d
    /\ \A d \in Drivers : pc[d] \in {"idle", "finish"} => todo[d] = <<>>
    /\ \A d \in Drivers : Distinct(todo[d])
    /\ \A d \in Drivers : \A n \in TodoOf(d) : ~(store[n].status \in HELD /\ store[n].owner = d)

LEMMA TailOf ==
    ASSUME NEW S, NEW s \in Seq(S), s # <<>>, Distinct(s)
    PROVE  LET all == {s[i] : i \in DOMAIN s}
               rest == {Tail(s)[i] : i \in DOMAIN Tail(s)}
           IN  /\ Head(s) \in all /\ Head(s) \in S
               /\ rest = all \ {Head(s)}
               /\ Tail(s) \in Seq(S) /\ Distinct(Tail(s))
<1>1. /\ Len(s) \in Nat \ {0} /\ DOMAIN s = 1..Len(s) /\ Head(s) = s[1]
      /\ \A i \in DOMAIN s : s[i] \in S
    OBVIOUS
<1>2. /\ Tail(s) \in Seq(S) /\ Len(Tail(s)) = Len(s) - 1 /\ DOMAIN Tail(s) = 1..(Len(s) - 1)
      /\ \A i \in 1..(Len(s) - 1) : Tail(s)[i] = s[i + 1]
    OBVIOUS
<1>3. ASSUME NEW x, x \in {s[i] : i \in DOMAIN s}, x # Head(s)
      PROVE  x \in {Tail(s)[i] : i \in DOMAIN Tail(s)}
    <2>1. PICK i \in DOMAIN s : x = s[i]
        BY <1>3
    <2>2. i \in 1..Len(s) /\ i # 1
        BY <1>1, <1>3, <2>1
    <2>3. (i - 1) \in 1..(Len(s) - 1) /\ (i - 1) + 1 = i
        BY <1>1, <2>2
    <2>4. Tail(s)[i - 1] = s[i]
        BY <1>2, <2>3
    <2> QED
        BY <1>2, <2>1, <2>3, <2>4
<1>4. ASSUME NEW i \in 1..(Len(s) - 1)
      PROVE  (i + 1) \in DOMAIN s /\ 1 \in DOMAIN s /\ Tail(s)[i] = s[i + 1] /\ i + 1 # 1
    BY <1>1, <1>2
<1>5. \A i \in 1..(Len(s) - 1) : Tail(s)[i] # Head(s)
    BY <1>1, <1>4 DEF Distinct
<1>6. Distinct(Tail(s))
    <2> SUFFICES ASSUME NEW i \in 1..(Len(s) - 1), NEW j \in 1..(Len(s) - 1), Tail(s)[i] = Tail(s)[j]
                 PROVE  i = j
        BY <1>2 DEF Distinct
    <2>1. i + 1 = j + 1
        BY <1>4 DEF Distinct
    <2> QED
        BY <2>1
<1>7. Head(s) \in {s[i] : i \in DOMAIN s} /\ Head(s) \in S
    BY <1>1
<1>8. {Tail(s)[i] : i \in DOMAIN Tail(s)} \subseteq {s[i] : i \in DOMAIN s} \ {Head(s)}
    BY <1>2, <1>4, <1>5
<1> QED
    BY <1>2, <1>3, <1>6, <1>7, <1>8

\* The next node of the pass: it is claimed afresh, or lost to another driver.
LEMMA RunNextFacts ==
    ASSUME TypeInv, OwnInv, NEW d \in Drivers, RunNext(d)
    PROVE  LET n == Head(todo[d])
           IN  /\ pc[d] = "node" /\ n \in Nodes /\ n \in TodoOf(d)
               /\ TodoOf(d)' = TodoOf(d) \ {n} /\ Distinct(todo'[d])
               /\ \/ /\ store[n].status = "none"
                     /\ store' = Claim(store, n, d) /\ store' \in StoreType
                     /\ node' = [node EXCEPT ![d] = n] /\ pc' = [pc EXCEPT ![d] = "claimed"]
                  \/ store[n].status # "none" /\ UNCHANGED <<store, node, pc>>
               /\ UNCHANGED <<passes, result, beheld, answers, awaiting, runs, choice, releases, crashes>>
<1> DEFINE n == Head(todo[d])
<1>1. todo[d] \in Seq(Nodes) /\ todo[d] # <<>> /\ Distinct(todo[d]) /\ store \in StoreType
    BY DEF RunNext, TypeInv, TypeOK, OwnInv, StoreType
<1>2. /\ n \in TodoOf(d) /\ n \in Nodes
      /\ {Tail(todo[d])[i] : i \in DOMAIN Tail(todo[d])} = TodoOf(d) \ {n}
      /\ Distinct(Tail(todo[d]))
    BY <1>1, TailOf DEF TodoOf
<1>3. /\ pc[d] = "node"
      /\ todo' = [todo EXCEPT ![d] = Tail(todo[d])]
      /\ \/ /\ CanClaim(store, n, d) /\ store' = Claim(store, n, d)
            /\ node' = [node EXCEPT ![d] = n] /\ pc' = [pc EXCEPT ![d] = "claimed"]
         \/ ~CanClaim(store, n, d) /\ UNCHANGED <<store, node, pc>>
      /\ UNCHANGED <<passes, result, beheld, answers, awaiting, runs, choice, releases, crashes>>
    BY DEF RunNext, Token, gates, history
<1>4. todo'[d] = Tail(todo[d])
    BY <1>3 DEF TypeInv, TypeOK
<1>5. CanClaim(store, n, d) <=> store[n].status = "none"
    BY <1>2 DEF CanClaim, OwnClaim, OwnInv
<1>6. Claim(store, n, d) \in StoreType
    BY <1>1, <1>2, RowType
<1> HIDE DEF n
<1> QED
    BY <1>2, <1>3, <1>4, <1>5, <1>6 DEF n, TodoOf

\* What is written on the row of the node a driver is at, and where it goes next.
LEMMA WriteFacts ==
    ASSUME TypeInv, OwnInv, NEW d \in Drivers,
           Checkpoint(d) \/ TryAgain(d) \/ PauseTheRun(d) \/ FailTheRun(d)
    PROVE  LET n == node[d]
           IN  /\ n \in Nodes /\ pc[d] \in Working
               /\ store[n].status = "claimed" /\ store[n].owner = d
               /\ store' \in StoreType /\ \A m \in Nodes \ {n} : store'[m] = store[m]
               /\ \/ /\ pc[d] = "ran" /\ (n \in Gates => Answered(n))
                     /\ store'[n].status = "completed" /\ store'[n].ports = PortsLit(n)
                     /\ pc' = [pc EXCEPT ![d] = "node"] /\ todo' = todo /\ result' = result
                     /\ node' = [node EXCEPT ![d] = NoNode]
                  \/ /\ pc[d] = "dead"
                     /\ store'[n].status = "skipped"
                     /\ pc' = [pc EXCEPT ![d] = "node"] /\ todo' = todo /\ result' = result
                     /\ node' = [node EXCEPT ![d] = NoNode]
                  \/ /\ pc[d] = "raised" /\ store[n].attempts < TriesFor[n]
                     /\ store'[n].status = "claimed" /\ store'[n].owner = d
                     /\ store'[n].attempts = store[n].attempts + 1
                     /\ pc' = [pc EXCEPT ![d] = "claimed"] /\ todo' = todo /\ result' = result
                     /\ node' = node
                  \/ /\ pc[d] = "parked"
                     /\ store'[n].status = "paused" /\ store'[n].owner = d
                     /\ Return(d, "paused")
                  \/ /\ pc[d] = "raised"
                     /\ store'[n].status = "failed"
                     /\ Return(d, "failed")
               /\ UNCHANGED <<passes, beheld, answers, awaiting, runs, choice, releases, crashes>>
<1> DEFINE n == node[d]
<1>1. pc[d] \in Working
    BY DEF Checkpoint, TryAgain, PauseTheRun, FailTheRun, Working
<1>2. /\ n \in Nodes /\ store \in StoreType
      /\ store[n].status = "claimed" /\ store[n].owner = d
    BY <1>1 DEF TypeInv, TypeOK, StoreType, OwnInv
<1> HIDE DEF n
<1>3. CASE Checkpoint(d) /\ pc[d] = "ran"
    <2>1. n \in Gates => Answered(n)
        BY <1>3 DEF TypeInv, n
    <2>2. PortsLit(n) \in SUBSET (Ports \cup Decisions)
        BY <1>2, <2>1, LitType
    <2>3. store' = Complete(store, n, PortsLit(n)) /\ pc' = [pc EXCEPT ![d] = "node"]
          /\ node' = [node EXCEPT ![d] = NoNode]
          /\ UNCHANGED <<todo, result, passes, beheld, answers, awaiting, runs, choice, releases, crashes>>
        BY <1>3 DEF Checkpoint, loop, gates, history, n
    <2>4. /\ store' \in StoreType /\ \A m \in Nodes \ {n} : store'[m] = store[m]
          /\ store'[n].status = "completed" /\ store'[n].ports = PortsLit(n)
        BY <1>2, <2>2, <2>3, RowType, HeldRow
    <2> QED
        BY <1>1, <1>2, <1>3, <2>1, <2>3, <2>4 DEF n
<1>4. CASE Checkpoint(d) /\ pc[d] = "dead"
    <2>1. store' = Skip(store, n) /\ pc' = [pc EXCEPT ![d] = "node"]
          /\ node' = [node EXCEPT ![d] = NoNode]
          /\ UNCHANGED <<todo, result, passes, beheld, answers, awaiting, runs, choice, releases, crashes>>
        BY <1>4 DEF Checkpoint, loop, gates, history, n
    <2>2. /\ store' \in StoreType /\ \A m \in Nodes \ {n} : store'[m] = store[m]
          /\ store'[n].status = "skipped"
        BY <1>2, <2>1, RowType, HeldRow
    <2> QED
        BY <1>1, <1>2, <1>4, <2>1, <2>2 DEF n
<1>5. CASE TryAgain(d)
    <2>1. /\ store' = Claim(store, n, d) /\ pc' = [pc EXCEPT ![d] = "claimed"]
          /\ pc[d] = "raised" /\ store[n].attempts < TriesFor[n]
          /\ UNCHANGED <<node, todo, result, passes, beheld, answers, awaiting, runs, choice, releases, crashes>>
        BY <1>5 DEF TryAgain, Token, loop, gates, history, n
    <2>2. /\ store' \in StoreType /\ \A m \in Nodes \ {n} : store'[m] = store[m]
          /\ store'[n].status = "claimed" /\ store'[n].owner = d
          /\ store'[n].attempts = store[n].attempts + 1
        <3>1. Claim(store, n, d) \in StoreType
            BY <1>2, RowType
        <3> QED
            BY <1>2, <2>1, <3>1, ClaimedRow
    <2> QED
        BY <1>1, <1>2, <2>1, <2>2 DEF n
<1>6. CASE PauseTheRun(d)
    <2>1. /\ store' = Pause(store, n) /\ pc[d] = "parked" /\ Return(d, "paused")
          /\ UNCHANGED <<passes, beheld, answers, awaiting, runs, choice, releases, crashes>>
        BY <1>6 DEF PauseTheRun, gates, history, n
    <2>2. /\ store' \in StoreType /\ \A m \in Nodes \ {n} : store'[m] = store[m]
          /\ store'[n].status = "paused" /\ store'[n].owner = d
        <3>1. Pause(store, n)[n].status = "paused" /\ Pause(store, n)[n].owner = d
            BY <1>2, HeldRow
        <3>2. Pause(store, n) \in StoreType /\ \A m \in Nodes \ {n} : Pause(store, n)[m] = store[m]
            BY <1>2, RowType
        <3> QED
            BY <2>1, <3>1, <3>2
    <2> QED
        BY <1>1, <1>2, <2>1, <2>2 DEF n
<1>7. CASE FailTheRun(d)
    <2>1. /\ store' = Fail(store, n) /\ pc[d] = "raised" /\ Return(d, "failed")
          /\ UNCHANGED <<passes, beheld, answers, awaiting, runs, choice, releases, crashes>>
        BY <1>7 DEF FailTheRun, gates, history, n
    <2>2. /\ store' \in StoreType /\ \A m \in Nodes \ {n} : store'[m] = store[m]
          /\ store'[n].status = "failed"
        BY <1>2, <2>1, RowType, HeldRow
    <2> QED
        BY <1>1, <1>2, <2>1, <2>2 DEF n
<1> QED
    BY <1>3, <1>4, <1>5, <1>6, <1>7 DEF Checkpoint

\* How the rows move when one driver steps.
LEMMA RowMoves ==
    ASSUME TypeInv, OwnInv, NEW d \in Drivers, Drive(d) \/ Crash(d), NEW n \in Nodes
    PROVE  \/ store'[n] = store[n]
           \/ store[n].status = "none" /\ store'[n].status = "skipped"
           \/ store[n].status = "none" /\ store'[n].status = "claimed" /\ store'[n].owner = d
           \/ /\ n = node[d] /\ pc[d] \in Working
              /\ store[n].status = "claimed" /\ store[n].owner = d
              /\ store'[n].status \in SETTLED \/ (store'[n].status \in HELD /\ store'[n].owner = d)
<1>1. CASE Advance(d)
    <2>1. store' = AfterSkips(Skips(Graph, store)) /\ store \in StoreType
        BY <1>1, AdvanceFacts DEF TypeInv, TypeOK, StoreType
    <2> QED
        BY <2>1, CascadeRows
<1>2. CASE RunNext(d)
    <2> DEFINE m == Head(todo[d])
    <2>1. \/ /\ m \in Nodes /\ store[m].status = "none"
             /\ store' = Claim(store, m, d)
          \/ store' = store
        BY <1>2, RunNextFacts
    <2>2. store \in StoreType
        BY DEF TypeInv, TypeOK, StoreType
    <2> HIDE DEF m
    <2> QED
        BY <2>1, <2>2, RowType, ClaimedRow
<1>3. CASE Checkpoint(d) \/ TryAgain(d) \/ PauseTheRun(d) \/ FailTheRun(d)
    BY <1>3, WriteFacts DEF SETTLED, HELD
<1>4. CASE Call(d) \/ OutOfPasses(d) \/ ReturnAtTheEnd(d) \/ Execute(d) \/ Crash(d)
    BY <1>4 DEF Call, OutOfPasses, ReturnAtTheEnd, Execute, Crash
<1> QED
    BY <1>1, <1>2, <1>3, <1>4 DEF Drive

LEMMA OwnStep ==
    ASSUME TypeInv, OwnInv, [Next]_vars
    PROVE  OwnInv'
<1> USE DEF Working
<1>1. /\ TypeOK /\ pc \in [Drivers -> Working \cup {"idle", "node", "finish"}]
      /\ todo \in [Drivers -> Seq(Nodes)] /\ node \in [Drivers -> Nodes \cup {NoNode}]
      /\ \A d \in Drivers : TodoOf(d) \subseteq Nodes
      /\ \A d \in Drivers : pc[d] \in Working => node[d] \in Nodes
    <2>1. todo \in [Drivers -> Seq(Nodes)]
        BY DEF TypeInv, TypeOK
    <2>2. ASSUME NEW d \in Drivers
          PROVE  TodoOf(d) \subseteq Nodes
        <3>1. todo[d] \in Seq(Nodes)
            BY <2>1
        <3> QED
            BY <3>1 DEF TodoOf
    <2> QED
        BY <2>1, <2>2 DEF TypeInv, TypeOK
<1>2. CASE UNCHANGED vars
    BY <1>2 DEF vars, OwnInv, TodoOf
<1>3. ASSUME NEW d \in Drivers, Drive(d) \/ Crash(d), NEW e \in Drivers \ {d}
      PROVE  /\ pc'[e] \in Working =>
                   store'[node'[e]].status = "claimed" /\ store'[node'[e]].owner = e
             /\ pc'[e] \in {"idle", "finish"} => todo'[e] = <<>>
             /\ Distinct(todo'[e])
             /\ \A n \in TodoOf(e)' : ~(store'[n].status \in HELD /\ store'[n].owner = e)
    <2>1. pc'[e] = pc[e] /\ todo'[e] = todo[e] /\ node'[e] = node[e] /\ TodoOf(e)' = TodoOf(e)
        BY <1>1, <1>3, OthersKeep DEF TodoOf
    <2>2. ASSUME pc[e] \in Working
          PROVE  store'[node[e]].status = "claimed" /\ store'[node[e]].owner = e
        <3> DEFINE n == node[e]
        <3>1. n \in Nodes /\ store[n].status = "claimed" /\ store[n].owner = e
            BY <1>1, <2>2 DEF OwnInv
        <3> HIDE DEF n
        <3>2. store'[n] = store[n]
            BY <1>3, <3>1, RowMoves
        <3> QED
            BY <3>1, <3>2 DEF n
    <2>3. ASSUME NEW n \in TodoOf(e)
          PROVE  ~(store'[n].status \in HELD /\ store'[n].owner = e)
        <3>1. ~(store[n].status \in HELD /\ store[n].owner = e) /\ n \in Nodes
            BY <1>1 DEF OwnInv
        <3> QED
            BY <1>3, <3>1, RowMoves DEF HELD, SETTLED
    <2> QED
        BY <2>1, <2>2, <2>3 DEF OwnInv
<1>4. ASSUME NEW d \in Drivers, Drive(d) \/ Crash(d)
      PROVE  /\ pc'[d] \in Working =>
                   store'[node'[d]].status = "claimed" /\ store'[node'[d]].owner = d
             /\ pc'[d] \in {"idle", "finish"} => todo'[d] = <<>>
             /\ Distinct(todo'[d])
             /\ \A n \in TodoOf(d)' : ~(store'[n].status \in HELD /\ store'[n].owner = d)
    <2>1. CASE Call(d) \/ OutOfPasses(d)
        <3>1. /\ store' = store /\ node' = node /\ todo' = todo /\ TodoOf(d)' = TodoOf(d)
              /\ pc'[d] \in {"node", "finish"} /\ (pc'[d] = "finish" => todo[d] = <<>>)
            BY <1>1, <2>1 DEF Call, OutOfPasses, loop, TodoOf
        <3> QED
            BY <3>1 DEF OwnInv
    <2>2. CASE Advance(d)
        <3> DEFINE ready == ReadyIndex(Graph, store)
                   after == AfterSkips(Skips(Graph, store))
                   batch == SelectDispatch(ready, Cardinality(Held(after)), MaxConcurrent)
        <3>1. /\ batch \subseteq Ready(Graph, store) /\ Ready(Graph, store) \subseteq Nodes
              /\ todo'[d] \in Seq(batch) /\ Len(todo'[d]) = Cardinality(batch)
              /\ Distinct(todo'[d])
              /\ pc'[d] = (IF batch = {} THEN "finish" ELSE "node")
              /\ store' = after
            BY <2>2, AdvanceFacts DEF Distinct
        <3>2. \A n \in Ready(Graph, store) : store'[n] = store[n] /\ store[n].status = "none"
            BY <1>1, <3>1, CascadeRows DEF Ready, Nodes, TypeOK, StoreType
        <3> HIDE DEF batch, after, ready
        <3>3. TodoOf(d)' \subseteq batch
            BY <3>1 DEF TodoOf
        <3>4. batch = {} => todo'[d] = <<>>
            <4>1. ASSUME batch = {}
                  PROVE  Len(todo'[d]) = 0
                BY <3>1, <4>1, FS_EmptySet
            <4> QED
                BY <3>1, <4>1
        <3> QED
            BY <3>1, <3>2, <3>3, <3>4 DEF HELD
    <2>3. CASE ReturnAtTheEnd(d) \/ Crash(d)
        <3>1. pc'[d] = "idle" /\ todo'[d] = <<>>
            BY <1>1, <2>3 DEF ReturnAtTheEnd, Crash, Return
        <3> QED
            BY <3>1 DEF Distinct, TodoOf
    <2>4. CASE RunNext(d)
        <3> DEFINE n == Head(todo[d])
        <3>1. /\ pc[d] = "node" /\ n \in Nodes /\ n \in TodoOf(d)
              /\ TodoOf(d)' = TodoOf(d) \ {n} /\ Distinct(todo'[d])
              /\ \/ /\ store[n].status = "none"
                    /\ store' = Claim(store, n, d) /\ store' \in StoreType
                    /\ node' = [node EXCEPT ![d] = n] /\ pc' = [pc EXCEPT ![d] = "claimed"]
                 \/ store[n].status # "none" /\ UNCHANGED <<store, node, pc>>
            BY <2>4, RunNextFacts
        <3> HIDE DEF n
        <3>2. CASE store' = Claim(store, n, d) /\ node' = [node EXCEPT ![d] = n] /\ pc' = [pc EXCEPT ![d] = "claimed"]
            <4>1. store'[n].status = "claimed" /\ store'[n].owner = d
                  /\ \A m \in Nodes \ {n} : store'[m] = store[m]
                <5>1. store \in StoreType /\ n \in Nodes
                    BY <1>1, <3>1 DEF TypeOK, StoreType
                <5>2. Claim(store, n, d)[n].status = "claimed" /\ Claim(store, n, d)[n].owner = d
                    BY <5>1, ClaimedRow
                <5>3. \A m \in Nodes \ {n} : Claim(store, n, d)[m] = store[m]
                    BY <5>1, RowType
                <5> QED
                    BY <3>2, <5>2, <5>3
            <4>2. node'[d] = n /\ pc'[d] = "claimed"
                BY <1>1, <3>2
            <4>3. \A m \in TodoOf(d) \ {n} : store'[m] = store[m] /\ ~(store[m].status \in HELD /\ store[m].owner = d)
                BY <1>1, <4>1 DEF OwnInv
            <4> QED
                BY <3>1, <4>1, <4>2, <4>3
        <3>3. CASE UNCHANGED <<store, node, pc>>
            BY <3>1, <3>3 DEF OwnInv
        <3> QED
            BY <3>1, <3>2, <3>3
    <2>5. CASE Execute(d)
        <3>1. /\ pc[d] \in Working /\ pc'[d] \in Working /\ node' = node /\ todo' = todo /\ store' = store
              /\ TodoOf(d)' = TodoOf(d)
            BY <1>1, <2>5, ExecuteFacts DEF TodoOf
        <3> QED
            BY <3>1 DEF OwnInv
    <2>6. CASE Checkpoint(d) \/ TryAgain(d) \/ PauseTheRun(d) \/ FailTheRun(d)
        <3> DEFINE n == node[d]
        <3>1. /\ n \in Nodes /\ store[n].status = "claimed" /\ store[n].owner = d
              /\ \A m \in Nodes \ {n} : store'[m] = store[m]
              /\ \/ todo' = todo /\ pc'[d] = "node"
                 \/ /\ todo' = todo /\ pc'[d] = "claimed" /\ node' = node
                    /\ store'[n].status = "claimed" /\ store'[n].owner = d
                 \/ todo'[d] = <<>> /\ pc'[d] = "idle"
            BY <1>1, <2>6, WriteFacts DEF Return
        <3>2. n \notin TodoOf(d)
            BY <3>1 DEF OwnInv, HELD
        <3> HIDE DEF n
        <3>3. CASE todo' = todo
            <4>1. TodoOf(d)' = TodoOf(d) /\ \A m \in TodoOf(d) : store'[m] = store[m]
                BY <1>1, <3>1, <3>2, <3>3 DEF TodoOf
            <4> QED
                BY <3>1, <3>3, <4>1 DEF OwnInv, n
        <3>4. CASE todo'[d] = <<>> /\ pc'[d] = "idle"
            BY <3>4 DEF Distinct, TodoOf
        <3> QED
            BY <3>1, <3>3, <3>4
    <2> QED
        BY <1>4, <2>1, <2>2, <2>3, <2>4, <2>5, <2>6 DEF Drive
<1>5. ASSUME NEW d \in Drivers, Drive(d) \/ Crash(d)
      PROVE  OwnInv'
    BY <1>3, <1>4, <1>5 DEF OwnInv
<1>6. ASSUME NEW n \in Nodes, Answer(n)
      PROVE  OwnInv'
    <2>1. UNCHANGED <<pc, todo, node>> /\ \A d \in Drivers : TodoOf(d)' = TodoOf(d)
        BY <1>6 DEF Answer, Record, ReleaseRow, loop, TodoOf
    <2>2. \/ store' = store
          \/ /\ store' = [store EXCEPT ![n] = NoRow]
             /\ \A d \in Drivers : pc[d] \in Working => node[d] # n
        BY <1>6 DEF Answer, Record, ReleaseRow, Release, InHand, OwnInv
    <2>3. ASSUME store' = [store EXCEPT ![n] = NoRow]
          PROVE  store'[n].status = "none" /\ \A m \in Nodes \ {n} : store'[m] = store[m]
        BY <1>1, <2>3 DEF NoRow, TypeOK
    <2> QED
        BY <1>1, <2>1, <2>2, <2>3 DEF OwnInv, HELD
<1> QED
    BY <1>2, <1>5, <1>6 DEF Next

\* A settled row is never written again, by a driver or by the host.
LEMMA SettledStays ==
    ASSUME TypeInv, OwnInv, [Next]_vars, NEW n \in Nodes, store[n].status \in SETTLED
    PROVE  store'[n] = store[n]
<1>1. CASE UNCHANGED vars
    BY <1>1 DEF vars
<1>2. ASSUME NEW d \in Drivers, Drive(d) \/ Crash(d)
      PROVE  store'[n] = store[n]
    BY <1>2, RowMoves DEF SETTLED
<1>3. ASSUME NEW m \in Nodes, Answer(m)
      PROVE  store'[n] = store[n]
    <2>1. \/ store' = store
          \/ store' = [store EXCEPT ![m] = NoRow] /\ store[m].status \in {"paused", "claimed"}
        BY <1>3 DEF Answer, Record, ReleaseRow, Release
    <2>2. store \in [Nodes -> Row(Drivers, Ports \cup Decisions)]
        BY DEF TypeInv, TypeOK
    <2> QED
        BY <2>1, <2>2 DEF SETTLED
<1> QED
    BY <1>1, <1>2, <1>3 DEF Next

-----------------------------------------------------------------------------
(* What a call reports *)

LEMMA ResultsStep ==
    ASSUME TypeInv, OwnInv, ResultsAreTrue, [Next]_vars
    PROVE  ResultsAreTrue'
<1>1. \A n \in Nodes : store[n].status \in {"completed", "skipped", "failed"} => store'[n] = store[n]
    BY SettledStays DEF SETTLED
<1>2. Verdict # {} => (Verdict # {})'
    BY <1>1 DEF Verdict
<1>3. ASSUME NEW d \in Drivers
      PROVE  \/ result'[d] = result[d]
             \/ result'[d] \notin {"ok", "failed"}
             \/ result'[d] = "ok" /\ \A n \in Nodes : store[n].status \in {"completed", "skipped"}
             \/ result'[d] = "failed" /\ (Verdict # {})'
    <2>1. CASE UNCHANGED vars
        BY <2>1 DEF vars
    <2>2. CASE \E n \in Nodes : Answer(n)
        BY <2>2 DEF Answer, Record, ReleaseRow, loop
    <2>3. ASSUME NEW e \in Drivers \ {d}, Drive(e) \/ Crash(e)
          PROVE  result'[d] = result[d]
        BY <2>3, OthersKeep DEF TypeInv
    <2>4. CASE ReturnAtTheEnd(d)
        <3>1. result'[d] = Finish /\ store' = store
            BY <2>4 DEF ReturnAtTheEnd, Return, TypeInv, TypeOK
        <3>2. Verdict' = Verdict
            BY <3>1 DEF Verdict
        <3>3. CASE IsComplete(Graph, store) /\ Verdict = {}
            BY <3>1, <3>3 DEF Finish, IsComplete, Verdict, Settled, SETTLED, Nodes
        <3> QED
            BY <3>1, <3>2, <3>3 DEF Finish
    <2>5. CASE Crash(d)
        BY <2>5 DEF Crash, Return, TypeInv, TypeOK
    <2>6. CASE Checkpoint(d) \/ TryAgain(d) \/ PauseTheRun(d) \/ FailTheRun(d)
        <3>1. \/ result' = result
              \/ Return(d, "paused")
              \/ Return(d, "failed") /\ node[d] \in Nodes /\ store'[node[d]].status = "failed"
            BY <2>6, WriteFacts
        <3> QED
            BY <3>1 DEF Return, Verdict, TypeInv, TypeOK
    <2>7. CASE Call(d) \/ Advance(d) \/ OutOfPasses(d) \/ RunNext(d) \/ Execute(d)
        BY <2>7 DEF Call, Advance, OutOfPasses, RunNext, Execute, loop
    <2> QED
        BY <2>1, <2>2, <2>3, <2>4, <2>5, <2>6, <2>7 DEF Next, Drive
<1> QED
    BY <1>1, <1>2, <1>3 DEF ResultsAreTrue

\* A claimed row is in the hand of a driver, unless one died.
HoldersInv ==
    /\ crashes \in Nat
    /\ crashes = 0 => \A n \in Nodes : store[n].status = "claimed" => InHand(n)

LEMMA HoldersStep ==
    ASSUME TypeInv, OwnInv, HoldersInv, [Next]_vars
    PROVE  HoldersInv'
<1>0. /\ crashes \in Nat /\ crashes' \in Nat
      /\ crashes' = crashes \/ \E d \in Drivers : Crash(d)
      /\ crashes' # 0 \/ ~\E d \in Drivers : Crash(d)
    <2>1. CASE \E d \in Drivers : Crash(d)
        BY <2>1 DEF Crash, HoldersInv
    <2>2. CASE ~\E d \in Drivers : Crash(d)
        <3>1. crashes' = crashes
            BY <2>2 DEF Next, Answer, Record, ReleaseRow, vars, Drive, Call, Advance, OutOfPasses,
                        ReturnAtTheEnd, RunNext, Execute, Checkpoint, PauseTheRun, TryAgain,
                        FailTheRun, history
        <3> QED
            BY <2>2, <3>1 DEF HoldersInv
    <2> QED
        BY <2>1, <2>2
<1> SUFFICES ASSUME crashes' = 0, NEW n \in Nodes, store'[n].status = "claimed"
             PROVE  InHand(n)'
    BY <1>0 DEF HoldersInv
<1>1. CASE UNCHANGED vars
    <2>1. crashes = 0 /\ store[n].status = "claimed"
        BY <1>1 DEF vars
    <2> QED
        BY <1>1, <2>1 DEF vars, HoldersInv, InHand
<1>2. CASE \E m \in Nodes : Answer(m)
    <2>1. /\ pc' = pc /\ node' = node /\ crashes' = crashes
          /\ store' = store \/ \E m \in Nodes : store' = [store EXCEPT ![m] = NoRow]
        BY <1>2 DEF Answer, Record, ReleaseRow, Release, loop, history
    <2>2. store[n].status = "claimed"
        <3>1. CASE store' = store
            BY <3>1
        <3>2. ASSUME NEW m \in Nodes, store' = [store EXCEPT ![m] = NoRow]
              PROVE  store[n].status = "claimed"
            <4>1. store \in StoreType
                BY DEF TypeInv, TypeOK, StoreType
            <4>2. store'[m] = NoRow /\ (n # m => store'[n] = store[n])
                BY <3>2, <4>1 DEF StoreType
            <4> QED
                BY <4>2 DEF NoRow
        <3> QED
            BY <2>1, <3>1, <3>2
    <2> QED
        BY <1>0, <2>1, <2>2 DEF HoldersInv, InHand
<1>3. ASSUME NEW d \in Drivers, Drive(d)
      PROVE  InHand(n)'
    <2>0. /\ pc \in [Drivers -> Working \cup {"idle", "node", "finish"}]
          /\ node \in [Drivers -> Nodes \cup {NoNode}]
          /\ \A e \in Drivers \ {d} : pc'[e] = pc[e] /\ node'[e] = node[e]
        BY <1>3, OthersKeep DEF TypeInv, TypeOK
    <2>1. crashes = 0
        BY <1>0
    <2>2. ASSUME store[n].status = "claimed", NEW e \in Drivers \ {d}, pc[e] \in Working, node[e] = n
          PROVE  InHand(n)'
        BY <2>0, <2>2 DEF InHand
    <2>3. CASE Advance(d) \/ Call(d) \/ OutOfPasses(d) \/ ReturnAtTheEnd(d)
        <3>1. pc[d] \notin Working
            BY <2>3 DEF Advance, Call, OutOfPasses, ReturnAtTheEnd, Working
        <3>2. store[n].status = "claimed"
            <4>1. CASE Advance(d)
                <5>1. store \in StoreType
                    BY DEF TypeInv, TypeOK, StoreType
                <5>2. store' = AfterSkips(Skips(Graph, store))
                    BY <4>1, AdvanceFacts
                <5>3. store'[n] = store[n] \/ store'[n].status = "skipped"
                    BY <5>1, <5>2, CascadeRows
                <5> QED
                    BY <5>3
            <4> QED
                BY <2>3, <4>1 DEF Call, OutOfPasses, ReturnAtTheEnd
        <3> QED
            BY <2>1, <2>2, <3>1, <3>2 DEF HoldersInv, InHand
    <2>4. CASE RunNext(d)
        <3> DEFINE m == Head(todo[d])
        <3>1. /\ pc[d] = "node" /\ m \in Nodes
              /\ \/ /\ store' = Claim(store, m, d)
                    /\ node' = [node EXCEPT ![d] = m] /\ pc' = [pc EXCEPT ![d] = "claimed"]
                 \/ UNCHANGED <<store, node, pc>>
            BY <2>4, RunNextFacts
        <3> HIDE DEF m
        <3>2. pc[d] \notin Working
            BY <3>1 DEF Working
        <3>3. CASE /\ store' = Claim(store, m, d)
                   /\ node' = [node EXCEPT ![d] = m] /\ pc' = [pc EXCEPT ![d] = "claimed"]
            <4>1. CASE n = m
                BY <2>0, <3>3, <4>1 DEF InHand, Working
            <4>2. CASE n # m
                <5>1. store \in StoreType /\ n \in Nodes \ {m}
                    BY <4>2 DEF TypeInv, TypeOK, StoreType
                <5>2. Claim(store, m, d)[n] = store[n]
                    BY <3>1, <5>1, ClaimedRow
                <5>3. store[n].status = "claimed"
                    BY <3>3, <5>2
                <5> QED
                    BY <2>1, <2>2, <3>2, <5>3 DEF HoldersInv, InHand
            <4> QED
                BY <4>1, <4>2
        <3>4. CASE UNCHANGED <<store, node, pc>>
            BY <2>1, <3>4 DEF HoldersInv, InHand
        <3> QED
            BY <3>1, <3>3, <3>4
    <2>5. CASE Execute(d)
        <3>1. store' = store /\ node' = node /\ pc'[d] \in Working
            BY <2>0, <2>5, ExecuteFacts DEF Working
        <3>2. PICK e \in Drivers : pc[e] \in Working /\ node[e] = n
            BY <2>1, <3>1 DEF HoldersInv, InHand
        <3>3. pc'[e] \in Working /\ node'[e] = n
            BY <2>0, <3>1, <3>2
        <3> QED
            BY <3>3 DEF InHand
    <2>6. CASE Checkpoint(d) \/ TryAgain(d) \/ PauseTheRun(d) \/ FailTheRun(d)
        <3>1. /\ \A m \in Nodes \ {node[d]} : store'[m] = store[m]
              /\ \/ store'[node[d]].status # "claimed"
                 \/ pc' = [pc EXCEPT ![d] = "claimed"] /\ node' = node
            BY <2>6, WriteFacts
        <3>2. CASE n = node[d]
            <4>1. pc'[d] = "claimed" /\ node'[d] = n
                BY <2>0, <3>1, <3>2
            <4> QED
                BY <4>1 DEF InHand, Working
        <3>3. CASE n # node[d]
            <4>1. store[n].status = "claimed"
                BY <3>1, <3>3
            <4>2. PICK e \in Drivers : pc[e] \in Working /\ node[e] = n
                BY <2>1, <4>1 DEF HoldersInv, InHand
            <4> QED
                BY <2>2, <3>3, <4>1, <4>2
        <3> QED
            BY <3>2, <3>3
    <2> QED
        BY <1>3, <2>3, <2>4, <2>5, <2>6 DEF Drive
<1>4. ASSUME NEW d \in Drivers
      PROVE  ~Crash(d)
    BY <1>0
<1> QED
    BY <1>1, <1>2, <1>3, <1>4 DEF Next

-----------------------------------------------------------------------------
(* What people decide *)

\* The run waits for an answer it has not got.
GatesInv ==
    /\ awaiting \in Gates => ~Answered(awaiting)
    /\ \A g \in Gates : store[g].status = "completed" => Answered(g) /\ store[g].ports = {Decision(g)}

LEMMA GatesStep ==
    ASSUME TypeInv, OwnInv, GatesInv, [Next]_vars
    PROVE  GatesInv'
<1>1. /\ Gates \subseteq Nodes /\ NoNode \notin Gates
      /\ store \in StoreType /\ awaiting \in Gates \cup {NoNode}
    BY LoopAssumption DEF TypeInv, TypeOK, StoreType
<1>2. ASSUME answers' = answers
      PROVE  \A n \in Nodes : (Answered(n)' <=> Answered(n)) /\ Decision(n)' = Decision(n)
    BY <1>2 DEF Answered, Decision
<1>3. CASE UNCHANGED vars
    BY <1>1, <1>2, <1>3 DEF vars, GatesInv
<1>4. ASSUME NEW d \in Drivers, Drive(d) \/ Crash(d)
      PROVE  GatesInv'
    <2>1. answers' = answers /\ (awaiting' = awaiting \/ (awaiting' = node[d] /\ ~Answered(node[d]) /\ node[d] \in Nodes))
        <3>1. CASE Execute(d)
            BY <3>1, ExecuteFacts
        <3> QED
            BY <1>4, <3>1 DEF Drive, Call, Advance, OutOfPasses, ReturnAtTheEnd, RunNext, Checkpoint,
                              TryAgain, PauseTheRun, FailTheRun, Crash, gates
    <2>2. (awaiting \in Gates => ~Answered(awaiting))'
        BY <1>1, <2>1 DEF GatesInv, Answered
    <2>3. ASSUME NEW g \in Gates, store'[g].status = "completed"
          PROVE  Answered(g) /\ store'[g].ports = {Decision(g)}
        <3>1. CASE store'[g] = store[g]
            BY <2>3, <3>1 DEF GatesInv
        <3>2. CASE Checkpoint(d) \/ TryAgain(d) \/ PauseTheRun(d) \/ FailTheRun(d)
            <4> DEFINE n == node[d]
            <4>1. /\ \A m \in Nodes \ {n} : store'[m] = store[m]
                  /\ store'[n].status = "completed" =>
                        (n \in Gates => Answered(n)) /\ store'[n].ports = PortsLit(n)
                BY <3>2, WriteFacts
            <4> HIDE DEF n
            <4>2. CASE g = n
                BY <2>3, <4>1, <4>2 DEF PortsLit
            <4> QED
                BY <1>1, <3>1, <4>1, <4>2
        <3>3. CASE Advance(d)
            <4>1. store' = AfterSkips(Skips(Graph, store))
                BY <3>3, AdvanceFacts
            <4> QED
                BY <1>1, <2>3, <3>1, <4>1, CascadeRows
        <3>4. CASE RunNext(d)
            <4> DEFINE n == Head(todo[d])
            <4>1. n \in Nodes /\ (store' = store \/ store' = Claim(store, n, d))
                BY <3>4, RunNextFacts
            <4> HIDE DEF n
            <4> QED
                BY <1>1, <2>3, <3>1, <4>1, ClaimedRow, RowType
        <3>5. CASE Call(d) \/ OutOfPasses(d) \/ ReturnAtTheEnd(d) \/ Execute(d) \/ Crash(d)
            BY <3>1, <3>5 DEF Call, OutOfPasses, ReturnAtTheEnd, Execute, Crash
        <3> QED
            BY <1>4, <3>2, <3>3, <3>4, <3>5 DEF Drive
    <2> QED
        BY <1>1, <1>2, <2>1, <2>2, <2>3 DEF GatesInv
<1>5. ASSUME NEW n \in Nodes, NEW decision \in Decisions, Record(n, decision)
      PROVE  GatesInv'
    <2>1. /\ store' = store /\ awaiting' = NoNode /\ awaiting = n
          /\ answers' = [m \in DOMAIN answers \cup {n} |-> IF m = n THEN decision ELSE answers[m]]
        BY <1>5 DEF Record, MayRecord
    <2>2. n \in Gates /\ ~Answered(n)
        BY <1>1, <2>1, LoopAssumption DEF GatesInv
    <2>3. ASSUME NEW g \in Gates, store[g].status = "completed"
          PROVE  Answered(g)' /\ store[g].ports = {Decision(g)'}
        <3>1. Answered(g) /\ store[g].ports = {Decision(g)} /\ g # n
            BY <2>2, <2>3 DEF GatesInv
        <3> QED
            BY <2>1, <3>1 DEF Answered, Decision
    <2> QED
        BY <1>1, <2>1, <2>3 DEF GatesInv
<1>6. ASSUME NEW n \in Nodes, ReleaseRow(n)
      PROVE  GatesInv'
    <2>1. store' = [store EXCEPT ![n] = NoRow] /\ UNCHANGED <<answers, awaiting>>
        BY <1>6 DEF ReleaseRow, Release, gates
    <2>2. \A g \in Gates : store'[g] = store[g] \/ store'[g].status = "none"
        BY <1>1, <2>1 DEF StoreType, NoRow
    <2> QED
        BY <1>1, <1>2, <2>1, <2>2 DEF GatesInv
<1> QED
    BY <1>3, <1>4, <1>5, <1>6 DEF Next, Answer

-----------------------------------------------------------------------------
(* How often a node does its work *)

\* What the releases so far have paid for.
Paid(n) == TriesFor[n] * releases[n]

DriverWork(d) ==
    LET n == node[d]
    IN  /\ pc[d] \in Working => store[n].attempts <= TriesFor[n]
        /\ pc[d] = "claimed" => runs[n] < Paid(n) + store[n].attempts
        /\ pc[d] = "raised" => runs[n] <= Paid(n) + store[n].attempts

NodeWork(n) ==
    /\ runs[n] <= Paid(n) + TriesFor[n]
    /\ store[n].status = "none" => store[n].attempts = 0 /\ runs[n] <= Paid(n)

\* Each attempt of a claim pays for one run, and a claim has a bounded number.
WorkInv == (\A n \in Nodes : NodeWork(n)) /\ \A d \in Drivers : DriverWork(d)

LEMMA PaidType ==
    ASSUME TypeInv, NEW n \in Nodes
    PROVE  /\ Paid(n) \in Nat /\ TriesFor[n] \in Nat /\ TriesFor[n] >= 1
           /\ runs[n] \in Nat /\ store[n].attempts \in Nat
           /\ TriesFor[n] * (1 + releases[n]) = Paid(n) + TriesFor[n]
<1>1. releases[n] \in Nat /\ TriesFor[n] \in Nat /\ TriesFor[n] >= 1 /\ runs[n] \in Nat
    BY LoopAssumption DEF TypeInv
<1>2. \A t, r \in Nat : t * r \in Nat /\ t * (1 + r) = t * r + t
    OBVIOUS
<1>3. store[n].attempts \in Nat
    BY DEF TypeInv, TypeOK, Row
<1> QED
    BY <1>1, <1>2, <1>3 DEF Paid

\* What a driver holds, another does not touch.
LEMMA WorkOfOthers ==
    ASSUME TypeInv, OwnInv, WorkInv, NEW d \in Drivers, Drive(d) \/ Crash(d)
    PROVE  /\ \A n \in Nodes : Paid(n)' = Paid(n)
           /\ \A e \in Drivers \ {d} : DriverWork(e)'
           /\ ~Execute(d) => runs' = runs
<1>1. releases' = releases /\ (~Execute(d) => runs' = runs)
    BY ExecuteFacts DEF Drive, Call, Advance, OutOfPasses, ReturnAtTheEnd, RunNext, Checkpoint,
                        TryAgain, PauseTheRun, FailTheRun, Crash, history
<1>2. ASSUME NEW n \in Nodes
      PROVE  Paid(n)' = Paid(n)
    BY <1>1 DEF Paid
<1>3. ASSUME NEW e \in Drivers \ {d}
      PROVE  DriverWork(e)'
    <2>1. pc'[e] = pc[e] /\ node'[e] = node[e]
        BY OthersKeep DEF TypeInv
    <2>2. CASE pc[e] \notin Working
        BY <2>1, <2>2 DEF DriverWork, Working
    <2>3. CASE pc[e] \in Working
        <3> SUFFICES ASSUME NEW n, n = node[e]
                     PROVE  DriverWork(e)'
            OBVIOUS
        <3>1. n \in Nodes /\ store[n].status = "claimed" /\ store[n].owner = e
            BY <2>3 DEF OwnInv, TypeInv
        <3>2. store'[n] = store[n]
            BY <3>1, RowMoves
        <3>3. runs'[n] = runs[n]
            <4>1. CASE Execute(d)
                <5>1. pc[d] = "claimed" /\ (runs' = runs \/ runs' = [runs EXCEPT ![node[d]] = runs[node[d]] + 1])
                    BY <4>1, ExecuteFacts
                <5>2. node[d] # n
                    BY <3>1, <5>1 DEF OwnInv, Working
                <5> QED
                    BY <3>1, <5>1, <5>2 DEF TypeInv
            <4> QED
                BY <1>1, <4>1
        <3> QED
            BY <1>2, <2>1, <3>1, <3>2, <3>3 DEF DriverWork, WorkInv
    <2> QED
        BY <2>2, <2>3
<1> QED
    BY <1>1, <1>2, <1>3

LEMMA WorkStep ==
    ASSUME TypeInv, OwnInv, WorkInv, [Next]_vars
    PROVE  WorkInv'
<1> USE DEF Working
<1>1. /\ store \in StoreType /\ runs \in [Nodes -> Nat] /\ releases \in [Nodes -> Nat]
      /\ pc \in [Drivers -> Working \cup {"idle", "node", "finish"}]
      /\ node \in [Drivers -> Nodes \cup {NoNode}]
      /\ \A d \in Drivers : pc[d] \in Working => node[d] \in Nodes
    BY DEF TypeInv, TypeOK, StoreType
<1>2. \A n \in Nodes : /\ Paid(n) \in Nat /\ TriesFor[n] \in Nat /\ TriesFor[n] >= 1
                         /\ runs[n] \in Nat /\ store[n].attempts \in Nat
    BY PaidType
<1>3. CASE UNCHANGED vars
    BY <1>3 DEF vars, WorkInv, NodeWork, DriverWork, Paid
<1>4. ASSUME NEW d \in Drivers, Drive(d) \/ Crash(d),
             DriverWork(d)', \A n \in Nodes : NodeWork(n)'
      PROVE  WorkInv'
    BY <1>4, WorkOfOthers DEF WorkInv
<1>5. ASSUME NEW d \in Drivers, Execute(d)
      PROVE  WorkInv'
    <2> SUFFICES ASSUME NEW n, n = node[d]
                 PROVE  WorkInv'
        OBVIOUS
    <2>1. /\ n \in Nodes /\ store' = store /\ node' = node /\ pc[d] = "claimed"
          /\ \/ runs' = runs /\ pc'[d] \in {"dead", "parked"}
             \/ runs' = [runs EXCEPT ![n] = runs[n] + 1] /\ pc'[d] \in {"ran", "raised"}
        BY <1>5, ExecuteFacts
    <2>2. /\ runs[n] < Paid(n) + store[n].attempts /\ store[n].attempts <= TriesFor[n]
          /\ store[n].status = "claimed"
        BY <2>1 DEF WorkInv, OwnInv, DriverWork
    <2>3. runs'[n] <= Paid(n) + store[n].attempts /\ \A m \in Nodes \ {n} : runs'[m] = runs[m]
        BY <1>1, <1>2, <2>1, <2>2
    <2>4. runs'[n] \in Nat /\ runs'[n] <= Paid(n) + TriesFor[n]
        BY <1>1, <1>2, <2>1, <2>2, <2>3
    <2>5. Drive(d) /\ \A m \in Nodes : Paid(m)' = Paid(m)
        BY <1>5, WorkOfOthers DEF Drive
    <2>6. ASSUME NEW m \in Nodes
          PROVE  NodeWork(m)'
        BY <2>1, <2>2, <2>3, <2>4, <2>5 DEF WorkInv, NodeWork
    <2>7. DriverWork(d)'
        BY <2>1, <2>2, <2>3, <2>5 DEF DriverWork
    <2> QED
        BY <1>4, <2>5, <2>6, <2>7
<1>6. ASSUME NEW d \in Drivers, RunNext(d)
      PROVE  WorkInv'
    <2> SUFFICES ASSUME NEW n, n = Head(todo[d])
                 PROVE  WorkInv'
        OBVIOUS
    <2>1. /\ n \in Nodes /\ pc[d] = "node"
          /\ \/ /\ store[n].status = "none"
                /\ store' = Claim(store, n, d)
                /\ node' = [node EXCEPT ![d] = n] /\ pc' = [pc EXCEPT ![d] = "claimed"]
             \/ UNCHANGED <<store, node, pc>>
        BY <1>6, RunNextFacts
    <2>2. Drive(d) /\ ~Execute(d)
        BY <1>6, <2>1 DEF Drive, Execute
    <2>3. runs' = runs /\ \A m \in Nodes : Paid(m)' = Paid(m)
        BY <2>2, WorkOfOthers
    <2>4. CASE UNCHANGED <<store, node, pc>>
        BY <1>4, <2>1, <2>2, <2>3, <2>4 DEF WorkInv, NodeWork, DriverWork
    <2>5. CASE /\ store[n].status = "none" /\ store' = Claim(store, n, d)
               /\ node' = [node EXCEPT ![d] = n] /\ pc' = [pc EXCEPT ![d] = "claimed"]
        <3>1. /\ store'[n].status = "claimed" /\ store'[n].attempts = store[n].attempts + 1
              /\ \A m \in Nodes \ {n} : store'[m] = store[m]
            <4>1. \A m \in Nodes \ {n} : Claim(store, n, d)[m] = store[m]
                BY <1>1, <2>1, RowType
            <4>2. Claim(store, n, d)[n].status = "claimed" /\ Claim(store, n, d)[n].attempts = store[n].attempts + 1
                BY <1>1, <2>1, ClaimedRow
            <4> QED
                BY <2>5, <4>1, <4>2
        <3>2. store[n].attempts = 0 /\ runs[n] <= Paid(n)
            BY <2>1, <2>5 DEF WorkInv, NodeWork
        <3>3. ASSUME NEW m \in Nodes
              PROVE  NodeWork(m)'
            BY <2>3, <3>1 DEF WorkInv, NodeWork
        <3>4. node'[d] = n /\ pc'[d] = "claimed"
            BY <1>1, <2>5
        <3>5. store'[n].attempts = 1 /\ runs'[n] = runs[n] /\ Paid(n)' = Paid(n)
            BY <2>1, <2>3, <3>1, <3>2
        <3>6. 1 <= TriesFor[n] /\ runs[n] < Paid(n) + 1
            BY <1>2, <2>1, <3>2
        <3>7. DriverWork(d)'
            BY <3>4, <3>5, <3>6 DEF DriverWork
        <3> QED
            BY <1>4, <2>2, <3>3, <3>7
    <2> QED
        BY <2>1, <2>4, <2>5
<1>7. ASSUME NEW d \in Drivers, Checkpoint(d) \/ TryAgain(d) \/ PauseTheRun(d) \/ FailTheRun(d)
      PROVE  WorkInv'
    <2> SUFFICES ASSUME NEW n, n = node[d]
                 PROVE  WorkInv'
        OBVIOUS
    <2>1. /\ n \in Nodes /\ store[n].status = "claimed"
          /\ \A m \in Nodes \ {n} : store'[m] = store[m]
          /\ store'[n].status # "none"
          /\ \/ pc'[d] \in {"idle", "node"}
             \/ /\ pc[d] = "raised" /\ pc'[d] = "claimed" /\ node' = node
                /\ store[n].attempts < TriesFor[n] /\ store'[n].attempts = store[n].attempts + 1
        BY <1>1, <1>7, WriteFacts DEF Return
    <2>2. Drive(d) /\ ~Execute(d)
        BY <1>7 DEF Drive, Execute, Checkpoint, TryAgain, PauseTheRun, FailTheRun
    <2>3. runs' = runs /\ \A m \in Nodes : Paid(m)' = Paid(m)
        BY <2>2, WorkOfOthers
    <2>4. ASSUME NEW m \in Nodes
          PROVE  NodeWork(m)'
        BY <2>1, <2>3 DEF WorkInv, NodeWork
    <2>5. CASE pc'[d] \in {"idle", "node"}
        BY <1>4, <2>2, <2>4, <2>5 DEF DriverWork
    <2>6. CASE /\ pc[d] = "raised" /\ pc'[d] = "claimed" /\ node' = node
               /\ store[n].attempts < TriesFor[n] /\ store'[n].attempts = store[n].attempts + 1
        <3>1. runs[n] <= Paid(n) + store[n].attempts
            BY <2>6 DEF WorkInv, DriverWork
        <3>2. runs[n] < Paid(n) + store'[n].attempts /\ store'[n].attempts <= TriesFor[n]
            BY <1>2, <2>1, <2>6, <3>1
        <3>3. DriverWork(d)'
            BY <2>1, <2>3, <2>6, <3>2 DEF DriverWork
        <3> QED
            BY <1>4, <2>2, <2>4, <3>3
    <2> QED
        BY <2>1, <2>5, <2>6
<1>8. ASSUME NEW d \in Drivers, Advance(d)
      PROVE  WorkInv'
    <2>1. /\ \A n \in Nodes : store'[n] = store[n] \/ store'[n].status = "skipped"
          /\ pc'[d] \in {"finish", "node"}
        <3>1. store' = AfterSkips(Skips(Graph, store))
            BY <1>8, AdvanceFacts
        <3>2. \A n \in Nodes : store'[n] = store[n] \/ store'[n].status = "skipped"
            BY <1>1, <3>1, CascadeRows
        <3> QED
            BY <1>1, <1>8, <3>2, AdvanceFacts
    <2>2. Drive(d) /\ ~Execute(d)
        BY <1>8 DEF Drive, Execute, Advance
    <2>3. runs' = runs /\ \A m \in Nodes : Paid(m)' = Paid(m)
        BY <2>2, WorkOfOthers
    <2>4. ASSUME NEW m \in Nodes
          PROVE  NodeWork(m)'
        BY <2>1, <2>3 DEF WorkInv, NodeWork
    <2> QED
        BY <1>4, <2>1, <2>2, <2>4 DEF DriverWork
<1>9. ASSUME NEW d \in Drivers, Call(d) \/ OutOfPasses(d) \/ ReturnAtTheEnd(d) \/ Crash(d)
      PROVE  WorkInv'
    <2>1. store' = store /\ pc'[d] \in {"node", "finish", "idle"}
        BY <1>1, <1>9 DEF Call, OutOfPasses, ReturnAtTheEnd, Crash, Return
    <2>2. Drive(d) \/ Crash(d)
        BY <1>9 DEF Drive
    <2>3. runs' = runs /\ \A m \in Nodes : Paid(m)' = Paid(m)
        BY <1>9, <2>1 DEF Call, OutOfPasses, ReturnAtTheEnd, Crash, history, Paid
    <2>4. ASSUME NEW m \in Nodes
          PROVE  NodeWork(m)'
        BY <2>1, <2>3 DEF WorkInv, NodeWork
    <2> QED
        BY <1>4, <1>9, <2>1, <2>2, <2>4 DEF DriverWork
<1>10. ASSUME NEW n \in Nodes, NEW decision \in Decisions, Record(n, decision)
       PROVE  WorkInv'
    BY <1>10 DEF Record, loop, history, WorkInv, NodeWork, DriverWork, Paid
<1>11. ASSUME NEW n \in Nodes, ReleaseRow(n)
       PROVE  WorkInv'
    <2>1. /\ store' = [store EXCEPT ![n] = NoRow]
          /\ releases' = [releases EXCEPT ![n] = releases[n] + 1]
          /\ UNCHANGED <<pc, node, runs>>
          /\ \A d \in Drivers : pc[d] \in Working => node[d] # n
        BY <1>11 DEF ReleaseRow, Release, loop, InHand, OwnInv
    <2>2. /\ store'[n].status = "none" /\ store'[n].attempts = 0
          /\ \A m \in Nodes \ {n} : store'[m] = store[m] /\ Paid(m)' = Paid(m)
        BY <1>1, <2>1 DEF NoRow, Paid, StoreType
    <2>3. Paid(n)' = Paid(n) + TriesFor[n]
        <3>1. releases'[n] = 1 + releases[n]
            BY <1>1, <2>1
        <3>2. TriesFor[n] * (1 + releases[n]) = Paid(n) + TriesFor[n]
            BY PaidType
        <3> QED
            BY <3>1, <3>2 DEF Paid
    <2>4. runs[n] <= Paid(n) + TriesFor[n]
        BY DEF WorkInv, NodeWork
    <2>5. runs[n] <= (Paid(n) + TriesFor[n]) + TriesFor[n]
        BY <1>2, <2>4
    <2>6. NodeWork(n)'
        BY <2>1, <2>2, <2>3, <2>4, <2>5 DEF NodeWork
    <2>7. ASSUME NEW m \in Nodes \ {n}
          PROVE  NodeWork(m)'
        BY <2>1, <2>2 DEF WorkInv, NodeWork
    <2>8. ASSUME NEW d \in Drivers
          PROVE  DriverWork(d)'
        <3>1. CASE pc[d] \in Working
            <4> SUFFICES ASSUME NEW m, m = node[d]
                         PROVE  DriverWork(d)'
                OBVIOUS
            <4>1. m \in Nodes \ {n}
                BY <1>1, <2>1, <3>1
            <4> QED
                BY <2>1, <2>2, <3>1, <4>1 DEF WorkInv, DriverWork
        <3> QED
            BY <2>1, <3>1 DEF DriverWork
    <2> QED
        BY <2>6, <2>7, <2>8 DEF WorkInv
<1> QED
    BY <1>3, <1>5, <1>6, <1>7, <1>8, <1>9, <1>10, <1>11 DEF Next, Drive, Answer

-----------------------------------------------------------------------------
(* Passes, and calls that end with nodes undecided *)

NoReleases == \A n \in Nodes : releases[n] = 0
Open == {n \in Nodes : store[n].status = "none"}

\* A call has a pass for every row it has not been handed, and it ends with nodes
\* undecided only if it beheld rows of others when it read the frontier.
PassInv ==
    NoReleases =>
        \A d \in Drivers :
            /\ pc[d] \in Working \cup {"node"} => passes[d] > Cardinality(Open \ TodoOf(d))
            /\ pc[d] = "finish" =>
                  IsComplete(Graph, store) \/ (beheld[d] # {} /\ beheld[d] \subseteq Nodes \ Open)
            /\ pc[d] = "idle" /\ result[d] = "stuck" =>
                  beheld[d] # {} /\ beheld[d] \subseteq Settled(store)

LEMMA Fewer ==
    ASSUME NEW B, B \subseteq Nodes, NEW A, A \subseteq B
    PROVE  /\ Cardinality(A) \in Nat /\ Cardinality(B) \in Nat
           /\ Cardinality(A) <= Cardinality(B)
           /\ A # B => Cardinality(A) < Cardinality(B)
<1>1. IsFiniteSet(B) /\ IsFiniteSet(A)
    BY LoopAssumption, GraphFinite, FS_Subset DEF Nodes
<1>2. Cardinality(A) \in Nat /\ Cardinality(B) \in Nat
    BY <1>1, FS_CardinalityType
<1>3. Cardinality(A) <= Cardinality(B) /\ (Cardinality(A) = Cardinality(B) => A = B)
    BY <1>1, FS_Subset
<1> QED
    BY <1>2, <1>3

\* An advance that hands out nothing found rows held, or everything decided.
LEMMA NothingHandedOut ==
    ASSUME TypeInv, NEW d \in Drivers, Advance(d), pc'[d] = "finish"
    PROVE  beheld'[d] # {} \/ IsComplete(Graph, store')
<1> DEFINE skips == Skips(Graph, store)
           ready == ReadyIndex(Graph, store)
           after == AfterSkips(skips)
           batch == SelectDispatch(ready, Cardinality(Held(after)), MaxConcurrent)
<1>1. /\ WellFormed(Graph) /\ Acyclic(Graph) /\ MaxConcurrent \in Nat
      /\ store \in StoreType /\ DOMAIN store = Nodes /\ \A n \in Nodes : store[n].status \in Statuses
    BY LoopAssumption DEF TypeInv, TypeOK, StoreType, Row
<1>2. /\ store' = after /\ batch = {} /\ beheld'[d] = Held(after)
    BY AdvanceFacts
<1>3. /\ skips \subseteq Nodes /\ after \in StoreType
      /\ \A n \in Nodes \ skips : after[n] = store[n]
      /\ \A n \in skips : store[n].status = "none" /\ after[n].status = "skipped"
    BY <1>1, CascadeRows
<1> HIDE DEF after, skips
<1>4. DOMAIN after = Nodes
    BY <1>3 DEF StoreType
<1>5. Settled(after) = Settled(store) \cup skips /\ Held(after) = Held(store)
    BY <1>1, <1>3, <1>4, SkipsAllWritten DEF Nodes, skips
<1> SUFFICES ASSUME Held(after) = {} PROVE IsComplete(Graph, after)
    BY <1>2
<1>6. Cardinality(Held(after)) = 0
    BY FS_EmptySet
<1>7. Ready(Graph, store) = {}
    <2> SUFFICES ASSUME Ready(Graph, store) # {} PROVE FALSE
        OBVIOUS
    <2>1. PICK n \in Ready(Graph, store) : ready[n] = 0
        BY <1>1, FrontierHasAHead
    <2>2. n \in DOMAIN ready
        BY <2>1 DEF ReadyIndex
    <2>3. Room(MaxConcurrent, 0) = MaxConcurrent
        BY <1>1 DEF Room
    <2>4. n \in SelectDispatch(ready, 0, MaxConcurrent)
        BY <1>1, <2>1, <2>2, <2>3 DEF SelectDispatch, UNLIMITED
    <2> QED
        BY <1>2, <1>6, <2>4
<1>8. Nodes \subseteq Settled(store) \cup skips
    BY <1>1, <1>5, <1>7, EmptyFrontier DEF Nodes, skips
<1> QED
    BY <1>5, <1>8 DEF IsComplete, Nodes

LEMMA OpenShrinks ==
    ASSUME TypeInv, OwnInv, NEW d \in Drivers, Drive(d) \/ Crash(d)
    PROVE  /\ Open' \subseteq Open /\ Open \subseteq Nodes
           /\ Settled(store) \subseteq Settled(store')
           /\ IsComplete(Graph, store) => IsComplete(Graph, store')
<1>1. ASSUME NEW n \in Nodes
      PROVE  /\ store[n].status # "none" => store'[n].status # "none"
             /\ store[n].status \in SETTLED => store'[n].status \in SETTLED
    BY RowMoves DEF SETTLED, HELD
<1>2. DOMAIN store = Nodes /\ DOMAIN store' = Nodes
    <2>1. [Next]_vars
        BY DEF Next
    <2> QED
        BY <2>1, TypeStep DEF TypeInv, TypeOK
<1> QED
    BY <1>1, <1>2 DEF Open, Settled, IsComplete

LEMMA PassStep ==
    ASSUME TypeInv, OwnInv, PassInv, MaxPasses > Cardinality(Nodes), [Next]_vars
    PROVE  PassInv'
<1> USE DEF Working
<1>1. /\ pc \in [Drivers -> Working \cup {"idle", "node", "finish"}]
      /\ todo \in [Drivers -> Seq(Nodes)] /\ result \in [Drivers -> Results]
      /\ beheld \in [Drivers -> SUBSET Nodes]
      /\ passes \in [Drivers -> Nat] /\ MaxPasses \in Nat
      /\ releases \in [Nodes -> Nat] /\ DOMAIN store = Nodes
    <2>1. passes \in [Drivers -> 0..MaxPasses] /\ MaxPasses \in Nat
        BY LoopAssumption DEF TypeInv, TypeOK
    <2> QED
        BY <2>1 DEF TypeInv, TypeOK
<1>2. CASE UNCHANGED vars
    BY <1>2 DEF vars, PassInv, NoReleases, Open, TodoOf
<1>3. ASSUME NEW n \in Nodes, ReleaseRow(n)
      PROVE  PassInv'
    <2>1. releases'[n] = releases[n] + 1
        BY <1>1, <1>3 DEF ReleaseRow
    <2>2. ~NoReleases'
        BY <1>1, <2>1 DEF NoReleases
    <2> QED
        BY <2>2 DEF PassInv
<1>4. ASSUME NEW n \in Nodes, NEW decision \in Decisions, Record(n, decision)
      PROVE  PassInv'
    BY <1>4 DEF Record, loop, history, PassInv, NoReleases, Open, TodoOf
<1>5. ASSUME NEW d \in Drivers, Drive(d) \/ Crash(d), NoReleases'
      PROVE  NoReleases
    BY <1>5, ExecuteFacts DEF Drive, Call, Advance, OutOfPasses, ReturnAtTheEnd, RunNext, Checkpoint,
                          TryAgain, PauseTheRun, FailTheRun, Crash, history, NoReleases
<1>6. ASSUME NEW d \in Drivers, Drive(d) \/ Crash(d), NoReleases', NEW e \in Drivers \ {d}
      PROVE  /\ pc'[e] \in Working \cup {"node"} => (passes[e] > Cardinality(Open \ TodoOf(e)))'
             /\ pc'[e] = "finish" =>
                  IsComplete(Graph, store') \/ (beheld'[e] # {} /\ beheld'[e] \subseteq Nodes \ Open')
             /\ pc'[e] = "idle" /\ result'[e] = "stuck" =>
                  beheld'[e] # {} /\ beheld'[e] \subseteq Settled(store')
    <2>1. /\ pc'[e] = pc[e] /\ todo'[e] = todo[e] /\ passes'[e] = passes[e] /\ result'[e] = result[e]
          /\ TodoOf(e)' = TodoOf(e)
        BY <1>6, OthersKeep DEF TypeInv, TodoOf
    <2>2. beheld'[e] = beheld[e]
        <3>1. CASE Advance(d)
            BY <3>1, AdvanceFacts
        <3>2. CASE ~Advance(d)
            BY <1>6, <3>2, ExecuteFacts DEF Drive, Call, OutOfPasses, ReturnAtTheEnd, RunNext, Checkpoint,
                          TryAgain, PauseTheRun, FailTheRun, Crash, loop
        <3> QED
            BY <3>1, <3>2
    <2>3. /\ pc[e] \in Working \cup {"node"} => passes[e] > Cardinality(Open \ TodoOf(e))
          /\ pc[e] = "finish" =>
                  IsComplete(Graph, store) \/ (beheld[e] # {} /\ beheld[e] \subseteq Nodes \ Open)
          /\ pc[e] = "idle" /\ result[e] = "stuck" =>
                  beheld[e] # {} /\ beheld[e] \subseteq Settled(store)
        BY <1>5, <1>6 DEF PassInv
    <2>4. /\ Open' \subseteq Open /\ Open \subseteq Nodes /\ Settled(store) \subseteq Settled(store')
          /\ IsComplete(Graph, store) => IsComplete(Graph, store')
        BY <1>6, OpenShrinks
    <2>5. /\ Cardinality(Open \ TodoOf(e)) \in Nat /\ Cardinality(Open' \ TodoOf(e)) \in Nat
          /\ Cardinality(Open' \ TodoOf(e)) <= Cardinality(Open \ TodoOf(e))
        <3>1. Open \ TodoOf(e) \subseteq Nodes /\ Open' \ TodoOf(e) \subseteq Open \ TodoOf(e)
            BY <2>4
        <3> QED
            BY <3>1, Fewer
    <2>6. passes[e] \in Nat
        BY <1>1
    <2>7. pc'[e] \in Working \cup {"node"} => passes'[e] > Cardinality(Open' \ TodoOf(e)')
        BY <2>1, <2>3, <2>5, <2>6
    <2> QED
        BY <2>1, <2>2, <2>3, <2>4, <2>7
<1>7. ASSUME NEW d \in Drivers, Drive(d) \/ Crash(d), NoReleases'
      PROVE  /\ pc'[d] \in Working \cup {"node"} => (passes[d] > Cardinality(Open \ TodoOf(d)))'
             /\ pc'[d] = "finish" =>
                  IsComplete(Graph, store') \/ (beheld'[d] # {} /\ beheld'[d] \subseteq Nodes \ Open')
             /\ pc'[d] = "idle" /\ result'[d] = "stuck" =>
                  beheld'[d] # {} /\ beheld'[d] \subseteq Settled(store')
    <2>1. /\ pc[d] \in Working \cup {"node"} => passes[d] > Cardinality(Open \ TodoOf(d))
          /\ pc[d] = "finish" =>
                  IsComplete(Graph, store) \/ (beheld[d] # {} /\ beheld[d] \subseteq Nodes \ Open)
        BY <1>5, <1>7 DEF PassInv
    <2>2. Open' \subseteq Open /\ Open \subseteq Nodes
        BY <1>7, OpenShrinks
    <2>3. passes[d] \in Nat
        BY <1>1
    <2>4. ASSUME pc[d] \in Working \cup {"node"}, passes'[d] = passes[d],
                 Open' \ TodoOf(d)' \subseteq Open \ TodoOf(d)
          PROVE  passes'[d] > Cardinality(Open' \ TodoOf(d)')
        <3>1. Open \ TodoOf(d) \subseteq Nodes
            BY <2>2
        <3>2. /\ Cardinality(Open \ TodoOf(d)) \in Nat /\ Cardinality(Open' \ TodoOf(d)') \in Nat
              /\ Cardinality(Open' \ TodoOf(d)') <= Cardinality(Open \ TodoOf(d))
            BY <2>4, <3>1, Fewer
        <3> QED
            BY <2>1, <2>3, <2>4, <3>2
    <2>5. CASE Call(d)
        <3>1. passes'[d] = MaxPasses /\ pc'[d] = "node"
            BY <1>1, <2>5 DEF Call
        <3>2. Open' \ TodoOf(d)' \subseteq Nodes
            BY <2>2
        <3>3. /\ Cardinality(Open' \ TodoOf(d)') \in Nat /\ Cardinality(Nodes) \in Nat
              /\ Cardinality(Open' \ TodoOf(d)') <= Cardinality(Nodes)
            BY <3>2, Fewer
        <3>4. passes'[d] > Cardinality(Open' \ TodoOf(d)')
            BY <1>1, <3>1, <3>3
        <3> QED
            BY <3>1, <3>4
    <2>6. CASE OutOfPasses(d)
        <3>1. pc[d] = "node" /\ ~(passes[d] > 0)
            BY <2>6 DEF OutOfPasses, PassesLeft
        <3>2. Cardinality(Open \ TodoOf(d)) \in Nat
            BY <2>2, Fewer
        <3> QED
            BY <2>1, <2>3, <3>1, <3>2
    <2>7. CASE Advance(d)
        <3> DEFINE skips == Skips(Graph, store)
                   ready == ReadyIndex(Graph, store)
                   after == AfterSkips(skips)
                   batch == SelectDispatch(ready, Cardinality(Held(after)), MaxConcurrent)
        <3>1. /\ pc[d] = "node" /\ todo[d] = <<>>
              /\ store' = after /\ batch \subseteq Ready(Graph, store)
              /\ IsFiniteSet(batch)
              /\ todo'[d] \in Seq(batch) /\ Len(todo'[d]) = Cardinality(batch)
              /\ \A i, j \in DOMAIN todo'[d] : todo'[d][i] = todo'[d][j] => i = j
              /\ passes'[d] = passes[d] - 1
              /\ pc'[d] = (IF batch = {} THEN "finish" ELSE "node")
              /\ beheld'[d] = Held(after)
            BY <2>7, AdvanceFacts
        <3>2. CASE pc'[d] = "finish"
            <4>1. beheld'[d] # {} \/ IsComplete(Graph, store')
                BY <2>7, <3>2, NothingHandedOut
            <4>2. beheld'[d] \subseteq Nodes \ Open'
                BY <3>1 DEF Held, HELD, Open, AfterSkips
            <4> QED
                BY <3>2, <4>1, <4>2
        <3>3. CASE pc'[d] = "node"
            <4>1. batch # {}
                BY <3>1, <3>3
            <4>2. TodoOf(d) = {}
                BY <3>1 DEF TodoOf
            <4> HIDE DEF batch, after, ready, skips
            <4>3. Cardinality(batch) \in Nat \ {0}
                BY <3>1, <4>1, FS_CardinalityType, FS_EmptySet
            <4>4. 1 \in DOMAIN todo'[d] /\ todo'[d][1] \in batch
                BY <3>1, <4>3
            <4> DEFINE n == todo'[d][1]
            <4>5. n \in TodoOf(d)' /\ n \in Ready(Graph, store)
                BY <3>1, <4>4 DEF TodoOf
            <4>6. n \in Open
                BY <4>5 DEF Ready, Open, Nodes
            <4> HIDE DEF n
            <4>7. Open' \ TodoOf(d)' \subseteq Open /\ Open' \ TodoOf(d)' # Open
                BY <2>2, <4>5, <4>6
            <4>8. /\ Cardinality(Open' \ TodoOf(d)') \in Nat /\ Cardinality(Open) \in Nat
                  /\ Cardinality(Open' \ TodoOf(d)') < Cardinality(Open)
                BY <2>2, <4>7, Fewer
            <4>9. passes[d] > Cardinality(Open)
                <5>1. Open \ TodoOf(d) = Open
                    BY <4>2
                <5> QED
                    BY <2>1, <3>1, <5>1
            <4>10. passes'[d] > Cardinality(Open' \ TodoOf(d)')
                BY <2>3, <3>1, <4>8, <4>9
            <4> QED
                BY <3>3, <4>10
        <3> QED
            BY <3>1, <3>2, <3>3
    <2>8. CASE ReturnAtTheEnd(d)
        <3>1. /\ pc[d] = "finish" /\ result'[d] = Finish /\ pc'[d] = "idle"
              /\ store' = store /\ beheld' = beheld
            BY <1>1, <2>8 DEF ReturnAtTheEnd, Return
        <3>2. ASSUME Finish = "stuck"
              PROVE  ~IsComplete(Graph, store) /\ Held(store) = {}
            BY <3>2 DEF Finish, HasWorkInFlight
        <3>3. ASSUME Held(store) = {}
              PROVE  Nodes \ Open \subseteq Settled(store)
            BY <1>1, <3>3 DEF Held, Open, Settled, Statuses, TypeInv, TypeOK, Row
        <3> QED
            BY <2>1, <3>1, <3>2, <3>3
    <2>9. CASE RunNext(d)
        <3>1. /\ pc[d] = "node" /\ pc'[d] \in {"node", "claimed"} /\ passes' = passes
              /\ TodoOf(d)' = TodoOf(d) \ {Head(todo[d])}
              /\ Head(todo[d]) \notin Open'
            <4> SUFFICES ASSUME NEW n, n = Head(todo[d])
                         PROVE  /\ pc[d] = "node" /\ pc'[d] \in {"node", "claimed"} /\ passes' = passes
                                /\ TodoOf(d)' = TodoOf(d) \ {n}
                                /\ n \notin Open'
                OBVIOUS
            <4>1. /\ pc[d] = "node" /\ n \in Nodes /\ passes' = passes
                  /\ TodoOf(d)' = TodoOf(d) \ {n}
                  /\ \/ /\ store' = Claim(store, n, d) /\ pc' = [pc EXCEPT ![d] = "claimed"]
                     \/ store[n].status # "none" /\ UNCHANGED <<store, node, pc>>
                BY <2>9, RunNextFacts
            <4>2. store \in StoreType
                BY DEF TypeInv, TypeOK, StoreType
            <4>3. Claim(store, n, d)[n].status = "claimed"
                BY <4>1, <4>2, ClaimedRow
            <4> QED
                BY <1>1, <4>1, <4>3 DEF Open
        <3>2. Open' \ TodoOf(d)' \subseteq Open \ TodoOf(d)
            BY <2>2, <3>1
        <3> QED
            BY <2>4, <3>1, <3>2
    <2>10. CASE Execute(d)
        <3>1. /\ pc[d] = "claimed" /\ pc'[d] \in Working /\ passes' = passes /\ TodoOf(d)' = TodoOf(d)
            BY <1>1, <2>10, ExecuteFacts DEF TodoOf
        <3> QED
            BY <2>2, <2>4, <3>1
    <2>11. CASE Checkpoint(d) \/ TryAgain(d) \/ PauseTheRun(d) \/ FailTheRun(d)
        <3>1. /\ pc[d] \in Working /\ passes' = passes
              /\ \/ pc'[d] \in {"node", "claimed"} /\ todo' = todo
                 \/ pc'[d] = "idle" /\ result'[d] \in {"paused", "failed"}
            BY <1>1, <2>11, WriteFacts DEF Return
        <3>2. CASE pc'[d] \in {"node", "claimed"} /\ todo' = todo
            <4>1. TodoOf(d)' = TodoOf(d)
                BY <3>2 DEF TodoOf
            <4> QED
                BY <2>2, <2>4, <3>1, <3>2, <4>1
        <3> QED
            BY <3>1, <3>2
    <2>12. CASE Crash(d)
        <3>1. pc'[d] = "idle" /\ result'[d] = "none"
            BY <1>1, <2>12 DEF Crash, Return
        <3> QED
            BY <3>1
    <2> QED
        BY <1>7, <2>5, <2>6, <2>7, <2>8, <2>9, <2>10, <2>11, <2>12 DEF Drive
<1>8. ASSUME NEW d \in Drivers, Drive(d) \/ Crash(d)
      PROVE  PassInv'
    BY <1>6, <1>7, <1>8 DEF PassInv
<1> QED
    BY <1>2, <1>3, <1>4, <1>8 DEF Next, Answer

-----------------------------------------------------------------------------
(* The serial default *)

Serial == MaxConcurrent = 1 /\ DeclaredTopologically(Graph)

\* n has its turn: everything declared before it is settled, and it is live.
Due(n) ==
    /\ n \notin Graph.notes /\ ~Dead(Graph, store, n)
    /\ Skips(Graph, store) = {}
    /\ \A m \in Nodes : DeclaredBefore(Graph, m, n) => m \in Settled(store)

Named == Held(store) \cup UNION {TodoOf(d) : d \in Drivers}

\* Every row held and every node of a pass is the one that is due, or was settled
\* meanwhile; the gate that waits is the one whose answer the run would take.
SerialInv ==
    /\ \A n \in Named : n \in Settled(store) \/ Due(n)
    /\ \A d \in Drivers : pc[d] = "parked" =>
          node[d] \in Gates /\ (node[d] \in DOMAIN answers \/ awaiting = node[d])
    /\ AskedCanAnswer

\* The order of declaration has one first unsettled node.
LEMMA OneIsDue ==
    ASSUME TypeInv, NEW n \in Nodes, NEW m \in Nodes, Due(n), Due(m),
           n \notin Settled(store), m \notin Settled(store)
    PROVE  n = m
BY LoopAssumption, DeclaredOrder DEF Due, Nodes

LEMMA HeldOne ==
    ASSUME TypeInv, SerialInv, NEW n \in Held(store)
    PROVE  /\ n \in Nodes /\ n \notin Settled(store) /\ Due(n)
           /\ \A m \in Named : m = n \/ m \in Settled(store)
<1>1. n \in Nodes /\ n \notin Settled(store) /\ n \in Named /\ Named \subseteq Nodes
    <2>1. store \in StoreType /\ todo \in [Drivers -> Seq(Nodes)]
        BY DEF TypeInv, TypeOK, StoreType
    <2>2. ASSUME NEW d \in Drivers
          PROVE  TodoOf(d) \subseteq Nodes
        <3>1. todo[d] \in Seq(Nodes)
            BY <2>1
        <3> QED
            BY <3>1 DEF TodoOf
    <2>3. Held(store) \subseteq Nodes
        BY <2>1 DEF Held, StoreType
    <2> QED
        BY <2>2, <2>3 DEF Named, Held, HELD, Settled, SETTLED
<1>2. Due(n)
    BY <1>1 DEF SerialInv
<1> QED
    BY <1>1, <1>2, OneIsDue DEF SerialInv

\* A row that changes without settling moves no one's turn.
LEMMA DueAfterMoving ==
    ASSUME TypeInv, TypeInv', NEW k \in Nodes, k \notin Graph.notes, ~Dead(Graph, store, k),
           store[k].status \notin SETTLED, store'[k].status \notin SETTLED,
           \A m \in Nodes \ {k} : store'[m] = store[m],
           NEW n, n \in Settled(store) \/ Due(n)
    PROVE  n \in Settled(store') \/ Due(n)'
<1>1. DOMAIN store = NodesOf(Graph) /\ DOMAIN store' = NodesOf(Graph)
    BY DEF TypeInv, TypeOK, Nodes
<1>2. Skips(Graph, store') = Skips(Graph, store) /\ Settled(store') = Settled(store)
    BY <1>1, LoopAssumption, SkipsUnmoved DEF Nodes
<1>3. \A m : Dead(Graph, store', m) <=> Dead(Graph, store, m)
    <2>1. \A m \in NodesOf(Graph) :
            store'[m] = store[m] \/ (store'[m].status # "completed" /\ store[m].status # "completed")
        BY DEF SETTLED, Nodes
    <2> QED
        BY <2>1, LoopAssumption, SameEdges
<1> QED
    BY <1>2, <1>3 DEF Due

\* An advance writes skips only when nobody has a turn, and gives one out.
LEMMA DueAfterAdvance ==
    ASSUME TypeInv, SerialInv, Serial, NEW d \in Drivers, Advance(d)
    PROVE  /\ \A n \in Nodes : n \in Settled(store) \/ Due(n) => n \in Settled(store') \/ Due(n)'
           /\ \A n \in TodoOf(d)' : Due(n)'
           /\ Held(store') = Held(store)
<1> DEFINE skips == Skips(Graph, store)
           ready == ReadyIndex(Graph, store)
           after == AfterSkips(skips)
           batch == SelectDispatch(ready, Cardinality(Held(after)), MaxConcurrent)
<1>1. /\ WellFormed(Graph) /\ Acyclic(Graph) /\ DeclaredTopologically(Graph) /\ MaxConcurrent = 1
      /\ store \in StoreType /\ DOMAIN store = NodesOf(Graph)
      /\ \A n \in NodesOf(Graph) : store[n].status \in Statuses
    BY LoopAssumption DEF TypeInv, TypeOK, StoreType, Row, Serial, Nodes
<1>2. /\ store' = after /\ batch \subseteq Ready(Graph, store)
      /\ todo'[d] \in Seq(batch)
    BY AdvanceFacts
<1>3. /\ skips \subseteq Nodes /\ after \in StoreType
      /\ \A n \in Nodes \ skips : after[n] = store[n]
      /\ \A n \in skips : store[n].status = "none" /\ after[n].status = "skipped"
    BY <1>1, CascadeRows
<1> HIDE DEF after
<1>4. DOMAIN after = NodesOf(Graph)
    BY <1>3 DEF StoreType, Nodes
<1>5. /\ Skips(Graph, after) = {}
      /\ Settled(after) = Settled(store) \cup skips /\ Held(after) = Held(store)
      /\ \A m : Dead(Graph, after, m) <=> Dead(Graph, store, m)
    BY <1>1, <1>3, <1>4, SkipsAllWritten DEF Nodes
<1>6. \A n \in Nodes : n \in Settled(store) \/ Due(n) => n \in Settled(store') \/ Due(n)'
    BY <1>2, <1>5 DEF Due
<1>7. ASSUME NEW n \in batch
      PROVE  Due(n)'
    <2>1. Held(store) = {} /\ n \in Ready(Graph, store) /\ ready[n] = 0
        <3>1. IsFiniteSet(Held(store)) /\ Cardinality(Held(store)) \in Nat
            <4>1. Held(store) \subseteq Nodes
                BY <1>1 DEF Held, Nodes
            <4> QED
                BY <1>1, <4>1, GraphFinite, FS_Subset, FS_CardinalityType DEF Nodes
        <3>2. n \in DOMAIN ready /\ ready[n] < Room(1, Cardinality(Held(store)))
            BY <1>1, <1>5, <1>7 DEF SelectDispatch, UNLIMITED
        <3>3. ready[n] \in Nat
            <4>1. DOMAIN ready = Ready(Graph, store) /\ IsFiniteSet(Ready(Graph, store))
                BY <1>1, GraphFinite, FS_Subset DEF ReadyIndex, Ready
            <4>2. ASSUME NEW S \in SUBSET Ready(Graph, store) PROVE Cardinality(S) \in Nat
                BY <4>1, FS_Subset, FS_CardinalityType
            <4> QED
                BY <3>2, <4>1, <4>2 DEF ReadyIndex
        <3>4. Cardinality(Held(store)) = 0 /\ ready[n] = 0
            BY <3>1, <3>2, <3>3 DEF Room
        <3> QED
            BY <1>2, <1>7, <3>1, <3>4, FS_EmptySet
    <2>2. \A m \in NodesOf(Graph) : DeclaredBefore(Graph, m, n) => m \in Settled(store) \cup skips
        BY <1>1, <2>1, HeadIsNext
    <2>3. n \notin Graph.notes /\ ~Dead(Graph, store, n)
        BY <2>1, ReadyIsLive
    <2> QED
        BY <1>2, <1>5, <2>2, <2>3 DEF Due, Nodes
<1>8. TodoOf(d)' \subseteq batch
    <2> HIDE DEF batch
    <2> QED
        BY <1>2 DEF TodoOf
<1> QED
    BY <1>2, <1>5, <1>6, <1>7, <1>8

\* Only an advance names a node anew.
LEMMA NamedShrinks ==
    ASSUME TypeInv, OwnInv, [Next]_vars, ~\E d \in Drivers : Advance(d)
    PROVE  Named' \subseteq Named
<1>1. store \in StoreType /\ store' \in StoreType /\ todo \in [Drivers -> Seq(Nodes)]
    BY TypeStep DEF TypeInv, TypeOK, StoreType
<1>2. CASE UNCHANGED vars
    BY <1>2 DEF vars, Named, TodoOf
<1>3. ASSUME NEW n \in Nodes, Answer(n)
      PROVE  Named' \subseteq Named
    <2>1. /\ todo' = todo
          /\ \A m \in Nodes : store'[m] = store[m] \/ store'[m].status = "none"
        BY <1>1, <1>3 DEF Answer, Record, ReleaseRow, Release, loop, NoRow, StoreType
    <2>2. Held(store') \subseteq Held(store)
        BY <1>1, <2>1 DEF Held, HELD, StoreType
    <2> QED
        BY <2>1, <2>2 DEF Named, TodoOf
<1>4. ASSUME NEW d \in Drivers, Drive(d) \/ Crash(d)
      PROVE  Named' \subseteq Named
    <2>1. \A e \in Drivers \ {d} : TodoOf(e)' = TodoOf(e)
        BY <1>4, OthersKeep DEF TypeInv, TodoOf
    <2>2. TodoOf(d)' \subseteq TodoOf(d)
        <3>1. CASE RunNext(d)
            BY <3>1, RunNextFacts
        <3>2. todo' = todo \/ todo'[d] = <<>> \/ RunNext(d)
            BY <1>1, <1>4, ExecuteFacts
               DEF Drive, Call, OutOfPasses, ReturnAtTheEnd, Checkpoint, TryAgain,
                   PauseTheRun, FailTheRun, Crash, Return, loop
        <3> QED
            BY <3>1, <3>2 DEF TodoOf
    <2>3. Held(store') \subseteq Held(store) \cup TodoOf(d)
        <3>1. ASSUME NEW n \in Nodes, store'[n].status \in HELD, store[n].status \notin HELD
              PROVE  n \in TodoOf(d)
            <4>1. store[n].status = "none"
                BY <1>4, <3>1, RowMoves DEF HELD, SETTLED
            <4>2. CASE RunNext(d)
                <5> SUFFICES ASSUME NEW k, k = Head(todo[d])
                             PROVE  n \in TodoOf(d)
                    OBVIOUS
                <5>1. /\ k \in Nodes /\ k \in TodoOf(d)
                      /\ store' = Claim(store, k, d) \/ store' = store
                    BY <4>2, RunNextFacts
                <5>2. \A m \in Nodes \ {k} : Claim(store, k, d)[m] = store[m]
                    BY <1>1, <5>1, ClaimedRow
                <5> QED
                    BY <3>1, <5>1, <5>2
            <4>3. CASE Checkpoint(d) \/ TryAgain(d) \/ PauseTheRun(d) \/ FailTheRun(d)
                BY <3>1, <4>1, <4>3, WriteFacts
            <4>4. CASE Call(d) \/ OutOfPasses(d) \/ ReturnAtTheEnd(d) \/ Execute(d) \/ Crash(d)
                BY <3>1, <4>4 DEF Call, OutOfPasses, ReturnAtTheEnd, Execute, Crash
            <4> QED
                BY <1>4, <4>2, <4>3, <4>4 DEF Drive
        <3> QED
            BY <1>1, <3>1 DEF Held, StoreType
    <2> QED
        BY <2>1, <2>2, <2>3 DEF Named
<1> QED
    BY <1>2, <1>3, <1>4 DEF Next

\* A turn ends only with a settled row.
LEMMA DueStays ==
    ASSUME TypeInv, OwnInv, SerialInv, Serial, [Next]_vars, NEW n \in Named
    PROVE  n \in Settled(store') \/ Due(n)'
<1>1. /\ TypeInv' /\ store \in StoreType /\ store' \in StoreType
      /\ n \in Settled(store) \/ Due(n)
      /\ Named \subseteq Nodes
    <2>1. /\ TypeInv' /\ store \in StoreType /\ store' \in StoreType
          /\ todo \in [Drivers -> Seq(Nodes)]
        BY TypeStep DEF TypeInv, TypeOK, StoreType
    <2>2. ASSUME NEW d \in Drivers
          PROVE  TodoOf(d) \subseteq Nodes
        <3>1. todo[d] \in Seq(Nodes)
            BY <2>1
        <3> QED
            BY <3>1 DEF TodoOf
    <2>3. Held(store) \subseteq Nodes
        BY <2>1 DEF Held, StoreType
    <2> QED
        BY <2>1, <2>2, <2>3 DEF Named, SerialInv
<1>2. CASE store' = store
    BY <1>1, <1>2 DEF Due
<1>3. ASSUME NEW k \in Held(store), store'[k].status \notin SETTLED, \A m \in Nodes \ {k} : store'[m] = store[m]
      PROVE  n \in Settled(store') \/ Due(n)'
    <2>1. k \in Nodes /\ store[k].status \notin SETTLED /\ k \notin Graph.notes /\ ~Dead(Graph, store, k)
        BY <1>1, HeldOne DEF Due, Settled, StoreType
    <2> QED
        BY <1>1, <1>3, <2>1, DueAfterMoving
<1>4. ASSUME NEW d \in Drivers, RunNext(d)
      PROVE  n \in Settled(store') \/ Due(n)'
    <2> SUFFICES ASSUME NEW k, k = Head(todo[d])
                 PROVE  n \in Settled(store') \/ Due(n)'
        OBVIOUS
    <2>1. /\ k \in Nodes /\ k \in TodoOf(d)
          /\ (store[k].status = "none" /\ store' = Claim(store, k, d)) \/ store' = store
        BY <1>4, RunNextFacts
    <2>2. CASE store[k].status = "none" /\ store' = Claim(store, k, d)
        <3>1. Due(k)
            BY <2>1, <2>2 DEF SerialInv, Named, Settled, SETTLED
        <3>2. Claim(store, k, d)[k].status = "claimed"
            BY <1>1, <2>1, ClaimedRow
        <3>3. \A m \in Nodes \ {k} : Claim(store, k, d)[m] = store[m]
            BY <1>1, <2>1, RowType
        <3>4. /\ store[k].status \notin SETTLED /\ store'[k].status \notin SETTLED
              /\ \A m \in Nodes \ {k} : store'[m] = store[m]
              /\ k \notin Graph.notes /\ ~Dead(Graph, store, k)
            BY <2>2, <3>1, <3>2, <3>3 DEF SETTLED, Due
        <3> QED
            BY <1>1, <2>1, <3>4, DueAfterMoving
    <2> QED
        BY <1>2, <2>1, <2>2
<1>5. ASSUME NEW d \in Drivers, Checkpoint(d) \/ TryAgain(d) \/ PauseTheRun(d) \/ FailTheRun(d)
      PROVE  n \in Settled(store') \/ Due(n)'
    <2> SUFFICES ASSUME NEW k, k = node[d]
                 PROVE  n \in Settled(store') \/ Due(n)'
        OBVIOUS
    <2>1. /\ k \in Nodes /\ store[k].status = "claimed"
          /\ \A m \in Nodes \ {k} : store'[m] = store[m]
        BY <1>5, WriteFacts
    <2>2. k \in Held(store)
        BY <1>1, <2>1 DEF Held, HELD, StoreType
    <2>3. CASE store'[k].status \in SETTLED
        <3>1. n = k \/ n \in Settled(store)
            BY <2>2, HeldOne
        <3>2. \A m \in Nodes : m \in Settled(store) => m \in Settled(store')
            BY <1>1, <2>1, <2>3 DEF Settled, StoreType
        <3>3. k \in Settled(store')
            BY <1>1, <2>1, <2>3 DEF Settled, StoreType
        <3> QED
            BY <1>1, <3>1, <3>2, <3>3
    <2> QED
        BY <1>3, <2>1, <2>2, <2>3
<1>6. ASSUME NEW k \in Nodes, ReleaseRow(k)
      PROVE  n \in Settled(store') \/ Due(n)'
    <2>1. store[k].status \in HELD /\ store' = [store EXCEPT ![k] = NoRow]
        BY <1>6 DEF ReleaseRow, Release, HELD
    <2>2. /\ k \in Held(store) /\ store'[k].status \notin SETTLED
          /\ \A m \in Nodes \ {k} : store'[m] = store[m]
        BY <1>1, <2>1 DEF Held, StoreType, NoRow, SETTLED
    <2> QED
        BY <1>3, <2>2
<1>7. ASSUME NEW d \in Drivers, Advance(d)
      PROVE  n \in Settled(store') \/ Due(n)'
    BY <1>1, <1>7, DueAfterAdvance
<1> QED
    BY <1>2, <1>4, <1>5, <1>6, <1>7
       DEF Next, Drive, Answer, Call, OutOfPasses, ReturnAtTheEnd, Execute, Crash, Record, vars

LEMMA SerialStep ==
    ASSUME TypeInv, OwnInv, SerialInv, Serial, [Next]_vars
    PROVE  SerialInv'
<1>1. /\ store \in StoreType /\ store' \in StoreType /\ Gates \subseteq Nodes
      /\ pc \in [Drivers -> Working \cup {"idle", "node", "finish"}]
    BY LoopAssumption, TypeStep DEF TypeInv, TypeOK, StoreType
<1>2. \A n \in Named' : n \in Settled(store') \/ Due(n)'
    <2>1. CASE ~\E d \in Drivers : Advance(d)
        BY <2>1, NamedShrinks, DueStays
    <2>2. ASSUME NEW d \in Drivers, Advance(d)
          PROVE  \A n \in Named' : n \in Settled(store') \/ Due(n)'
        <3>1. Held(store') = Held(store) /\ \A n \in TodoOf(d)' : Due(n)'
            BY <2>2, DueAfterAdvance
        <3>2. \A e \in Drivers \ {d} : TodoOf(e)' = TodoOf(e)
            BY <2>2, OthersKeep DEF TypeInv, TodoOf, Drive
        <3>3. ASSUME NEW n \in Named', n \notin TodoOf(d)'
              PROVE  n \in Named
            BY <3>1, <3>2, <3>3 DEF Named
        <3> QED
            BY <3>1, <3>3, DueStays
    <2> QED
        BY <2>1, <2>2
<1> DEFINE Waits(g) == g \in DOMAIN answers \/ awaiting = g
\* Whoever waits keeps its place, or is the one that takes it.
<1>3. ASSUME NEW g \in Gates, g \in Held(store), Waits(g)
      PROVE  Waits(g)'
    <2>1. ASSUME NEW d \in Drivers, Execute(d)
          PROVE  Waits(g)'
        <3> SUFFICES ASSUME NEW k, k = node[d]
                     PROVE  Waits(g)'
            OBVIOUS
        <3>1. answers' = answers /\ (awaiting' = awaiting \/ awaiting' = k) /\ pc[d] = "claimed" /\ k \in Nodes
            BY <2>1, ExecuteFacts
        <3>2. k \in Held(store)
            BY <1>1, <3>1 DEF OwnInv, Working, Held, HELD, StoreType
        <3>3. g = k
            BY <1>3, <3>2, HeldOne DEF Named
        <3> QED
            BY <1>3, <3>1, <3>3
    <2>2. ASSUME NEW n \in Nodes, NEW decision \in Decisions, Record(n, decision)
          PROVE  Waits(g)'
        BY <1>3, <2>2 DEF Record, MayRecord
    <2>3. CASE UNCHANGED <<answers, awaiting>>
        BY <1>3, <2>3
    <2> QED
        BY <2>1, <2>2, <2>3
           DEF Next, Drive, Answer, Call, Advance, OutOfPasses, ReturnAtTheEnd, RunNext, Checkpoint,
               TryAgain, PauseTheRun, FailTheRun, Crash, ReleaseRow, gates, vars
<1>4. ASSUME NEW d \in Drivers, pc'[d] = "parked"
      PROVE  node'[d] \in Gates /\ Waits(node[d])'
    <2>1. CASE Execute(d)
        BY <1>4, <2>1, ExecuteFacts
    <2>2. CASE pc[d] = "parked" /\ node'[d] = node[d]
        <3>1. node[d] \in Gates /\ Waits(node[d]) /\ node[d] \in Held(store)
            BY <1>1, <2>2 DEF SerialInv, OwnInv, Working, Held, HELD, StoreType
        <3>2. Waits(node[d])'
            <4> SUFFICES ASSUME NEW g, g = node[d]
                         PROVE  g \in DOMAIN answers' \/ awaiting' = g
                BY <2>2
            <4> QED
                BY <1>3, <3>1
        <3> QED
            BY <2>2, <3>1, <3>2
    <2>3. ASSUME NEW e \in Drivers, Drive(e) \/ Crash(e), ~Execute(d)
          PROVE  pc[d] = "parked" /\ node'[d] = node[d]
        <3>1. CASE e # d
            BY <1>4, <2>3, <3>1, OthersKeep DEF TypeInv
        <3>2. CASE e = d
            <4>1. CASE Advance(d) \/ RunNext(d)
                BY <1>1, <1>4, <4>1 DEF Advance, RunNext
            <4>2. CASE Checkpoint(d) \/ TryAgain(d) \/ PauseTheRun(d) \/ FailTheRun(d)
                BY <1>1, <1>4, <4>2, WriteFacts DEF Return
            <4>3. CASE Call(d) \/ OutOfPasses(d) \/ ReturnAtTheEnd(d) \/ Crash(d)
                BY <1>1, <1>4, <4>3 DEF Call, OutOfPasses, ReturnAtTheEnd, Crash, Return
            <4> QED
                BY <2>3, <3>2, <4>1, <4>2, <4>3 DEF Drive
        <3> QED
            BY <3>1, <3>2
    <2>4. ASSUME UNCHANGED vars \/ \E n \in Nodes : Answer(n)
          PROVE  pc[d] = "parked" /\ node'[d] = node[d]
        BY <1>4, <2>4 DEF Answer, Record, ReleaseRow, vars
    <2> QED
        BY <2>1, <2>2, <2>3, <2>4 DEF Next
<1>5. ASSUME NEW g \in Gates, store'[g].status = "paused"
      PROVE  Waits(g)'
    <2>1. CASE store[g].status = "paused"
        <3>1. g \in Held(store) /\ Waits(g)
            BY <1>1, <2>1 DEF SerialInv, AskedCanAnswer, Held, HELD, StoreType
        <3> QED
            BY <1>3, <3>1
    <2>2. ASSUME store[g].status # "paused"
          PROVE  \E d \in Drivers : PauseTheRun(d) /\ g = node[d]
        <3>1. ASSUME NEW d \in Drivers, Drive(d) \/ Crash(d)
              PROVE  PauseTheRun(d) /\ g = node[d]
            <4>1. CASE Checkpoint(d) \/ TryAgain(d) \/ PauseTheRun(d) \/ FailTheRun(d)
                BY <1>1, <1>5, <2>2, <4>1, WriteFacts DEF PauseTheRun, Checkpoint, TryAgain, FailTheRun
            <4>2. CASE Advance(d)
                <5>1. store' = AfterSkips(Skips(Graph, store))
                    BY <4>2, AdvanceFacts
                <5> QED
                    BY <1>1, <1>5, <2>2, <5>1, CascadeRows
            <4>3. CASE RunNext(d)
                <5> SUFFICES ASSUME NEW k, k = Head(todo[d])
                             PROVE  FALSE
                    OBVIOUS
                <5>1. k \in Nodes /\ (store' = store \/ store' = Claim(store, k, d))
                    BY <4>3, RunNextFacts
                <5>2. Claim(store, k, d)[k].status = "claimed" /\ (g # k => Claim(store, k, d)[g] = store[g])
                    <6>1. Claim(store, k, d)[k].status = "claimed"
                        BY <1>1, <5>1, ClaimedRow
                    <6>2. g # k => Claim(store, k, d)[g] = store[g]
                        BY <1>1, <5>1, RowType
                    <6> QED
                        BY <6>1, <6>2
                <5> QED
                    BY <1>5, <2>2, <5>1, <5>2
            <4>4. CASE Call(d) \/ OutOfPasses(d) \/ ReturnAtTheEnd(d) \/ Execute(d) \/ Crash(d)
                BY <1>5, <2>2, <4>4 DEF Call, OutOfPasses, ReturnAtTheEnd, Execute, Crash
            <4> QED
                BY <3>1, <4>1, <4>2, <4>3, <4>4 DEF Drive
        <3>2. ASSUME NEW n \in Nodes, Answer(n)
              PROVE  FALSE
            BY <1>1, <1>5, <2>2, <3>2 DEF Answer, Record, ReleaseRow, Release, NoRow, StoreType
        <3> QED
            BY <1>5, <2>2, <3>1, <3>2 DEF Next, vars
    <2>3. ASSUME NEW d \in Drivers, PauseTheRun(d), g = node[d]
          PROVE  Waits(g)'
        BY <2>3 DEF PauseTheRun, SerialInv, gates
    <2> QED
        BY <2>1, <2>2, <2>3
<1> QED
    BY <1>2, <1>4, <1>5 DEF SerialInv, AskedCanAnswer

-----------------------------------------------------------------------------
(* The theorems *)

LoopInv ==
    /\ TypeInv /\ OwnInv /\ HoldersInv /\ ResultsAreTrue /\ GatesInv /\ WorkInv
    /\ MaxPasses > Cardinality(Nodes) => PassInv
    /\ Serial => SerialInv

LEMMA LoopInit == Init => LoopInv
<1> SUFFICES ASSUME Init PROVE LoopInv
    OBVIOUS
<1>1. /\ store = [n \in Nodes |-> NoRow]
      /\ \A n \in Nodes : store[n] = NoRow
      /\ \A d \in Drivers : pc[d] = "idle" /\ todo[d] = <<>> /\ result[d] = "none"
      /\ awaiting = NoNode /\ DOMAIN answers = {}
      /\ Gates \subseteq Nodes /\ NoNode \notin Nodes
    BY LoopAssumption DEF Init
<1>2. TypeInv
    <2>1. <<>> \in Seq(Nodes) /\ 0 \in 0..MaxPasses
        BY LoopAssumption
    <2>2. NoRow \in Row(Drivers, Ports \cup Decisions)
        BY DEF NoRow, Row, Statuses, HELD, SETTLED
    <2>3. TypeOK
        BY <1>1, <2>1, <2>2 DEF Init, TypeOK, Results
    <2> QED
        BY <1>1, <2>3 DEF Init, TypeInv, Working
<1>3. OwnInv
    BY <1>1 DEF OwnInv, Working, Distinct, TodoOf
<1>9. HoldersInv
    BY <1>1 DEF Init, HoldersInv, NoRow
<1>4. ResultsAreTrue
    BY <1>1 DEF ResultsAreTrue
<1>5. GatesInv
    BY <1>1 DEF GatesInv, NoRow
<1>6. WorkInv
    <2>1. ASSUME NEW n \in Nodes
          PROVE  NodeWork(n)
        <3>1. runs[n] = 0 /\ store[n].attempts = 0
            BY <1>1 DEF Init, NoRow
        <3>2. Paid(n) \in Nat /\ TriesFor[n] \in Nat
            BY <1>2, PaidType
        <3> QED
            BY <3>1, <3>2 DEF NodeWork
    <2> QED
        BY <1>1, <2>1 DEF WorkInv, DriverWork, Working
<1>7. PassInv
    BY <1>1 DEF PassInv, Working
<1>8. SerialInv
    <2>1. Held(store) = {} /\ \A d \in Drivers : TodoOf(d) = {}
        BY <1>1 DEF Held, HELD, NoRow, TodoOf
    <2> QED
        BY <1>1, <2>1 DEF SerialInv, Named, AskedCanAnswer, NoRow
<1> QED
    BY <1>2, <1>3, <1>4, <1>5, <1>6, <1>7, <1>8, <1>9 DEF LoopInv

LEMMA LoopInvariant == Spec => []LoopInv
<1>1. LoopInv /\ [Next]_vars => LoopInv'
    <2> SUFFICES ASSUME LoopInv, [Next]_vars PROVE LoopInv'
        OBVIOUS
    <2>1. TypeInv' /\ OwnInv' /\ HoldersInv' /\ ResultsAreTrue' /\ GatesInv' /\ WorkInv'
        BY TypeStep, OwnStep, HoldersStep, ResultsStep, GatesStep, WorkStep DEF LoopInv
    <2>2. MaxPasses > Cardinality(Nodes) => PassInv'
        BY PassStep DEF LoopInv
    <2>3. Serial => SerialInv'
        BY SerialStep DEF LoopInv
    <2> QED
        BY <2>1, <2>2, <2>3 DEF LoopInv, Serial
<1> QED
    BY <1>1, LoopInit, PTL DEF Spec

\* Whoever holds a row a call found in flight is another than the call.
LEMMA WaitingIsTrue ==
    ASSUME LoopInv, [Next]_vars, NEW d \in Drivers,
           pc[d] = "finish", pc'[d] = "idle", result'[d] = "waiting"
    PROVE  \E n \in Nodes : HeldElsewhere(d, n)
<1>0. TypeInv /\ OwnInv /\ HoldersInv /\ crashes \in Nat
    BY DEF LoopInv, HoldersInv
<1>1. ReturnAtTheEnd(d)
    <2>1. CASE \E e \in Drivers \ {d} : Drive(e) \/ Crash(e)
        BY <1>0, <2>1, OthersKeep DEF TypeInv
    <2>2. CASE (\E n \in Nodes : Answer(n)) \/ UNCHANGED vars
        BY <2>2 DEF Answer, Record, ReleaseRow, vars
    <2>3. CASE Drive(d) \/ Crash(d)
        BY <2>3 DEF Drive, Crash, Call, Advance, OutOfPasses, RunNext, Execute, Checkpoint,
                    PauseTheRun, TryAgain, FailTheRun, Working
    <2> QED
        BY <2>1, <2>2, <2>3 DEF Next
<1>2. Finish = "waiting"
    BY <1>0, <1>1 DEF ReturnAtTheEnd, Return, TypeInv, TypeOK
<1>3. HasWorkInFlight(store)
    BY <1>2 DEF Finish
<1>4. PICK n \in Nodes : store[n].status \in {"claimed", "paused"}
    BY <1>0, <1>3 DEF HasWorkInFlight, Held, HELD, TypeInv, TypeOK
<1>5. CASE store[n].status = "claimed" /\ InHand(n)
    BY <1>5 DEF HeldElsewhere, InHand, Working
<1>6. CASE store[n].status = "claimed" /\ ~InHand(n)
    BY <1>0, <1>6 DEF HeldElsewhere, HoldersInv
<1> QED
    BY <1>4, <1>5, <1>6 DEF HeldElsewhere

\* Coordinator.run_to_completion, any number of calls at once, whichever of them die:
\* `ok` means every node completed or skipped and `failed` that one failed, for good;
\* "waiting on work held elsewhere" is returned only when another call is at work, a
\* gate asks, or a dead call left its row; and "the run cannot progress", which can be
\* false, only if rows the call beheld settled behind its back, or one was released.
THEOREM CallsTellTheTruth == Spec => ReportsAreTrue
<1>1. LoopInv => TypeOK /\ ResultsAreTrue /\ StuckOnlyIfOvertaken
    <2> SUFFICES ASSUME LoopInv, MaxPasses > Cardinality(Nodes), NEW d \in Drivers,
                        pc[d] = "idle", result[d] = "stuck", ~\E n \in Nodes : releases[n] > 0
                 PROVE  beheld[d] # {} /\ beheld[d] \subseteq Settled(store)
        BY DEF LoopInv, TypeInv, StuckOnlyIfOvertaken
    <2>1. NoReleases
        BY DEF LoopInv, TypeInv, NoReleases
    <2> QED
        BY <2>1 DEF LoopInv, PassInv
<1>2. LoopInv /\ [Next]_vars =>
         [\A d \in Drivers :
             (pc[d] = "finish" /\ pc'[d] = "idle" /\ result'[d] = "waiting")
                 => \E n \in Nodes : HeldElsewhere(d, n)]_vars
    BY WaitingIsTrue
<1> QED
    BY <1>1, <1>2, LoopInvariant, PTL DEF ReportsAreTrue, WaitingIsOnSomeone, Spec

\* state.py, retry.py: a node does its work as often as the policy grants per
\* release of its row, whoever drives it and whatever dies on the way.
THEOREM WorkIsPaidFor == Spec => []WorkPerRelease
<1>1. LoopInv => WorkPerRelease
    <2> SUFFICES ASSUME LoopInv, NEW n \in Nodes
                 PROVE  runs[n] <= TriesFor[n] * (1 + releases[n])
        BY DEF WorkPerRelease
    <2>1. TypeInv /\ runs[n] <= Paid(n) + TriesFor[n]
        BY DEF LoopInv, WorkInv, NodeWork
    <2>2. TriesFor[n] * (1 + releases[n]) = Paid(n) + TriesFor[n]
        BY <2>1, PaidType
    <2> QED
        BY <2>1, <2>2
<1> QED
    BY <1>1, LoopInvariant, PTL

\* durable/human.py: a gate completes with the decision of a person, or with the
\* one on its input if it opted in, and that decision is never replaced after it.
THEOREM PeopleAreFollowed == Spec => []GatesFollowPeople
<1>1. LoopInv => GatesFollowPeople
    BY DEF LoopInv, GatesInv, GatesFollowPeople, Answered, Decision
<1> QED
    BY <1>1, LoopInvariant, PTL

\* Submissions.awaiting under the serial default: whoever a paused gate asks can
\* answer it.  With room for two gates at once the one slot serves one of them.
THEOREM PeopleCanAnswer == Spec => [](Serial => PeopleDecide)
<1>1. LoopInv => (Serial => PeopleDecide)
    BY DEF LoopInv, GatesInv, SerialInv, PeopleDecide, GatesFollowPeople, Answered, Decision
<1> QED
    BY <1>1, LoopInvariant, PTL

\* "A pause parks the RUN": under the serial default no driver works beside a gate
\* that waits for a person.
THEOREM PauseParksTheRun ==
    Spec => [](DeclaredTopologically(Graph) => NothingBesideAWaitingGate)
<1>1. LoopInv => (DeclaredTopologically(Graph) => NothingBesideAWaitingGate)
    <2> SUFFICES ASSUME LoopInv, Serial, NEW g \in Gates, store[g].status = "paused"
                 PROVE  Held(store) = {g}
        BY DEF NothingBesideAWaitingGate, Serial
    <2>1. TypeInv /\ SerialInv /\ store \in StoreType /\ g \in Nodes
        BY LoopAssumption DEF LoopInv, TypeInv, TypeOK, StoreType
    <2>2. g \in Held(store)
        BY <2>1 DEF Held, HELD, StoreType
    <2>3. ASSUME NEW n \in Held(store)
          PROVE  n = g
        BY <2>1, <2>2, HeldOne DEF Named
    <2> QED
        BY <2>2, <2>3
<1> QED
    BY <1>1, LoopInvariant, PTL
=============================================================================
