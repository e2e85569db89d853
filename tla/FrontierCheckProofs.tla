------------------------- MODULE FrontierCheckProofs -------------------------
(***************************************************************************)
(* Theorems about FrontierCheck: for all graphs without a cycle the loop   *)
(* of Frontier.compute finds the frontier of Frontier.tla, in its order.   *)
(***************************************************************************)
EXTENDS FrontierCheck, FrontierProofs, SequenceTheorems

-----------------------------------------------------------------------------
(* Iteration *)

\* A function defined by repeating a step from a start has the values the steps
\* give: the recursion is on numbers.
LEMMA Iterates ==
    ASSUME NEW A, NEW a \in A, NEW n \in Nat, NEW step \in [1..n -> [A -> A]]
    PROVE  \E f \in [0..n -> A] :
              /\ f[0] = a
              /\ \A i \in 1..n : f[i] = step[i][f[i - 1]]
<1> DEFINE Steps(f, k) == f[0] = a /\ \A i \in 1..k : f[i] = step[i][f[i - 1]]
           T == {k \in 0..n : \A f \in [0..k -> A] : ~Steps(f, k)}
<1>1. ASSUME NEW k \in T, \A m \in T : k <= m
      PROVE  FALSE
    <2>0. k \in 0..n /\ k \in Nat /\ \A f \in [0..k -> A] : ~Steps(f, k)
        OBVIOUS
    <2>1. k # 0
        <3> DEFINE f == [i \in 0..0 |-> a]
        <3>1. f \in [0..0 -> A] /\ Steps(f, 0)
            OBVIOUS
        <3> QED
            BY <2>0, <3>1
    <2>2. k - 1 \in 0..n /\ k - 1 \notin T
        <3>1. k - 1 \in 0..n /\ ~(k <= k - 1)
            BY <2>0, <2>1
        <3> HIDE DEF T
        <3> QED
            BY <1>1, <3>1
    <2>3. PICK f \in [0..k - 1 -> A] : Steps(f, k - 1)
        BY <2>2
    <2> DEFINE h == [i \in 0..k |-> IF i = k THEN step[k][f[k - 1]] ELSE f[i]]
    <2>4. k \in 1..n /\ k - 1 \in 0..k - 1 /\ f[k - 1] \in A /\ step[k][f[k - 1]] \in A
        <3>1. k \in 1..n /\ k - 1 \in 0..k - 1
            BY <2>0, <2>1
        <3>2. f[k - 1] \in A
            BY <3>1
        <3> QED
            BY <3>1, <3>2
    <2>5. h \in [0..k -> A] /\ h[k] = step[k][f[k - 1]] /\ \A i \in 0..k - 1 : h[i] = f[i]
        <3>1. \A i \in 0..k : i # k => i \in 0..k - 1
            BY <2>0
        <3>2. \A i \in 0..k - 1 : i \in 0..k /\ i # k
            BY <2>0
        <3>3. k \in 0..k
            BY <2>0
        <3> QED
            BY <2>4, <3>1, <3>2, <3>3
    <2> HIDE DEF h
    <2>6. ASSUME NEW i \in 1..k
          PROVE  h[i] = step[i][h[i - 1]]
        <3>1. CASE i = k
            BY <2>4, <2>5, <3>1
        <3>2. CASE i # k
            <4>1. i \in 1..k - 1 /\ i \in 0..k - 1 /\ i - 1 \in 0..k - 1
                BY <2>0, <3>2
            <4>2. f[i] = step[i][f[i - 1]]
                BY <2>3, <4>1
            <4> QED
                BY <2>5, <4>1, <4>2
        <3> QED
            BY <3>1, <3>2
    <2>7. h[0] = a
        <3>1. 0 \in 0..k - 1
            BY <2>0, <2>1
        <3> QED
            BY <2>3, <2>5, <3>1
    <2>8. Steps(h, k)
        BY <2>6, <2>7
    <2> QED
        BY <2>0, <2>5, <2>8
<1>2. T = {}
    <2>1. T \in SUBSET Nat
        OBVIOUS
    <2> HIDE DEF T
    <2> QED
        BY <1>1, <2>1, Least
<1>3. n \in 0..n /\ n \notin T
    <2> HIDE DEF T
    <2>1. n \in 0..n
        OBVIOUS
    <2> QED
        BY <1>2, <2>1
<1> QED
    BY <1>3

-----------------------------------------------------------------------------
(* What the loop has found by the i-th visit of the k-th pass *)

Nodes == NodesOf(graph)
NodeCount == Len(graph.order)
Found == PassOf(graph, store)

GraphAndStore ==
    /\ WellFormed(graph) /\ Acyclic(graph)
    /\ DOMAIN store = Nodes /\ \A n \in Nodes : store[n].status \in Statuses

FoundBy(n, k, i) == \/ Found[n] < k
                    \/ Found[n] = k /\ \E j \in 1..i : graph.order[j] = n

FoundBefore(m, n) == \/ Found[m] < Found[n]
                     \/ Found[m] = Found[n] /\ DeclaredBefore(graph, m, n)

Ascending(s) == \A a, b \in DOMAIN s : a < b => FoundBefore(s[a], s[b])

Accs == [settled : SUBSET Nodes, ready : Seq(Nodes), skipped : Seq(Nodes), changed : BOOLEAN]

\* The loop has found the nodes whose visit has come, and lists them in that order.
FoundSoFar(acc, k, i) ==
    /\ acc \in Accs
    /\ ToSet(acc.ready) = {n \in Ready(graph, store) : FoundBy(n, k, i)}
    /\ ToSet(acc.skipped) = {n \in Skips(graph, store) : FoundBy(n, k, i)}
    /\ acc.settled = Settled(store) \cup ToSet(acc.skipped)
    /\ Ascending(acc.ready) /\ Ascending(acc.skipped)

\* The flag tells whether this pass has skipped a node.
FlagIsRight(acc, k, i) ==
    acc.changed <=> \E n \in Skips(graph, store) : FoundBy(n, k, i) /\ Found[n] = k

LEMMA Appending ==
    ASSUME NEW S, NEW s \in Seq(S), NEW x \in S
    PROVE  /\ Append(s, x) \in Seq(S)
           /\ ToSet(Append(s, x)) = ToSet(s) \cup {x}
           /\ \A a \in DOMAIN s : s[a] \in ToSet(s)
           /\ \A a, b \in DOMAIN Append(s, x) : a < b =>
                 /\ a \in DOMAIN s /\ Append(s, x)[a] = s[a]
                 /\ \/ b \in DOMAIN s /\ Append(s, x)[b] = s[b]
                    \/ Append(s, x)[b] = x
<1>1. /\ Append(s, x) \in Seq(S) /\ DOMAIN s = 1..Len(s) /\ Len(s) \in Nat
      /\ DOMAIN Append(s, x) = 1..Len(s) + 1
      /\ \A a \in 1..Len(s) : Append(s, x)[a] = s[a]
      /\ Append(s, x)[Len(s) + 1] = x
    OBVIOUS
<1>2. DOMAIN Append(s, x) = DOMAIN s \cup {Len(s) + 1}
    BY <1>1
<1>3. ToSet(Append(s, x)) = ToSet(s) \cup {x}
    BY <1>1, <1>2 DEF ToSet
<1>4. \A a, b \in DOMAIN Append(s, x) : a < b => a \in DOMAIN s
    BY <1>1
<1>5. \A b \in DOMAIN Append(s, x) : b \in DOMAIN s \/ b = Len(s) + 1
    BY <1>2
<1> QED
    BY <1>1, <1>3, <1>4, <1>5 DEF ToSet

\* The visits come one after the other.
LEMMA Positions ==
    ASSUME GraphAndStore, NEW k \in Nat, NEW i \in 1..NodeCount
    PROVE  LET n == graph.order[i]
           IN  /\ n \in Nodes /\ Found[n] \in Nat
               /\ \A m \in Nodes : FoundBy(m, k, i) <=> FoundBy(m, k, i - 1) \/ (m = n /\ Found[n] = k)
               /\ FoundBy(n, k, i - 1) => Found[n] < k
               /\ \A m \in Nodes : FoundBy(m, k, i - 1) => FoundBy(m, k, i)
               /\ \A m \in Nodes : FoundBy(m, k, i - 1) /\ ~(Found[m] < k) => Found[m] = k /\ DeclaredBefore(graph, m, n)
               /\ \A m \in Nodes : Found[m] = k /\ DeclaredBefore(graph, m, n) => FoundBy(m, k, i - 1)
<1> DEFINE n == graph.order[i]
<1>1. /\ DOMAIN graph.order = 1..NodeCount /\ NodeCount \in Nat
      /\ \A j \in 1..NodeCount : graph.order[j] \in Nodes
      /\ \A j, h \in 1..NodeCount : graph.order[j] = graph.order[h] => j = h
    BY GraphFinite DEF GraphAndStore, WellFormed, NodeCount, Nodes
<1>2. n \in Nodes /\ Found[n] \in Nat
    BY <1>1, PassSolves DEF GraphAndStore, Found, Nodes
<1>3. \A j \in 1..i : j \in 1..i - 1 \/ j = i
    BY <1>1
<1>4. \A j \in 1..i - 1 : j \in 1..i /\ j \in 1..NodeCount /\ j < i /\ j # i
    BY <1>1
<1>5. i \in 1..i
    BY <1>1
<1>6. \A m \in Nodes : FoundBy(m, k, i) <=> FoundBy(m, k, i - 1) \/ (m = n /\ Found[n] = k)
    BY <1>3, <1>4, <1>5 DEF FoundBy
<1>7. FoundBy(n, k, i - 1) => Found[n] < k
    BY <1>1, <1>4 DEF FoundBy
<1>8. \A m \in Nodes : FoundBy(m, k, i - 1) /\ ~(Found[m] < k) => Found[m] = k /\ DeclaredBefore(graph, m, n)
    BY <1>1, <1>4 DEF FoundBy, DeclaredBefore
<1>9. ASSUME NEW m \in Nodes, Found[m] = k, DeclaredBefore(graph, m, n)
      PROVE  FoundBy(m, k, i - 1)
    <2>1. PICK j, h \in 1..NodeCount : j < h /\ graph.order[j] = m /\ graph.order[h] = n
        BY <1>1, <1>9 DEF DeclaredBefore
    <2>2. h = i
        BY <1>1, <2>1
    <2>3. j \in 1..i - 1
        BY <1>1, <2>1, <2>2
    <2> QED
        BY <1>9, <2>1, <2>3 DEF FoundBy
<1> QED
    BY <1>2, <1>6, <1>7, <1>8, <1>9

\* Which nodes the rule finds, by what it asks of them at their visit.
LEMMA WhatIsFound ==
    ASSUME GraphAndStore, NEW n \in Nodes
    PROVE  /\ n \in Skips(graph, store) \cup Ready(graph, store)
                <=> /\ n \notin Settled(store) \cup Held(store)
                    /\ Sources(graph, n) \subseteq Settled(store) \cup Skips(graph, store)
           /\ n \notin Skips(graph, store) \cap Ready(graph, store)
           /\ n \in Skips(graph, store) => Dead(graph, store, n) \/ n \in graph.notes
           /\ n \in Ready(graph, store) => ~(Dead(graph, store, n) \/ n \in graph.notes)
<1>1. store[n].status = "none" <=> n \notin Settled(store) \cup Held(store)
    BY DEF GraphAndStore, Statuses, Settled, Held, SETTLED, HELD
<1>2. n \in Skips(graph, store) <=> SkippedGiven(graph, store, Skips(graph, store), n)
    BY SkipsAreFixed DEF Nodes
<1>3. n \in Ready(graph, store) <=>
          /\ n \notin Skips(graph, store) /\ store[n].status = "none"
          /\ Sources(graph, n) \subseteq Settled(store) \cup Skips(graph, store)
    BY DEF Ready, Nodes
<1> QED
    BY <1>1, <1>2, <1>3 DEF SkippedGiven

\* A visit finds the node exactly in the pass PassOf names.
LEMMA VisitFinds ==
    ASSUME GraphAndStore, NEW k \in Nat \ {0}, NEW i \in 1..NodeCount, NEW acc, FoundSoFar(acc, k, i - 1)
    PROVE  LET n == graph.order[i]
           IN  (~Decided(acc, n) /\ ~Blocked(acc, n))
                  <=> Found[n] = k /\ n \in Skips(graph, store) \cup Ready(graph, store)
<1> DEFINE n == graph.order[i]
           S == Skips(graph, store)
           R == Ready(graph, store)
           late(x) == IF DeclaredBefore(graph, x, n) THEN 0 ELSE 1
<1>1. /\ n \in Nodes /\ Found[n] \in Nat
      /\ FoundBy(n, k, i - 1) => Found[n] < k
      /\ \A m \in Nodes : FoundBy(m, k, i - 1) /\ ~(Found[m] < k) => Found[m] = k /\ DeclaredBefore(graph, m, n)
      /\ \A m \in Nodes : Found[m] = k /\ DeclaredBefore(graph, m, n) => FoundBy(m, k, i - 1)
    BY Positions
<1>2. /\ n \in S \cup R <=> /\ n \notin Settled(store) \cup Held(store)
                            /\ Sources(graph, n) \subseteq Settled(store) \cup S
      /\ n \notin S \cap R
    BY <1>1, WhatIsFound
<1>3. /\ acc.settled = Settled(store) \cup {m \in S : FoundBy(m, k, i - 1)}
      /\ ToSet(acc.ready) = {m \in R : FoundBy(m, k, i - 1)}
    BY DEF FoundSoFar
<1>4. /\ Found[n] >= 1
      /\ \A x \in Sources(graph, n) \cap S : Found[n] >= Found[x] + late(x)
      /\ \/ Found[n] = 1
         \/ \E x \in Sources(graph, n) \cap S : Found[n] = Found[x] + late(x)
    <2> HIDE DEF n
    <2> QED
        BY <1>1, PassSolves DEF GraphAndStore, Found, Nodes
<1>5. Sources(graph, n) \subseteq Nodes /\ \A x \in Nodes : Found[x] \in Nat
    <2>1. Sources(graph, n) \subseteq Nodes
        BY GraphEnds DEF GraphAndStore, Nodes
    <2>2. \A x \in Nodes : Found[x] \in Nat
        BY PassSolves DEF GraphAndStore, Found, Nodes
    <2> QED
        BY <2>1, <2>2
<1>6. Decided(acc, n) <=> \/ n \in Settled(store) \cup Held(store)
                          \/ n \in S \cup R /\ FoundBy(n, k, i - 1)
    BY <1>3 DEF Decided
<1>7. Blocked(acc, n) <=> ~(Sources(graph, n) \subseteq Settled(store) \cup {m \in S : FoundBy(m, k, i - 1)})
    BY <1>3 DEF Blocked
<1>8. \A x \in S : x \notin Settled(store)
    BY SkipsAreFixed DEF SkippedGiven, Settled, SETTLED
<1> HIDE DEF n, S, R, late
<1>9. ASSUME ~Decided(acc, n), ~Blocked(acc, n)
      PROVE  Found[n] = k /\ n \in S \cup R
    <2>1. n \in S \cup R
        BY <1>2, <1>6, <1>7, <1>9
    <2>2. ~FoundBy(n, k, i - 1)
        BY <1>6, <1>9, <2>1
    <2>3. ~(Found[n] < k)
        BY <2>2 DEF FoundBy
    <2>4. ASSUME NEW x \in Sources(graph, n) \cap S
          PROVE  Found[x] + late(x) <= k
        <3>1. FoundBy(x, k, i - 1) /\ x \in Nodes /\ Found[x] \in Nat
            BY <1>5, <1>7, <1>8, <1>9
        <3>2. CASE Found[x] < k
            BY <3>1, <3>2 DEF late
        <3>3. CASE ~(Found[x] < k)
            <4>1. Found[x] = k /\ late(x) = 0
                BY <1>1, <3>1, <3>3 DEF late
            <4> QED
                BY <4>1
        <3> QED
            BY <3>2, <3>3
    <2>5. Found[n] <= k
        BY <1>4, <2>4
    <2>6. Found[n] = k
        BY <1>1, <2>3, <2>5
    <2> QED
        BY <2>1, <2>6
<1>10. ASSUME Found[n] = k, n \in S \cup R
       PROVE  ~Decided(acc, n) /\ ~Blocked(acc, n)
    <2>1. ~FoundBy(n, k, i - 1)
        BY <1>1, <1>10
    <2>2. ~Decided(acc, n)
        BY <1>2, <1>6, <1>10, <2>1
    <2>3. ASSUME NEW x \in Sources(graph, n), x \notin Settled(store)
          PROVE  x \in S /\ FoundBy(x, k, i - 1)
        <3>1. x \in S /\ x \in Nodes /\ Found[x] \in Nat
            BY <1>2, <1>5, <1>10, <2>3
        <3>2. k >= Found[x] + late(x)
            BY <1>4, <1>10, <3>1
        <3>3. CASE late(x) = 0
            <4>1. DeclaredBefore(graph, x, n) /\ (Found[x] < k \/ Found[x] = k)
                BY <3>1, <3>2, <3>3 DEF late
            <4> QED
                BY <1>1, <3>1, <4>1 DEF FoundBy
        <3>4. CASE late(x) = 1
            <4>1. Found[x] < k
                BY <3>1, <3>2, <3>4
            <4> QED
                BY <3>1, <4>1 DEF FoundBy
        <3> QED
            BY <3>3, <3>4 DEF late
    <2> QED
        BY <1>7, <2>2, <2>3
<1>11. (~Decided(acc, n) /\ ~Blocked(acc, n)) <=> Found[n] = k /\ n \in S \cup R
    BY <1>9, <1>10
<1> QED
    BY <1>11 DEF n, S, R

LEMMA VisitType ==
    ASSUME NEW acc \in Accs, NEW n \in Nodes
    PROVE  Visit(acc, n) \in Accs
<1>1. /\ acc = [settled |-> acc.settled, ready |-> acc.ready, skipped |-> acc.skipped, changed |-> acc.changed]
      /\ acc.settled \in SUBSET Nodes /\ acc.ready \in Seq(Nodes) /\ acc.skipped \in Seq(Nodes)
      /\ acc.changed \in BOOLEAN
    BY DEF Accs
<1>2. Append(acc.ready, n) \in Seq(Nodes) /\ Append(acc.skipped, n) \in Seq(Nodes)
    BY <1>1
<1>3. SettleSkipped(acc, n) \in Accs
    BY <1>1, <1>2 DEF SettleSkipped, Accs
<1>4. [acc EXCEPT !.ready = Append(@, n)] \in Accs
    BY <1>1, <1>2 DEF Accs
<1> QED
    BY <1>3, <1>4 DEF Visit

LEMMA AscendingAppend ==
    ASSUME GraphAndStore, NEW k \in Nat, NEW i \in 1..NodeCount, Found[graph.order[i]] = k,
           NEW s \in Seq(Nodes), Ascending(s), \A m \in ToSet(s) : FoundBy(m, k, i - 1)
    PROVE  Ascending(Append(s, graph.order[i]))
<1> DEFINE n == graph.order[i]
<1>1. /\ n \in Nodes
      /\ \A m \in Nodes : FoundBy(m, k, i - 1) /\ ~(Found[m] < k) => Found[m] = k /\ DeclaredBefore(graph, m, n)
    BY Positions
<1>2. ASSUME NEW m \in ToSet(s)
      PROVE  FoundBefore(m, n)
    <2>1. m \in Nodes /\ FoundBy(m, k, i - 1)
        BY DEF ToSet
    <2> QED
        BY <1>1, <2>1 DEF FoundBefore
<1> HIDE DEF n
<1>3. /\ \A a \in DOMAIN s : s[a] \in ToSet(s)
      /\ \A a, b \in DOMAIN Append(s, n) : a < b =>
            /\ a \in DOMAIN s /\ Append(s, n)[a] = s[a]
            /\ \/ b \in DOMAIN s /\ Append(s, n)[b] = s[b]
               \/ Append(s, n)[b] = n
    BY <1>1, Appending
<1>4. Ascending(Append(s, n))
    BY <1>2, <1>3 DEF Ascending
<1> QED
    BY <1>4 DEF n

\* A visit keeps the account, whichever way it goes.
LEMMA VisitKeeps ==
    ASSUME GraphAndStore, NEW k \in Nat \ {0}, NEW i \in 1..NodeCount, NEW acc,
           FoundSoFar(acc, k, i - 1), FlagIsRight(acc, k, i - 1)
    PROVE  /\ FoundSoFar(Visit(acc, graph.order[i]), k, i)
           /\ FlagIsRight(Visit(acc, graph.order[i]), k, i)
<1> DEFINE n == graph.order[i]
           S == Skips(graph, store)
           R == Ready(graph, store)
           next == Visit(acc, n)
<1>1. /\ n \in Nodes
      /\ \A m \in Nodes : FoundBy(m, k, i) <=> FoundBy(m, k, i - 1) \/ (m = n /\ Found[n] = k)
    BY Positions
<1>2. (~Decided(acc, n) /\ ~Blocked(acc, n)) <=> Found[n] = k /\ n \in S \cup R
    BY VisitFinds
<1>3. /\ n \notin S \cap R
      /\ n \in S => Dead(graph, store, n) \/ n \in graph.notes
      /\ n \in R => ~(Dead(graph, store, n) \/ n \in graph.notes)
    BY <1>1, WhatIsFound
<1>4. /\ acc \in Accs
      /\ ToSet(acc.ready) = {m \in R : FoundBy(m, k, i - 1)}
      /\ ToSet(acc.skipped) = {m \in S : FoundBy(m, k, i - 1)}
      /\ acc.settled = Settled(store) \cup ToSet(acc.skipped)
      /\ Ascending(acc.ready) /\ Ascending(acc.skipped)
      /\ acc.changed <=> \E m \in S : FoundBy(m, k, i - 1) /\ Found[m] = k
    BY DEF FoundSoFar, FlagIsRight
<1>5. /\ acc = [settled |-> acc.settled, ready |-> acc.ready, skipped |-> acc.skipped, changed |-> acc.changed]
      /\ acc.ready \in Seq(Nodes) /\ acc.skipped \in Seq(Nodes)
    BY <1>4 DEF Accs
<1>6. S \subseteq Nodes /\ R \subseteq Nodes
    BY SkipsAreFixed DEF Ready, Nodes
<1>7. next \in Accs
    BY <1>1, <1>4, VisitType
<1>12. Found[n] = k =>
          /\ \A s \in Seq(Nodes) : Ascending(s) /\ (\A m \in ToSet(s) : FoundBy(m, k, i - 1)) => Ascending(Append(s, n))
    BY AscendingAppend
<1>13. \A s \in Seq(Nodes) : ToSet(Append(s, n)) = ToSet(s) \cup {n}
    BY <1>1, Appending
<1> HIDE DEF n, S, R
<1>8. CASE Found[n] = k /\ n \in S
    <2>1. next = SettleSkipped(acc, n)
        BY <1>2, <1>3, <1>8 DEF Visit
    <2>2. /\ next.settled = acc.settled \cup {n} /\ next.skipped = Append(acc.skipped, n)
          /\ next.ready = acc.ready /\ next.changed = TRUE
        BY <1>5, <2>1 DEF SettleSkipped
    <2> HIDE DEF next
    <2>3. ToSet(next.ready) = {m \in R : FoundBy(m, k, i)}
        BY <1>1, <1>3, <1>4, <1>6, <1>8, <2>2
    <2>4. ToSet(next.skipped) = {m \in S : FoundBy(m, k, i)}
        BY <1>1, <1>4, <1>5, <1>6, <1>8, <1>13, <2>2
    <2>5. next.settled = Settled(store) \cup ToSet(next.skipped)
        BY <1>4, <1>5, <1>13, <2>2
    <2>6. Ascending(next.ready) /\ Ascending(next.skipped)
        BY <1>4, <1>5, <1>8, <1>12, <2>2
    <2>7. next.changed <=> \E m \in S : FoundBy(m, k, i) /\ Found[m] = k
        BY <1>1, <1>8, <2>2
    <2> QED
        BY <1>7, <2>3, <2>4, <2>5, <2>6, <2>7 DEF FoundSoFar, FlagIsRight, next, n, S, R
<1>9. CASE Found[n] = k /\ n \in R
    <2>1. next = [acc EXCEPT !.ready = Append(@, n)]
        BY <1>2, <1>3, <1>9 DEF Visit
    <2>2. /\ next.settled = acc.settled /\ next.skipped = acc.skipped
          /\ next.ready = Append(acc.ready, n) /\ next.changed = acc.changed
        BY <1>5, <2>1
    <2> HIDE DEF next
    <2>3. ToSet(next.ready) = {m \in R : FoundBy(m, k, i)}
        BY <1>1, <1>4, <1>5, <1>6, <1>9, <1>13, <2>2
    <2>4. ToSet(next.skipped) = {m \in S : FoundBy(m, k, i)}
        BY <1>1, <1>3, <1>4, <1>6, <1>9, <2>2
    <2>5. next.settled = Settled(store) \cup ToSet(next.skipped)
        BY <1>4, <2>2
    <2>6. Ascending(next.ready) /\ Ascending(next.skipped)
        BY <1>4, <1>5, <1>9, <1>12, <2>2
    <2>7. next.changed <=> \E m \in S : FoundBy(m, k, i) /\ Found[m] = k
        BY <1>1, <1>3, <1>4, <1>6, <1>9, <2>2
    <2> QED
        BY <1>7, <2>3, <2>4, <2>5, <2>6, <2>7 DEF FoundSoFar, FlagIsRight, next, n, S, R
<1>10. CASE ~(Found[n] = k /\ n \in S \cup R)
    <2>1. next = acc
        BY <1>2, <1>10 DEF Visit
    <2> HIDE DEF next
    <2>2. /\ {m \in R : FoundBy(m, k, i)} = {m \in R : FoundBy(m, k, i - 1)}
          /\ {m \in S : FoundBy(m, k, i)} = {m \in S : FoundBy(m, k, i - 1)}
        BY <1>1, <1>6, <1>10
    <2>3. next.changed <=> \E m \in S : FoundBy(m, k, i) /\ Found[m] = k
        BY <1>1, <1>4, <1>6, <1>10, <2>1
    <2> QED
        BY <1>4, <2>1, <2>2, <2>3 DEF FoundSoFar, FlagIsRight, next, n, S, R
<1> QED
    BY <1>8, <1>9, <1>10

\* A pass is its visits.
LEMMA PassVisits ==
    ASSUME GraphAndStore, NEW acc \in Accs
    PROVE  \E f \in [0..NodeCount -> Accs] :
              /\ f[0] = [acc EXCEPT !.changed = FALSE]
              /\ \A i \in 1..NodeCount : f[i] = Visit(f[i - 1], graph.order[i])
              /\ Pass(acc) = f[NodeCount]
<1> DEFINE first == [acc EXCEPT !.changed = FALSE]
           Rule(f, i) == IF i = 0 THEN first ELSE Visit(f[i - 1], graph.order[i])
           step == [i \in 1..NodeCount |-> [a \in Accs |-> Visit(a, graph.order[i])]]
           visited == CHOOSE f : f = [i \in 0..NodeCount |-> Rule(f, i)]
<1>1. NodeCount \in Nat /\ \A i \in 1..NodeCount : graph.order[i] \in Nodes
    BY GraphFinite DEF GraphAndStore, NodeCount, Nodes
<1>2. step \in [1..NodeCount -> [Accs -> Accs]]
    BY <1>1, VisitType
<1>3. first \in Accs
    BY DEF Accs
<1>4. \A i \in 1..NodeCount : \A a \in Accs : step[i][a] = Visit(a, graph.order[i])
    OBVIOUS
<1> HIDE DEF first, step
<1>5. PICK g \in [0..NodeCount -> Accs] :
          g[0] = first /\ \A i \in 1..NodeCount : g[i] = step[i][g[i - 1]]
    <2> DEFINE c == NodeCount
    <2>1. c \in Nat /\ step \in [1..c -> [Accs -> Accs]]
        BY <1>1, <1>2
    <2> HIDE DEF c, Rule, visited
    <2>3. \A A : \A a \in A : \A n \in Nat : \A st \in [1..n -> [A -> A]] :
              \E f \in [0..n -> A] : f[0] = a /\ \A i \in 1..n : f[i] = st[i][f[i - 1]]
        BY Iterates
    <2>4. \A st \in [1..c -> [Accs -> Accs]] :
              \E f \in [0..c -> Accs] : f[0] = first /\ \A i \in 1..c : f[i] = st[i][f[i - 1]]
        BY <1>3, <2>1, <2>3
    <2>2. \E g \in [0..c -> Accs] : g[0] = first /\ \A i \in 1..c : g[i] = step[i][g[i - 1]]
        BY <2>1, <2>4
    <2> QED
        BY <2>2 DEF c
<1>6. \A i \in 0..NodeCount : g[i] = Rule(g, i)
    <2>1. ASSUME NEW i \in 1..NodeCount
          PROVE  g[i] = Visit(g[i - 1], graph.order[i])
        <3>1. i - 1 \in 0..NodeCount
            BY <1>1
        <3> QED
            BY <1>4, <1>5, <3>1
    <2>2. \A i \in 0..NodeCount : i = 0 \/ (i # 0 /\ i \in 1..NodeCount)
        BY <1>1
    <2> QED
        BY <1>5, <2>1, <2>2
<1>7. Pass(acc) = visited[NodeCount]
    BY DEF Pass, first, NodeCount
<1> HIDE DEF Rule
<1>8. g = [i \in 0..NodeCount |-> Rule(g, i)]
    BY <1>6
<1>9. visited = [i \in 0..NodeCount |-> Rule(visited, i)]
    BY <1>8
<1> HIDE DEF visited
<1>10. /\ visited[0] = first
       /\ \A i \in 1..NodeCount : visited[i] = Visit(visited[i - 1], graph.order[i])
    <2>1. 0 \in 0..NodeCount /\ \A i \in 1..NodeCount : i \in 0..NodeCount /\ i # 0
        BY <1>1
    <2>2. \A i \in 0..NodeCount : visited[i] = Rule(visited, i)
        BY <1>9
    <2> QED
        BY <2>1, <2>2 DEF Rule
<1>11. \A i \in 0..NodeCount : visited[i] = g[i]
    <2> DEFINE T == {i \in 0..NodeCount : visited[i] # g[i]}
    <2>1. ASSUME NEW k \in T, \A m \in T : k <= m
          PROVE  FALSE
        <3>1. k \in 0..NodeCount /\ k \in Nat /\ visited[k] # g[k]
            BY <1>1
        <3>2. k # 0
            BY <1>5, <1>10, <3>1
        <3>3. k \in 1..NodeCount /\ k - 1 \in 0..NodeCount /\ ~(k <= k - 1)
            BY <1>1, <3>1, <3>2
        <3>4. visited[k - 1] = g[k - 1]
            BY <2>1, <3>3
        <3>5. g[k] = Visit(g[k - 1], graph.order[k])
            BY <1>6, <3>1, <3>2 DEF Rule
        <3> QED
            BY <1>10, <3>1, <3>3, <3>4, <3>5
    <2>2. T \in SUBSET Nat
        BY <1>1
    <2> HIDE DEF T
    <2>3. T = {}
        BY <2>1, <2>2, Least
    <2> QED
        BY <2>3 DEF T
<1>12. Pass(acc) = g[NodeCount] /\ \A i \in 1..NodeCount : g[i] = Visit(g[i - 1], graph.order[i])
    <2>1. NodeCount \in 0..NodeCount /\ \A i \in 1..NodeCount : i \in 0..NodeCount /\ i # 0
        BY <1>1
    <2> QED
        BY <1>6, <1>7, <1>11, <2>1 DEF Rule
<1> QED
    BY <1>5, <1>12 DEF first

\* A pass extends what the passes before it found by what is found in it.
LEMMA PassFinds ==
    ASSUME GraphAndStore, NEW k \in Nat, NEW acc, FoundSoFar(acc, k, NodeCount)
    PROVE  FoundSoFar(Pass(acc), k + 1, NodeCount) /\ FlagIsRight(Pass(acc), k + 1, NodeCount)
<1>1. /\ NodeCount \in Nat
      /\ \A i \in 1..NodeCount : graph.order[i] \in Nodes
      /\ \A n \in Nodes : Found[n] \in Nat /\ \E i \in 1..NodeCount : graph.order[i] = n
    BY GraphFinite, PassSolves DEF GraphAndStore, NodeCount, Nodes, Found
<1>2. acc \in Accs
    BY DEF FoundSoFar
<1>3. PICK f \in [0..NodeCount -> Accs] :
          /\ f[0] = [acc EXCEPT !.changed = FALSE]
          /\ \A i \in 1..NodeCount : f[i] = Visit(f[i - 1], graph.order[i])
          /\ Pass(acc) = f[NodeCount]
    BY <1>2, PassVisits
<1>4. FoundSoFar(f[0], k + 1, 0) /\ FlagIsRight(f[0], k + 1, 0)
    <2>1. /\ f[0] \in Accs /\ f[0].settled = acc.settled /\ f[0].ready = acc.ready
          /\ f[0].skipped = acc.skipped /\ f[0].changed = FALSE
        <3>1. acc = [settled |-> acc.settled, ready |-> acc.ready, skipped |-> acc.skipped, changed |-> acc.changed]
            BY <1>2 DEF Accs
        <3>2. 0 \in 0..NodeCount
            BY <1>1
        <3> QED
            BY <1>3, <3>1, <3>2
    <2>2. ASSUME NEW n \in Nodes
          PROVE  /\ FoundBy(n, k + 1, 0) <=> FoundBy(n, k, NodeCount)
                 /\ FoundBy(n, k + 1, 0) => Found[n] # k + 1
        <3>1. Found[n] \in Nat /\ 1..0 = {}
            BY <1>1
        <3>2. FoundBy(n, k + 1, 0) <=> Found[n] < k + 1
            BY <3>1 DEF FoundBy
        <3>3. FoundBy(n, k, NodeCount) <=> Found[n] < k \/ Found[n] = k
            BY <1>1 DEF FoundBy
        <3> QED
            BY <3>1, <3>2, <3>3
    <2>3. Skips(graph, store) \subseteq Nodes /\ Ready(graph, store) \subseteq Nodes
        BY SkipsAreFixed DEF Ready, Nodes
    <2>4. /\ {n \in Ready(graph, store) : FoundBy(n, k + 1, 0)} = {n \in Ready(graph, store) : FoundBy(n, k, NodeCount)}
          /\ {n \in Skips(graph, store) : FoundBy(n, k + 1, 0)} = {n \in Skips(graph, store) : FoundBy(n, k, NodeCount)}
          /\ ~\E n \in Skips(graph, store) : FoundBy(n, k + 1, 0) /\ Found[n] = k + 1
        BY <2>2, <2>3
    <2> QED
        BY <2>1, <2>4 DEF FoundSoFar, FlagIsRight
<1> DEFINE T == {i \in 0..NodeCount : ~(FoundSoFar(f[i], k + 1, i) /\ FlagIsRight(f[i], k + 1, i))}
<1>5. ASSUME NEW i \in T, \A m \in T : i <= m
      PROVE  FALSE
    <2>1. i \in 0..NodeCount /\ i \in Nat /\ i # 0
        BY <1>1, <1>4
    <2>2. i \in 1..NodeCount /\ i - 1 \in 0..NodeCount /\ ~(i <= i - 1) /\ k + 1 \in Nat \ {0}
        BY <1>1, <2>1
    <2>3. FoundSoFar(f[i - 1], k + 1, i - 1) /\ FlagIsRight(f[i - 1], k + 1, i - 1)
        BY <1>5, <2>2
    <2>4. FoundSoFar(f[i], k + 1, i) /\ FlagIsRight(f[i], k + 1, i)
        BY <1>3, <2>2, <2>3, VisitKeeps
    <2> QED
        BY <2>4
<1>6. T \in SUBSET Nat
    BY <1>1
<1>7. T = {}
    <2> HIDE DEF T
    <2> QED
        BY <1>5, <1>6, Least
<1>8. NodeCount \in 0..NodeCount
    BY <1>1
<1> QED
    BY <1>3, <1>7, <1>8

\* As long as the passes change something, each of them found a skip; the pass that
\* changed nothing found none.
LoopAccount(acc, k) ==
    \E j \in 0..k :
        /\ FoundSoFar(acc, j, NodeCount)
        /\ acc.changed => /\ j = k
                          /\ \A h \in 1..k : \E n \in Skips(graph, store) : Found[n] = h
        /\ ~acc.changed => j # 0 /\ \A n \in Skips(graph, store) : Found[n] # j

LEMMA LoopStarts ==
    ASSUME GraphAndStore
    PROVE  Start \in Accs /\ LoopAccount(Start, 0)
<1>1. \A n \in Nodes : Found[n] \in Nat /\ Found[n] >= 1
    BY PassSolves DEF GraphAndStore, Nodes, Found
<1>2. \A n \in Nodes : ~FoundBy(n, 0, NodeCount)
    BY <1>1 DEF FoundBy
<1>3. /\ Start.settled = Settled(store) /\ Start.ready = <<>> /\ Start.skipped = <<>> /\ Start.changed = TRUE
      /\ Start \in Accs
    BY DEF Start, Accs, GraphAndStore, Settled
<1>4. Skips(graph, store) \subseteq Nodes /\ Ready(graph, store) \subseteq Nodes
    BY SkipsAreFixed DEF Ready, Nodes
<1>5. ToSet(<<>>) = {} /\ Ascending(<<>>)
    BY DEF ToSet, Ascending
<1>6. FoundSoFar(Start, 0, NodeCount)
    BY <1>2, <1>3, <1>4, <1>5 DEF FoundSoFar
<1>7. 0 \in 0..0 /\ 1..0 = {}
    OBVIOUS
<1> QED
    BY <1>3, <1>6, <1>7 DEF LoopAccount

LEMMA LoopGoesOn ==
    ASSUME GraphAndStore, NEW k \in Nat, NEW acc, LoopAccount(acc, k)
    PROVE  LoopAccount(IF acc.changed THEN Pass(acc) ELSE acc, k + 1)
<1>1. PICK j \in 0..k :
        /\ FoundSoFar(acc, j, NodeCount)
        /\ acc.changed => /\ j = k
                          /\ \A h \in 1..k : \E n \in Skips(graph, store) : Found[n] = h
        /\ ~acc.changed => j # 0 /\ \A n \in Skips(graph, store) : Found[n] # j
    BY DEF LoopAccount
<1>2. j \in 0..k + 1 /\ k + 1 \in 0..k + 1 /\ k + 1 # 0
    OBVIOUS
<1>3. CASE ~acc.changed
    BY <1>1, <1>2, <1>3 DEF LoopAccount
<1>4. CASE acc.changed
    <2>1. FoundSoFar(Pass(acc), k + 1, NodeCount) /\ FlagIsRight(Pass(acc), k + 1, NodeCount)
        BY <1>1, <1>4, PassFinds
    <2>2. \A n \in Skips(graph, store) : Found[n] = k + 1 => FoundBy(n, k + 1, NodeCount)
        BY SkipsAreFixed, GraphFinite DEF FoundBy, GraphAndStore, NodeCount
    <2>3. Pass(acc).changed <=> \E n \in Skips(graph, store) : Found[n] = k + 1
        BY <2>1, <2>2 DEF FlagIsRight
    <2>4. \A h \in 1..k + 1 : h \in 1..k \/ h = k + 1
        OBVIOUS
    <2>5. Pass(acc).changed => \A h \in 1..k + 1 : \E n \in Skips(graph, store) : Found[n] = h
        BY <1>1, <1>4, <2>3, <2>4
    <2>6. ~Pass(acc).changed => \A n \in Skips(graph, store) : Found[n] # k + 1
        BY <2>3
    <2> HIDE DEF Pass
    <2>7. LoopAccount(Pass(acc), k + 1)
        BY <1>2, <2>1, <2>5, <2>6 DEF LoopAccount
    <2> QED
        BY <1>4, <2>7
<1> QED
    BY <1>3, <1>4

LEMMA PassType ==
    ASSUME GraphAndStore, NEW acc \in Accs
    PROVE  Pass(acc) \in Accs
<1>1. NodeCount \in 0..NodeCount
    BY GraphFinite DEF GraphAndStore, NodeCount
<1>2. \E f \in [0..NodeCount -> Accs] : Pass(acc) = f[NodeCount]
    BY PassVisits
<1> QED
    BY <1>1, <1>2

\* The loop is its passes.
LEMMA LoopPasses ==
    ASSUME GraphAndStore
    PROVE  \E f \in [0..NodeCount + 1 -> Accs] :
              /\ f[0] = Start
              /\ \A k \in 1..NodeCount + 1 :
                    f[k] = IF f[k - 1].changed THEN Pass(f[k - 1]) ELSE f[k - 1]
              /\ FrontierLoop = f[NodeCount + 1]
<1> DEFINE c == NodeCount + 1
           After(acc) == IF acc.changed THEN Pass(acc) ELSE acc
           Rule(f, k) == IF k = 0 THEN Start ELSE After(f[k - 1])
           step == [k \in 1..c |-> [a \in Accs |-> After(a)]]
           passes == CHOOSE f : f = [k \in 0..c |-> Rule(f, k)]
<1>1. c \in Nat /\ c # 0
    BY GraphFinite DEF GraphAndStore, NodeCount
<1>2. \A a \in Accs : After(a) \in Accs
    BY PassType
<1>3. FrontierLoop = passes[c]
    BY DEF FrontierLoop, NodeCount
<1> HIDE DEF After, c
<1>4. step \in [1..c -> [Accs -> Accs]] /\ \A k \in 1..c : \A a \in Accs : step[k][a] = After(a)
    BY <1>2
<1>5. Start \in Accs
    BY LoopStarts
<1> HIDE DEF step
<1>6. PICK g \in [0..c -> Accs] :
          g[0] = Start /\ \A k \in 1..c : g[k] = step[k][g[k - 1]]
    <2> HIDE DEF Rule, passes
    <2>1. \A A : \A a \in A : \A n \in Nat : \A st \in [1..n -> [A -> A]] :
              \E f \in [0..n -> A] : f[0] = a /\ \A i \in 1..n : f[i] = st[i][f[i - 1]]
        BY Iterates
    <2>4. c \in Nat
        BY <1>1
    <2>2. \A st \in [1..c -> [Accs -> Accs]] :
              \E f \in [0..c -> Accs] : f[0] = Start /\ \A i \in 1..c : f[i] = st[i][f[i - 1]]
        BY <1>5, <2>1, <2>4
    <2>3. \E g \in [0..c -> Accs] : g[0] = Start /\ \A i \in 1..c : g[i] = step[i][g[i - 1]]
        BY <1>4, <2>2
    <2> QED
        BY <2>3
<1>7. \A k \in 1..c : g[k] = After(g[k - 1])
    <2>1. ASSUME NEW k \in 1..c
          PROVE  k - 1 \in 0..c
        BY <1>1
    <2> QED
        BY <1>4, <1>6, <2>1
<1>8. \A k \in 0..c : g[k] = Rule(g, k)
    <2>1. \A k \in 0..c : k = 0 \/ (k # 0 /\ k \in 1..c)
        BY <1>1
    <2> QED
        BY <1>6, <1>7, <2>1
<1> HIDE DEF Rule
<1>9. g = [k \in 0..c |-> Rule(g, k)]
    BY <1>8
<1>10. passes = [k \in 0..c |-> Rule(passes, k)]
    BY <1>9
<1> HIDE DEF passes
<1>11. passes[0] = Start /\ \A k \in 1..c : passes[k] = After(passes[k - 1])
    <2>1. 0 \in 0..c /\ \A k \in 1..c : k \in 0..c /\ k # 0
        BY <1>1
    <2>2. \A k \in 0..c : passes[k] = Rule(passes, k)
        BY <1>10
    <2> QED
        BY <2>1, <2>2 DEF Rule
<1>12. \A k \in 0..c : passes[k] = g[k]
    <2> DEFINE T == {k \in 0..c : passes[k] # g[k]}
    <2>1. ASSUME NEW k \in T, \A m \in T : k <= m
          PROVE  FALSE
        <3>1. k \in 0..c /\ k \in Nat /\ passes[k] # g[k]
            BY <1>1
        <3>2. k # 0
            BY <1>6, <1>11, <3>1
        <3>3. k \in 1..c /\ k - 1 \in 0..c /\ ~(k <= k - 1)
            BY <1>1, <3>1, <3>2
        <3>4. passes[k - 1] = g[k - 1]
            BY <2>1, <3>3
        <3> QED
            BY <1>7, <1>11, <3>1, <3>3, <3>4
    <2>2. T \in SUBSET Nat
        BY <1>1
    <2> HIDE DEF T
    <2>3. T = {}
        BY <2>1, <2>2, Least
    <2> QED
        BY <2>3 DEF T
<1>13. FrontierLoop = g[c]
    <2>1. c \in 0..c
        BY <1>1
    <2> QED
        BY <1>3, <1>12, <2>1
<1> QED
    BY <1>6, <1>7, <1>13 DEF c, After

\* The account of the whole loop.
LEMMA LoopHolds ==
    ASSUME GraphAndStore
    PROVE  FrontierLoop \in Accs /\ LoopAccount(FrontierLoop, NodeCount + 1)
<1> DEFINE c == NodeCount + 1
<1>1. PICK f \in [0..c -> Accs] :
          /\ f[0] = Start
          /\ \A k \in 1..c : f[k] = IF f[k - 1].changed THEN Pass(f[k - 1]) ELSE f[k - 1]
          /\ FrontierLoop = f[c]
    BY LoopPasses
<1>2. c \in Nat
    BY GraphFinite DEF GraphAndStore, NodeCount
<1> DEFINE T == {k \in 0..c : ~LoopAccount(f[k], k)}
<1> HIDE DEF c
<1>3. ASSUME NEW k \in T, \A m \in T : k <= m
      PROVE  FALSE
    <2>1. k \in 0..c /\ k \in Nat /\ ~LoopAccount(f[k], k)
        BY <1>2
    <2>2. k # 0
        BY <1>1, <2>1, LoopStarts
    <2>3. k \in 1..c /\ k - 1 \in 0..c /\ k - 1 \in Nat /\ ~(k <= k - 1) /\ (k - 1) + 1 = k
        BY <1>2, <2>1, <2>2
    <2>4. LoopAccount(f[k - 1], k - 1)
        BY <1>3, <2>3
    <2>5. LoopAccount(f[k], (k - 1) + 1)
        BY <1>1, <2>3, <2>4, LoopGoesOn
    <2> QED
        BY <2>1, <2>3, <2>5
<1>4. T \in SUBSET Nat
    BY <1>2
<1>5. T = {}
    <2> HIDE DEF T
    <2> QED
        BY <1>3, <1>4, Least
<1>6. c \in 0..c
    BY <1>2
<1>7. f[c] \in Accs /\ LoopAccount(f[c], c)
    BY <1>5, <1>6
<1> QED
    BY <1>1, <1>7 DEF c

-----------------------------------------------------------------------------
(* What the loop ends with *)

\* One pass more than there are nodes is enough: the passes that changed something
\* each skipped a node of their own.
LEMMA LoopStops ==
    ASSUME GraphAndStore
    PROVE  ~FrontierLoop.changed
<1> DEFINE c == NodeCount + 1
           Says(h, i) == Found[graph.order[i]] = h
           at == [h \in 1..c |-> CHOOSE i \in 1..NodeCount : Says(h, i)]
<1>1. /\ NodeCount \in Nat
      /\ \A n \in Nodes : \E i \in 1..NodeCount : graph.order[i] = n
    BY GraphFinite DEF GraphAndStore, NodeCount, Nodes
<1>2. SUFFICES ASSUME FrontierLoop.changed
               PROVE  FALSE
    OBVIOUS
<1>3. \A h \in 1..c : \E n \in Skips(graph, store) : Found[n] = h
    <2> DEFINE f == FrontierLoop
    <2>1. LoopAccount(f, c) /\ f.changed
        BY <1>2, LoopHolds
    <2> HIDE DEF f
    <2> QED
        BY <2>1 DEF LoopAccount
<1>4. \A h \in 1..c : \E i \in 1..NodeCount : Says(h, i)
    <2>1. Skips(graph, store) \subseteq Nodes
        BY SkipsAreFixed DEF Nodes
    <2> QED
        BY <1>1, <1>3, <2>1
<1> HIDE DEF Says
<1>5. at \in [1..c -> 1..NodeCount] /\ \A h \in 1..c : Says(h, at[h])
    BY <1>4
<1> HIDE DEF at
<1>6. /\ IsFiniteSet(1..c) /\ Cardinality(1..c) = c
      /\ IsFiniteSet(1..NodeCount) /\ Cardinality(1..NodeCount) = NodeCount
    <2>1. \A a, b \in Int : IsFiniteSet(a..b) /\ Cardinality(a..b) = IF a > b THEN 0 ELSE b - a + 1
        BY FS_Interval
    <2>2. 1 \in Int /\ c \in Int /\ NodeCount \in Int
        BY <1>1
    <2> HIDE DEF c
    <2>3. /\ IsFiniteSet(1..c) /\ Cardinality(1..c) = IF 1 > c THEN 0 ELSE c - 1 + 1
          /\ IsFiniteSet(1..NodeCount)
          /\ Cardinality(1..NodeCount) = IF 1 > NodeCount THEN 0 ELSE NodeCount - 1 + 1
        BY <2>1, <2>2
    <2> QED
        BY <1>1, <2>3 DEF c
<1>7. Cardinality(1..NodeCount) < Cardinality(1..c)
    BY <1>1, <1>6
<1> HIDE DEF c
<1>8. \E x, y \in 1..c : x # y /\ at[x] = at[y]
    BY <1>5, <1>6, <1>7, FS_PigeonHole
<1> QED
    BY <1>5, <1>8 DEF Says

\* The loop has found every node, in the order of the visits.
LEMMA LoopFinds ==
    ASSUME GraphAndStore
    PROVE  /\ FrontierLoop \in Accs /\ ~FrontierLoop.changed
           /\ ToSet(FrontierLoop.ready) = Ready(graph, store)
           /\ ToSet(FrontierLoop.skipped) = Skips(graph, store)
           /\ Ascending(FrontierLoop.ready) /\ Ascending(FrontierLoop.skipped)
<1> DEFINE f == FrontierLoop
<1>1. f \in Accs /\ ~f.changed /\ LoopAccount(f, NodeCount + 1)
    BY LoopHolds, LoopStops
<1> HIDE DEF f
<1>2. PICK j \in 0..NodeCount + 1 : FoundSoFar(f, j, NodeCount) /\ j # 0
                                    /\ \A n \in Skips(graph, store) : Found[n] # j
    BY <1>1 DEF LoopAccount
<1>3. /\ NodeCount \in Nat /\ j \in Nat /\ j >= 1
      /\ \A n \in Nodes : \E i \in 1..NodeCount : graph.order[i] = n
    BY <1>2, GraphFinite DEF GraphAndStore, NodeCount, Nodes
<1>4. \A n \in Nodes : Found[n] \in Nat
    BY PassSolves DEF GraphAndStore, Nodes, Found
<1> DEFINE T == {n \in Nodes : Found[n] > j}
<1>5. T = {}
    <2>1. SUFFICES ASSUME T # {}
                   PROVE  FALSE
        OBVIOUS
    <2>2. PICK x \in T : Sources(graph, x) \cap T = {}
        <3>1. T \in SUBSET NodesOf(graph)
            BY DEF Nodes
        <3> HIDE DEF T
        <3> QED
            BY <2>1, <3>1, FirstOfASet DEF GraphAndStore
    <2>3. x \in Nodes /\ Found[x] > j /\ Found[x] \in Nat
        BY <1>4, <2>2
    <2> DEFINE late(y) == IF DeclaredBefore(graph, y, x) THEN 0 ELSE 1
    <2>4. \/ Found[x] = 1
          \/ \E y \in Sources(graph, x) \cap Skips(graph, store) : Found[x] = Found[y] + late(y)
        BY <2>3, PassSolves DEF GraphAndStore, Nodes, Found
    <2>5. PICK y \in Sources(graph, x) \cap Skips(graph, store) : Found[x] = Found[y] + late(y)
        BY <1>3, <2>3, <2>4
    <2>6. y \in Nodes
        BY SkipsAreFixed DEF Nodes
    <2>7. ~(Found[y] > j) /\ Found[y] # j /\ Found[y] \in Nat
        BY <1>2, <1>4, <2>2, <2>6
    <2>8. late(y) \in 0..1
        OBVIOUS
    <2> HIDE DEF late
    <2> QED
        BY <1>3, <2>3, <2>5, <2>7, <2>8
<1>6. \A n \in Nodes : FoundBy(n, j, NodeCount)
    <2>1. \A n \in Nodes : ~(Found[n] > j)
        BY <1>5
    <2>2. \A n \in Nodes : Found[n] < j \/ Found[n] = j
        BY <1>3, <1>4, <2>1
    <2> QED
        BY <1>3, <2>2 DEF FoundBy
<1>7. Skips(graph, store) \subseteq Nodes /\ Ready(graph, store) \subseteq Nodes
    BY SkipsAreFixed DEF Ready, Nodes
<1>8. /\ ToSet(f.ready) = Ready(graph, store) /\ ToSet(f.skipped) = Skips(graph, store)
      /\ Ascending(f.ready) /\ Ascending(f.skipped)
    BY <1>2, <1>6, <1>7 DEF FoundSoFar
<1> QED
    BY <1>1, <1>8 DEF f

LEMMA FoundBeforeIsStrict ==
    ASSUME GraphAndStore, NEW m \in Nodes, NEW n \in Nodes, FoundBefore(m, n)
    PROVE  m # n /\ ~FoundBefore(n, m)
<1>1. Found[m] \in Nat /\ Found[n] \in Nat
    BY PassSolves DEF GraphAndStore, Nodes, Found
<1>2. DeclaredBefore(graph, m, n) => m # n /\ ~DeclaredBefore(graph, n, m)
    BY DeclaredOrder DEF GraphAndStore, Nodes
<1> QED
    BY <1>1, <1>2 DEF FoundBefore

LEMMA AscendingListsOnce ==
    ASSUME GraphAndStore, NEW s \in Seq(Nodes), Ascending(s)
    PROVE  /\ \A a, b \in 1..Len(s) : s[a] = s[b] => a = b
           /\ \A a, b \in 1..Len(s) : FoundBefore(s[a], s[b]) <=> a < b
<1>1. Len(s) \in Nat /\ DOMAIN s = 1..Len(s) /\ \A a \in 1..Len(s) : s[a] \in Nodes
    OBVIOUS
<1>2. \A a, b \in 1..Len(s) : a < b => FoundBefore(s[a], s[b])
    BY <1>1 DEF Ascending
<1>3. \A m, n \in Nodes : FoundBefore(m, n) => m # n /\ ~FoundBefore(n, m)
    BY FoundBeforeIsStrict
<1>4. \A a, b \in 1..Len(s) : a < b \/ a = b \/ b < a
    BY <1>1
<1>5. \A a, b \in 1..Len(s) : a < b => s[a] # s[b] /\ ~FoundBefore(s[b], s[a])
    BY <1>1, <1>2, <1>3
<1>6. \A a \in 1..Len(s) : ~FoundBefore(s[a], s[a])
    BY <1>1, <1>3
<1>7. \A a, b \in 1..Len(s) : s[a] = s[b] => a = b
    BY <1>4, <1>5
<1>8. ASSUME NEW a \in 1..Len(s), NEW b \in 1..Len(s), FoundBefore(s[a], s[b])
      PROVE  a < b
    BY <1>4, <1>5, <1>6, <1>8
<1> QED
    BY <1>2, <1>7, <1>8

\* A node stands in the list where ReadyIndex says.
LEMMA ListedAtItsIndex ==
    ASSUME GraphAndStore, NEW s \in Seq(Nodes), Ascending(s), ToSet(s) = Ready(graph, store),
           NEW i \in DOMAIN s
    PROVE  ReadyIndex(graph, store)[s[i]] = i - 1
<1> DEFINE n == s[i]
           Earlier == {m \in Ready(graph, store) : FoundBefore(m, n)}
           at == [a \in 1..i - 1 |-> s[a]]
<1>1. /\ Len(s) \in Nat /\ DOMAIN s = 1..Len(s) /\ i \in 1..Len(s)
      /\ \A a \in 1..i - 1 : a \in 1..Len(s) /\ a < i
      /\ \A a \in 1..Len(s) : a < i => a \in 1..i - 1
    OBVIOUS
<1>2. /\ \A a, b \in 1..Len(s) : s[a] = s[b] => a = b
      /\ \A a, b \in 1..Len(s) : FoundBefore(s[a], s[b]) <=> a < b
    BY AscendingListsOnce
<1>3. n \in Ready(graph, store) /\ \A m \in Ready(graph, store) : \E a \in 1..Len(s) : s[a] = m
    BY <1>1 DEF ToSet
<1>4. \A a \in 1..Len(s) : s[a] \in Ready(graph, store)
    BY <1>1 DEF ToSet
<1>5. ReadyIndex(graph, store)[n] = Cardinality(Earlier)
    <2> HIDE DEF n
    <2>1. ReadyIndex(graph, store)[n] = Cardinality({m \in Ready(graph, store) :
              \/ PassOf(graph, store)[m] < PassOf(graph, store)[n]
              \/ PassOf(graph, store)[m] = PassOf(graph, store)[n] /\ DeclaredBefore(graph, m, n)})
        BY <1>3 DEF ReadyIndex
    <2> QED
        BY <2>1 DEF FoundBefore, Found
<1>6. \A a \in 1..i - 1 : at[a] \in Earlier
    BY <1>1, <1>2, <1>4
<1>7. \A m \in Earlier : \E a \in 1..i - 1 : at[a] = m
    BY <1>1, <1>2, <1>3
<1>8. \A a, b \in 1..i - 1 : at[a] = at[b] => a = b
    BY <1>1, <1>2
<1>9. at \in [1..i - 1 -> Earlier]
    BY <1>6
<1> HIDE DEF at, Earlier, n
<1>10. at \in Bijection(1..i - 1, Earlier)
    BY <1>7, <1>8, <1>9 DEF Bijection, Injection, Surjection, IsInjective
<1>11. IsFiniteSet(1..i - 1) /\ Cardinality(1..i - 1) = i - 1
    <2>1. \A a, b \in Int : IsFiniteSet(a..b) /\ Cardinality(a..b) = IF a > b THEN 0 ELSE b - a + 1
        BY FS_Interval
    <2>2. 1 \in Int /\ i - 1 \in Int /\ i - 1 >= 0
        BY <1>1
    <2>3. IsFiniteSet(1..i - 1) /\ Cardinality(1..i - 1) = IF 1 > i - 1 THEN 0 ELSE i - 1 - 1 + 1
        BY <2>1, <2>2
    <2> QED
        BY <2>2, <2>3
<1>12. Cardinality(Earlier) = i - 1
    BY <1>10, <1>11, FS_Bijection DEF ExistsBijection
<1> QED
    BY <1>5, <1>12 DEF n

LEMMA TheLoopFindsTheFrontier ==
    ASSUME GraphAndStore
    PROVE  LoopFindsTheFrontier
<1> DEFINE f == FrontierLoop
           r == f.ready
           k == f.skipped
<1>1. /\ f \in Accs /\ ~f.changed
      /\ ToSet(r) = Ready(graph, store) /\ ToSet(k) = Skips(graph, store)
      /\ Ascending(r) /\ Ascending(k)
    BY LoopFinds
<1>2. r \in Seq(Nodes) /\ k \in Seq(Nodes)
    BY <1>1 DEF Accs
<1>3. \A i \in DOMAIN r : ReadyIndex(graph, store)[r[i]] = i - 1
    <2> HIDE DEF f, r
    <2> QED
        BY <1>1, <1>2, ListedAtItsIndex
<1>4. NoDuplicates(r \o k)
    <2> HIDE DEF f, r, k
    <2>1. /\ Len(r) \in Nat /\ Len(k) \in Nat /\ DOMAIN r = 1..Len(r) /\ DOMAIN k = 1..Len(k)
          /\ DOMAIN (r \o k) = 1..Len(r) + Len(k)
          /\ \A i \in 1..Len(r) : (r \o k)[i] = r[i]
          /\ \A i \in 1..Len(k) : (r \o k)[Len(r) + i] = k[i]
        BY <1>2
    <2>2. \A i, j \in 1..Len(r) : r[i] = r[j] => i = j
        BY <1>1, <1>2, AscendingListsOnce
    <2>3. \A i, j \in 1..Len(k) : k[i] = k[j] => i = j
        BY <1>1, <1>2, AscendingListsOnce
    <2>4. \A i \in 1..Len(r) : r[i] \in Ready(graph, store)
        BY <1>1, <2>1 DEF ToSet
    <2>5. \A i \in 1..Len(k) : k[i] \in Skips(graph, store)
        BY <1>1, <2>1 DEF ToSet
    <2>6. \A i \in 1..Len(r), j \in 1..Len(k) : r[i] # k[j]
        BY <2>4, <2>5 DEF Ready
    <2>7. \A i \in 1..Len(r) + Len(k) : i \in 1..Len(r) \/ \E j \in 1..Len(k) : i = Len(r) + j
        <3>1. ASSUME NEW i \in 1..Len(r) + Len(k), i \notin 1..Len(r)
              PROVE  i - Len(r) \in 1..Len(k) /\ i = Len(r) + (i - Len(r))
            BY <2>1, <3>1
        <3> QED
            BY <3>1
    <2>8. ASSUME NEW i \in DOMAIN (r \o k), NEW j \in DOMAIN (r \o k), (r \o k)[i] = (r \o k)[j]
          PROVE  i = j
        <3>1. CASE i \in 1..Len(r) /\ j \in 1..Len(r)
            BY <2>1, <2>2, <2>8, <3>1
        <3>2. CASE i \in 1..Len(r) /\ \E b \in 1..Len(k) : j = Len(r) + b
            BY <2>1, <2>6, <2>8, <3>2
        <3>3. CASE j \in 1..Len(r) /\ \E a \in 1..Len(k) : i = Len(r) + a
            BY <2>1, <2>6, <2>8, <3>3
        <3>4. CASE /\ \E a \in 1..Len(k) : i = Len(r) + a
                   /\ \E b \in 1..Len(k) : j = Len(r) + b
            <4>1. PICK a \in 1..Len(k), b \in 1..Len(k) : i = Len(r) + a /\ j = Len(r) + b
                BY <3>4
            <4>2. k[a] = k[b]
                BY <2>1, <2>8, <4>1
            <4> QED
                BY <2>3, <4>1, <4>2
        <3> QED
            BY <2>1, <2>7, <3>1, <3>2, <3>3, <3>4
    <2> QED
        BY <2>8 DEF NoDuplicates
<1> QED
    BY <1>1, <1>3, <1>4 DEF LoopFindsTheFrontier

LEMMA TheCascadeIsOrdered ==
    ASSUME GraphAndStore
    PROVE  CascadeSettlesSourcesFirst
<1> DEFINE k == FrontierLoop.skipped
<1>1. k \in Seq(Nodes) /\ ToSet(k) = Skips(graph, store) /\ Ascending(k)
    BY LoopFinds DEF Accs
<1> HIDE DEF k
<1>2. /\ Len(k) \in Nat /\ DOMAIN k = 1..Len(k)
      /\ \A a \in 1..Len(k) : k[a] \in Nodes /\ k[a] \in Skips(graph, store)
      /\ \A m \in Skips(graph, store) : \E a \in 1..Len(k) : k[a] = m
    BY <1>1 DEF ToSet
<1>3. ASSUME NEW i \in 1..Len(k), NEW x \in Sources(graph, k[i]), x \notin Settled(store)
      PROVE  \E j \in 1..Len(k) : j < i /\ k[j] = x
    <2> DEFINE n == k[i]
               late == IF DeclaredBefore(graph, x, n) THEN 0 ELSE 1
    <2>1. n \in Nodes /\ n \in Skips(graph, store)
        BY <1>2
    <2> HIDE DEF n
    <2>2. x \in Skips(graph, store) /\ x \in Nodes
        <3>1. SkippedGiven(graph, store, Skips(graph, store), n)
            BY <2>1, SkipsAreFixed
        <3>2. x \in Sources(graph, n)
            BY <1>3 DEF n
        <3>3. Skips(graph, store) \subseteq Nodes
            BY SkipsAreFixed DEF Nodes
        <3> QED
            BY <1>3, <3>1, <3>2, <3>3 DEF SkippedGiven
    <2>3. Found[n] \in Nat /\ Found[x] \in Nat /\ Found[n] >= Found[x] + late
        <3>1. x \in Sources(graph, n) \cap Skips(graph, store)
            BY <1>3, <2>2 DEF n
        <3> QED
            BY <2>1, <2>2, <3>1, PassSolves DEF GraphAndStore, Nodes, Found
    <2>4. DeclaredBefore(graph, x, n) \/ late = 1
        OBVIOUS
    <2>5. late \in 0..1
        OBVIOUS
    <2> HIDE DEF late
    <2>6. FoundBefore(x, n)
        <3>1. CASE late = 1
            BY <2>3, <3>1 DEF FoundBefore
        <3>2. CASE DeclaredBefore(graph, x, n)
            <4>1. Found[x] < Found[n] \/ Found[x] = Found[n]
                BY <2>3, <2>5
            <4> QED
                BY <3>2, <4>1 DEF FoundBefore
        <3> QED
            BY <2>4, <3>1, <3>2
    <2>7. PICK j \in 1..Len(k) : k[j] = x
        BY <1>2, <2>2
    <2>8. \A a, b \in 1..Len(k) : FoundBefore(k[a], k[b]) <=> a < b
        BY <1>1, AscendingListsOnce
    <2> QED
        BY <2>6, <2>7, <2>8 DEF n
<1>4. ASSUME NEW i \in DOMAIN k
      PROVE  Sources(graph, k[i]) \subseteq Settled(store) \cup {k[j] : j \in {a \in DOMAIN k : a < i}}
    BY <1>2, <1>3
<1> QED
    BY <1>4 DEF CascadeSettlesSourcesFirst, k

LEMMA ForwardEdgesKeepTheOrder ==
    ASSUME GraphAndStore
    PROVE  ReadyInOrderWhenDeclaredTopologically
<1> DEFINE r == FrontierLoop.ready
<1>1. r \in Seq(Nodes) /\ Ascending(r)
    BY LoopFinds DEF Accs
<1> HIDE DEF r
<1>2. SUFFICES ASSUME DeclaredTopologically(graph)
               PROVE  InDeclarationOrder(graph, r)
    BY DEF ReadyInOrderWhenDeclaredTopologically, r
<1>3. \A n \in Nodes : Found[n] = 1
    BY <1>2, OnePass DEF GraphAndStore, Nodes, Found
<1>4. \A i \in DOMAIN r : r[i] \in Nodes
    BY <1>1
<1>5. \A i, j \in DOMAIN r : i < j => FoundBefore(r[i], r[j])
    BY <1>1 DEF Ascending
<1>6. \A m, n \in Nodes : FoundBefore(m, n) => DeclaredBefore(graph, m, n)
    BY <1>3 DEF FoundBefore
<1> QED
    BY <1>4, <1>5, <1>6 DEF InDeclarationOrder

LEMMA NoFrontierNoNodes ==
    ASSUME GraphAndStore
    PROVE  EmptyFrontierIsFinished
BY EmptyFrontier DEF EmptyFrontierIsFinished, GraphAndStore, Nodes

-----------------------------------------------------------------------------
(* The cascade as it is written *)

LEMMA SkipKeepsTheRest ==
    ASSUME GraphAndStore, NEW n \in NodesOf(graph), WriteSkip(n)
    PROVE  /\ graph' = graph /\ n \in Skips(graph, store)
           /\ DOMAIN store' = Nodes
           /\ \A m \in Nodes \ {n} : store'[m] = store[m]
           /\ store[n].status = "none" /\ store'[n].status = "skipped"
<1>1. graph' = graph /\ n \in Skips(graph, store) /\ store' = Skip(store, n)
    BY DEF WriteSkip
<1>2. store[n].status = "none"
    BY <1>1, SkipsAreFixed DEF SkippedGiven
<1>3. store' = [store EXCEPT ![n] = [Entry(store[n]) EXCEPT !.status = "skipped", !.ports = {}]]
    BY <1>1, <1>2 DEF Skip, SkipsNow, SETTLED
<1> QED
    BY <1>1, <1>2, <1>3 DEF GraphAndStore, Nodes, Entry

\* The invariant needs no more than what the loop and its readers assume: a graph
\* that was imported and has no cycle, and a row for every node.
LEMMA GraphAndStoreStay ==
    Spec => []GraphAndStore
<1>1. Init => GraphAndStore
    <2> SUFFICES ASSUME Init
                 PROVE  GraphAndStore
        OBVIOUS
    <2>1. PICK r \in Graphs :
              /\ graph = AsGraph(r)
              /\ store \in [NodesOf(AsGraph(r)) -> RowsOver(PortsOf(AsGraph(r)))]
        BY DEF Init
    <2>2. WellFormed(graph) /\ Acyclic(graph)
        BY <2>1, GraphsAssumption
    <2>3. DOMAIN store = Nodes /\ \A n \in Nodes : store[n] \in RowsOver(PortsOf(graph))
        BY <2>1 DEF Nodes
    <2>4. ASSUME NEW row \in RowsOver(PortsOf(graph))
          PROVE  row.status \in {"none", "claimed", "completed"}
        <3>1. CASE row \in {NoRow, [NoRow EXCEPT !.status = "claimed"]}
            BY <3>1 DEF NoRow
        <3>2. CASE \E P \in SUBSET PortsOf(graph) : row = [NoRow EXCEPT !.status = "completed", !.ports = P]
            BY <3>2 DEF NoRow
        <3> QED
            BY <3>1, <3>2 DEF RowsOver
    <2> QED
        BY <2>2, <2>3, <2>4 DEF GraphAndStore, Statuses, SETTLED, HELD
<1>2. GraphAndStore /\ [Next]_vars => GraphAndStore'
    <2> SUFFICES ASSUME GraphAndStore, [Next]_vars
                 PROVE  GraphAndStore'
        OBVIOUS
    <2>1. CASE UNCHANGED vars
        BY <2>1 DEF vars, GraphAndStore, Nodes
    <2>2. ASSUME NEW n \in NodesOf(graph), WriteSkip(n)
          PROVE  GraphAndStore'
        <3>1. /\ graph' = graph /\ DOMAIN store' = Nodes
              /\ \A m \in Nodes \ {n} : store'[m] = store[m]
              /\ store'[n].status = "skipped"
            BY <2>2, SkipKeepsTheRest
        <3>2. \A m \in Nodes : store'[m].status \in Statuses
            BY <3>1 DEF GraphAndStore, Statuses, SETTLED
        <3> QED
            BY <3>1, <3>2 DEF GraphAndStore, Nodes
    <2> QED
        BY <2>1, <2>2 DEF Next
<1> QED
    BY <1>1, <1>2, PTL DEF Spec

\* For every graph without a cycle and every store of one of its runs, the loop of
\* Frontier.compute ends within one pass more than there are nodes and returns exactly
\* the least set of skips and the nodes unblocked beside it, each once; the ready ones
\* in the order of ReadyIndex, which is the order of the document when its edges go
\* forward; the skips with the sources before what they bar; and it returns nothing
\* at all only when the run is finished.
THEOREM TheFrontierIsAlwaysSound ==
    Spec => []FrontierIsSound
<1>1. GraphAndStore => FrontierIsSound
    BY TheLoopFindsTheFrontier, TheCascadeIsOrdered, NoFrontierNoNodes, ForwardEdgesKeepTheOrder
       DEF FrontierIsSound
<1> QED
    BY <1>1, GraphAndStoreStay, PTL

\* A skip that is written takes its node out of the cascade and changes nothing else of
\* the frontier, so an advance that meets half of another one's cascade computes what
\* the other computed.
THEOREM PersistingAlwaysKeepsTheFrontier ==
    Spec => PersistingKeepsTheFrontier
<1>1. ASSUME GraphAndStore, NEW n \in NodesOf(graph), WriteSkip(n)
      PROVE  /\ Ready(graph', store') = Ready(graph, store)
             /\ Skips(graph', store') = Skips(graph, store) \ {n}
    <2>1. /\ graph' = graph /\ n \in Skips(graph, store) /\ DOMAIN store' = NodesOf(graph)
          /\ \A m \in NodesOf(graph) \ {n} : store'[m] = store[m]
          /\ store[n].status = "none" /\ store'[n].status = "skipped"
        BY <1>1, SkipKeepsTheRest DEF Nodes
    <2>2. WellFormed(graph) /\ DOMAIN store = NodesOf(graph)
        BY <1>1 DEF GraphAndStore, Nodes
    <2>3. /\ Skips(graph, store') = Skips(graph, store) \ {n}
          /\ Settled(store') = Settled(store) \cup {n}
        <3>1. \A g : WellFormed(g) => \A s, t :
                 DOMAIN s = NodesOf(g) /\ DOMAIN t = NodesOf(g) =>
                   \A m \in Skips(g, s) :
                      (\A x \in NodesOf(g) \ {m} : t[x] = s[x]) /\ s[m].status = "none" /\ t[m].status = "skipped"
                        => /\ Skips(g, t) = Skips(g, s) \ {m}
                           /\ Settled(t) = Settled(s) \cup {m}
            BY SkipsAfterSkip
        <3> QED
            BY <2>1, <2>2, <3>1
    <2>4. ASSUME NEW m \in NodesOf(graph)
          PROVE  m \in Ready(graph, store') <=> m \in Ready(graph, store)
        <3>1. CASE m = n
            BY <2>1, <3>1 DEF Ready
        <3>2. CASE m # n
            BY <2>1, <2>3, <3>2 DEF Ready
        <3> QED
            BY <3>1, <3>2
    <2>5. Ready(graph, store') = Ready(graph, store)
        <3>1. Ready(graph, store') \subseteq NodesOf(graph) /\ Ready(graph, store) \subseteq NodesOf(graph)
            BY DEF Ready
        <3> QED
            BY <2>4, <3>1
    <2> QED
        BY <2>1, <2>3, <2>5
<1>2. GraphAndStore /\ [Next]_vars =>
        [/\ Ready(graph', store') = Ready(graph, store)
         /\ \E n \in NodesOf(graph) : Skips(graph', store') = Skips(graph, store) \ {n}]_vars
    BY <1>1 DEF Next
<1> QED
    BY <1>2, GraphAndStoreStay, PTL DEF Spec, PersistingKeepsTheFrontier
=============================================================================
