----------------------------- MODULE EngineProofs -----------------------------
(***************************************************************************)
(* Theorems about Engine, for all calls: the sort, the walk of the whole   *)
(* graph, and the fenced replay.                                           *)
(***************************************************************************)
EXTENDS Engine, FrontierProofs, SequenceTheorems

-----------------------------------------------------------------------------
(* Lists *)

\* The k-th element of a finite set of numbers is the one with k - 1 below it.
LEMMA Ranks ==
    ASSUME NEW I \in SUBSET Nat, IsFiniteSet(I)
    PROVE  \E at \in [1..Cardinality(I) -> I] :
              /\ Cardinality(I) \in Nat
              /\ at = [k \in 1..Cardinality(I) |->
                         CHOOSE i \in I : Cardinality({j \in I : j < i}) = k - 1]
              /\ \A k, l \in 1..Cardinality(I) : k < l => at[k] < at[l]
              /\ \A i \in I : \E k \in 1..Cardinality(I) : at[k] = i
<1> DEFINE C == Cardinality(I)
           at == [k \in 1..C |-> CHOOSE i \in I : Cardinality({j \in I : j < i}) = k - 1]
           Below(i) == {j \in I : j < i}
           rank == [i \in I |-> Cardinality(Below(i)) + 1]
<1> HIDE DEF at, rank
<1>0. \A i \in I : i \in Nat
    OBVIOUS
<1>1. C \in Nat
    BY FS_CardinalityType
<1>2. ASSUME NEW i \in I
      PROVE  Cardinality(Below(i)) \in Nat /\ Cardinality(Below(i)) < C
    <2>1. Below(i) \in SUBSET I /\ Below(i) # I
        OBVIOUS
    <2>2. IsFiniteSet(Below(i)) /\ Cardinality(Below(i)) <= C /\ Cardinality(Below(i)) # C
        <3> HIDE DEF Below
        <3> QED
            BY <2>1, FS_Subset
    <2>3. Cardinality(Below(i)) \in Nat
        <3> HIDE DEF Below
        <3> QED
            BY <2>2, FS_CardinalityType
    <2> QED
        BY <1>1, <2>2, <2>3
<1>3. ASSUME NEW i \in I, NEW j \in I, i < j
      PROVE  Cardinality(Below(i)) < Cardinality(Below(j))
    <2>0. i \in Nat /\ ~(i < i) /\ \A z \in I : z < i => z < j
        BY <1>0, <1>3
    <2>1. Below(i) \in SUBSET Below(j) /\ i \in Below(j) /\ i \notin Below(i)
        BY <1>3, <2>0
    <2>2. IsFiniteSet(Below(j))
        BY FS_Subset
    <2>3. Cardinality(Below(i)) <= Cardinality(Below(j)) /\ Cardinality(Below(i)) # Cardinality(Below(j))
        <3> HIDE DEF Below
        <3> QED
            BY <2>1, <2>2, FS_Subset
    <2> QED
        BY <1>2, <2>3
<1> HIDE DEF Below
<1>4. rank \in [I -> 1..C]
    BY <1>1, <1>2 DEF rank
<1>5. \A i, j \in I : i < j => rank[i] < rank[j]
    BY <1>2, <1>3 DEF rank
<1>11. \A i \in I : rank[i] = Cardinality(Below(i)) + 1
    BY DEF rank
<1> HIDE DEF C
<1>6. rank \in Injection(I, 1..C)
    <2>1. \A i, j \in I : rank[i] = rank[j] => i = j
        <3> SUFFICES ASSUME NEW i \in I, NEW j \in I, rank[i] = rank[j], i # j PROVE FALSE
            OBVIOUS
        <3>1. i < j \/ j < i
            BY <1>0
        <3>2. rank[i] \in Nat /\ rank[j] \in Nat
            BY <1>1, <1>4
        <3> QED
            BY <1>5, <3>1, <3>2
    <2> QED
        BY <1>4, <2>1 DEF Injection, IsInjective
<1>7. rank \in Surjection(I, 1..C)
    <2>1. IsFiniteSet(1..C) /\ Cardinality(1..C) = C
        BY <1>1, FS_Interval DEF C
    <2> QED
        BY <1>6, <2>1, FS_Injection DEF C
<1>8. ASSUME NEW k \in 1..C
      PROVE  at[k] \in I /\ rank[at[k]] = k
    <2>1. PICK i \in I : rank[i] = k
        BY <1>7 DEF Surjection
    <2>2. Cardinality(Below(i)) = k - 1
        BY <1>1, <1>2, <1>11, <2>1
    <2>3. at[k] = CHOOSE j \in I : Cardinality(Below(j)) = k - 1
        BY DEF Below, at
    <2>4. at[k] \in I /\ Cardinality(Below(at[k])) = k - 1
        BY <2>2, <2>3
    <2>5. (k - 1) + 1 = k
        BY <1>1
    <2> QED
        BY <1>11, <2>4, <2>5
<1>9. ASSUME NEW k \in 1..C, NEW l \in 1..C, k < l
      PROVE  at[k] < at[l]
    <2>1. at[k] \in I /\ at[l] \in I
        BY <1>8
    <2>2. at[k] # at[l] /\ ~(at[l] < at[k])
        <3>1. rank[at[k]] = k /\ rank[at[l]] = l /\ k \in Nat /\ l \in Nat
            BY <1>1, <1>8
        <3>2. at[l] < at[k] => l < k
            BY <1>5, <2>1, <3>1
        <3>3. at[k] = at[l] => k = l
            BY <3>1
        <3> QED
            BY <1>9, <3>1, <3>2, <3>3
    <2>3. at[k] \in Nat /\ at[l] \in Nat
        BY <1>0, <2>1
    <2> QED
        BY <2>2, <2>3
<1>10. ASSUME NEW i \in I
       PROVE  \E k \in 1..C : at[k] = i
    <2>1. rank[i] \in 1..C
        BY <1>4
    <2>2. at[rank[i]] \in I /\ rank[at[rank[i]]] = rank[i]
        BY <1>8, <2>1
    <2>3. at[rank[i]] = i
        <3>1. \A a, b \in I : rank[a] = rank[b] => a = b
            BY <1>6 DEF Injection, IsInjective
        <3> QED
            BY <2>2, <3>1
    <2> QED
        BY <2>1, <2>3
<1>12. at \in [1..C -> I]
    BY <1>8 DEF at
<1> QED
    BY <1>1, <1>9, <1>10, <1>12 DEF C, at

\* The elements of s at the indices in I: those and no others, in the order of s.
LEMMA Comprehension ==
    ASSUME NEW S, NEW s \in Seq(S), NEW I \in SUBSET (DOMAIN s)
    PROVE  \E at \in [DOMAIN ElementsAt(s, I) -> I] :
              /\ ElementsAt(s, I) \in Seq(S)
              /\ \A k \in DOMAIN ElementsAt(s, I) : ElementsAt(s, I)[k] = s[at[k]]
              /\ \A k, l \in DOMAIN ElementsAt(s, I) : k < l => at[k] < at[l]
              /\ \A i \in I : \E k \in DOMAIN ElementsAt(s, I) : at[k] = i
<1> DEFINE C == Cardinality(I)
<1>1. DOMAIN s = 1..Len(s) /\ Len(s) \in Nat
    OBVIOUS
<1>2. I \in SUBSET Nat /\ IsFiniteSet(I)
    <2>1. IsFiniteSet(1..Len(s))
        BY <1>1, FS_Interval
    <2>2. I \in SUBSET (1..Len(s)) /\ 1..Len(s) \in SUBSET Nat
        BY <1>1
    <2> QED
        BY <2>1, <2>2, FS_Subset
<1>3. PICK at \in [1..C -> I] :
          /\ C \in Nat
          /\ at = [k \in 1..C |-> CHOOSE i \in I : Cardinality({j \in I : j < i}) = k - 1]
          /\ \A k, l \in 1..C : k < l => at[k] < at[l]
          /\ \A i \in I : \E k \in 1..C : at[k] = i
    BY <1>2, Ranks
<1>4. ElementsAt(s, I) = [k \in 1..C |-> s[at[k]]]
    BY <1>3 DEF ElementsAt
<1>5. ElementsAt(s, I) \in [1..C -> S]
    <2>1. \A i \in I : s[i] \in S
        BY <1>1
    <2> QED
        BY <1>3, <1>4, <2>1
<1>6. ElementsAt(s, I) \in Seq(S) /\ DOMAIN ElementsAt(s, I) = 1..C
    BY <1>3, <1>5
<1> QED
    BY <1>3, <1>4, <1>6

-----------------------------------------------------------------------------
(* The sort *)

Done == {ordered[i] : i \in DOMAIN ordered}

\* Queued or ordered are the ids without an unordered source, and what is ordered
\* comes after its sources.  The sort ends with an empty queue and tells by the
\* count whether anything was left.
SortInv ==
    /\ call \in Calls
    /\ degree \in [Keys -> Nat]
    /\ ordered \in Seq(Keys) /\ queue \in Seq(Keys)
    /\ DegreesCountUnorderedSources
    /\ \A k \in Keys : degree[k] = 0 <=> \E i \in DOMAIN (ordered \o queue) : (ordered \o queue)[i] = k
    /\ \A j \in DOMAIN ordered : \A i \in DOMAIN Edges :
          Edges[i].target = ordered[j] => \E h \in DOMAIN ordered : h < j /\ ordered[h] = Edges[i].source
    /\ phase # "sorting" => queue = <<>> /\ (phase = "cycle") = ~Sorted

LEMMA CallFacts ==
    ASSUME call \in Calls
    PROVE  /\ Len(Edges) \in Nat /\ DOMAIN Edges = 1..Len(Edges)
           /\ IsFiniteSet(DOMAIN Edges)
           /\ Graph.edges = {Edges[i] : i \in DOMAIN Edges}
           /\ Graph.order \in Seq(Nodes)
           /\ \A i, j \in DOMAIN Graph.order : Graph.order[i] = Graph.order[j] => i = j
           /\ \A i \in DOMAIN Edges : Edges[i].target \in Keys
           /\ Nodes \subseteq Keys
<1>1. Edges \in Seq(Graph.edges)
    BY CallsAssumption DEF Edges, Graph
<1>2. Len(Edges) \in Nat /\ DOMAIN Edges = 1..Len(Edges)
    BY <1>1
<1>3. IsFiniteSet(DOMAIN Edges)
    BY <1>2, FS_Interval
<1> QED
    BY <1>2, <1>3, CallsAssumption DEF Edges, Graph, Nodes, Keys

\* The edges from n to k among the first i of the list.
LEMMA BetweenCounts ==
    ASSUME call \in Calls, NEW n, NEW k, NEW i \in 0..Len(Edges), NEW j \in 0..Len(Edges)
    PROVE  /\ EdgesBetween(n, k, i) \in Nat
           /\ i <= j => EdgesBetween(n, k, i) <= EdgesBetween(n, k, j)
           /\ (i < j /\ Edges[j].source = n /\ Edges[j].target = k)
                 => EdgesBetween(n, k, i) < EdgesBetween(n, k, j)
           /\ (i <= j /\ \A h \in 1..Len(Edges) :
                            Edges[h].source = n /\ Edges[h].target = k => h <= i)
                 => EdgesBetween(n, k, i) = EdgesBetween(n, k, j)
<1> DEFINE E(m) == {h \in 1..m : Edges[h].source = n /\ Edges[h].target = k}
<1>1. Len(Edges) \in Nat
    BY CallFacts
<1>2. ASSUME NEW m \in 0..Len(Edges)
      PROVE  IsFiniteSet(E(m)) /\ EdgesBetween(n, k, m) = Cardinality(E(m))
                 /\ Cardinality(E(m)) \in Nat
    <2>1. E(m) \in SUBSET (1..m) /\ IsFiniteSet(1..m)
        BY <1>1, FS_Interval
    <2>2. EdgesBetween(n, k, m) = Cardinality(E(m))
        BY DEF EdgesBetween
    <2> HIDE DEF E
    <2> QED
        BY <2>1, <2>2, FS_Subset, FS_CardinalityType
<1>3. ASSUME i <= j
      PROVE  E(i) \in SUBSET E(j)
    BY <1>1, <1>3
<1>4. ASSUME i < j, Edges[j].source = n, Edges[j].target = k
      PROVE  j \in E(j) /\ j \notin E(i)
    BY <1>1, <1>4
<1>5. ASSUME i <= j, \A h \in 1..Len(Edges) : Edges[h].source = n /\ Edges[h].target = k => h <= i
      PROVE  E(i) = E(j)
    <2>1. \A h \in 1..j : h \in 1..Len(Edges)
        BY <1>1
    <2>2. \A h \in 1..j : h <= i => h \in 1..i
        BY <1>1
    <2>3. E(j) \in SUBSET E(i)
        BY <1>5, <2>1, <2>2
    <2> QED
        BY <1>3, <1>5, <2>3
<1> HIDE DEF E
<1>6. i <= j => Cardinality(E(i)) <= Cardinality(E(j))
    BY <1>2, <1>3, FS_Subset
<1>7. (i < j /\ Edges[j].source = n /\ Edges[j].target = k) => Cardinality(E(i)) < Cardinality(E(j))
    <2> SUFFICES ASSUME i < j, Edges[j].source = n, Edges[j].target = k
                 PROVE  Cardinality(E(i)) < Cardinality(E(j))
        OBVIOUS
    <2>1. i <= j
        BY <1>1
    <2>2. E(i) \in SUBSET E(j) /\ E(i) # E(j)
        BY <1>3, <1>4, <2>1
    <2>3. Cardinality(E(i)) # Cardinality(E(j))
        BY <1>2, <2>2, FS_Subset
    <2>4. Cardinality(E(i)) \in Nat /\ Cardinality(E(j)) \in Nat
        BY <1>2
    <2> QED
        BY <1>6, <2>1, <2>3, <2>4
<1> QED
    BY <1>2, <1>5, <1>6, <1>7

\* The edges into k from ids outside D.
Unordered(k, D) == {i \in DOMAIN Edges : Edges[i].target = k /\ Edges[i].source \notin D}

\* Ordering n takes the edges from n off the count of the others' sources.
LEMMA CountsDrop ==
    ASSUME call \in Calls, NEW D, NEW n, n \notin D, NEW k
    PROVE  /\ IsFiniteSet(Unordered(k, D))
           /\ Cardinality(Unordered(k, D)) \in Nat
           /\ Cardinality(Unordered(k, D \cup {n})) \in Nat
           /\ Cardinality(Unordered(k, D \cup {n}))
                 = Cardinality(Unordered(k, D)) - EdgesBetween(n, k, Len(Edges))
<1> DEFINE From == {i \in DOMAIN Edges : Edges[i].source = n /\ Edges[i].target = k}
           L == Unordered(k, D)
           M == Unordered(k, D \cup {n})
<1>1. DOMAIN Edges = 1..Len(Edges) /\ IsFiniteSet(DOMAIN Edges)
    BY CallFacts
<1>2. EdgesBetween(n, k, Len(Edges)) = Cardinality(From)
    BY <1>1 DEF EdgesBetween
<1>3. IsFiniteSet(L) /\ IsFiniteSet(M) /\ IsFiniteSet(From)
    BY <1>1, FS_Subset DEF Unordered
<1>4. M = L \ From /\ L \cap From = From
    BY DEF Unordered
<1> HIDE DEF From
<1>5. Cardinality(L \ From) = Cardinality(L) - Cardinality(L \cap From)
    BY <1>3, FS_Difference
<1>6. Cardinality(L) \in Nat /\ Cardinality(M) \in Nat
    BY <1>3, FS_CardinalityType
<1> QED
    BY <1>2, <1>3, <1>4, <1>5, <1>6

\* The visit that orders the head of the queue keeps the invariant.
LEMMA PopKeeps ==
    ASSUME SortInv, PopNode
    PROVE  SortInv'
<1> DEFINE n == Head(queue)
           seen == ordered \o queue
           rel == ElementsAt(Edges, Releasing(n))
           freed == [r \in DOMAIN rel |-> rel[r].target]
<1>0. /\ call \in Calls /\ call' = call /\ phase = "sorting" /\ phase' = phase
      /\ degree \in [Keys -> Nat] /\ ordered \in Seq(Keys) /\ queue \in Seq(Keys) /\ queue # <<>>
      /\ ordered' = Append(ordered, n)
      /\ degree' = [k \in Keys |-> degree[k] - EdgesBetween(n, k, Len(Edges))]
      /\ queue' = Tail(queue) \o freed
    BY DEF SortInv, PopNode
<1>1. Keys' = Keys /\ Edges' = Edges /\ Graph' = Graph
    BY <1>0 DEF Keys, Edges, Graph, Nodes
<1>2. /\ Len(Edges) \in Nat /\ DOMAIN Edges = 1..Len(Edges)
      /\ \A i \in DOMAIN Edges : Edges[i].target \in Keys
      /\ Edges \in Seq(Graph.edges)
    BY <1>0, CallFacts, CallsAssumption DEF Edges, Graph
<1>3. PICK at \in [DOMAIN rel -> Releasing(n)] :
          /\ rel \in Seq(Graph.edges)
          /\ \A r \in DOMAIN rel : rel[r] = Edges[at[r]]
          /\ \A r, q \in DOMAIN rel : r < q => at[r] < at[q]
          /\ \A i \in Releasing(n) : \E r \in DOMAIN rel : at[r] = i
    <2> DEFINE R == Releasing(n)
    <2>1. R \in SUBSET (DOMAIN Edges)
        BY DEF Releasing
    <2> HIDE DEF R, n
    <2>2. \E at \in [DOMAIN ElementsAt(Edges, R) -> R] :
              /\ ElementsAt(Edges, R) \in Seq(Graph.edges)
              /\ \A r \in DOMAIN ElementsAt(Edges, R) : ElementsAt(Edges, R)[r] = Edges[at[r]]
              /\ \A r, q \in DOMAIN ElementsAt(Edges, R) : r < q => at[r] < at[q]
              /\ \A i \in R : \E r \in DOMAIN ElementsAt(Edges, R) : at[r] = i
        BY <1>2, <2>1, Comprehension
    <2> QED
        BY <2>2 DEF R
<1>4. \A i \in Releasing(n) : /\ i \in 1..Len(Edges) /\ Edges[i].source = n
                               /\ Edges[i].target \in Keys
                               /\ degree[Edges[i].target] = EdgesBetween(n, Edges[i].target, i)
    BY <1>2 DEF Releasing
<1> HIDE DEF rel
<1>5. freed \in Seq(Keys) /\ DOMAIN freed = DOMAIN rel /\ Len(freed) = Len(rel)
      /\ \A r \in DOMAIN freed : at[r] \in Releasing(n) /\ freed[r] = Edges[at[r]].target
    <2>1. \A r \in DOMAIN rel : at[r] \in Releasing(n) /\ freed[r] = Edges[at[r]].target
        BY <1>3
    <2>2. \A r \in DOMAIN rel : freed[r] \in Keys
        BY <1>4, <2>1
    <2>3. DOMAIN freed = DOMAIN rel /\ DOMAIN rel = 1..Len(rel) /\ Len(rel) \in Nat
        BY <1>3
    <2>4. freed \in [1..Len(rel) -> Keys]
        BY <2>2, <2>3
    <2> QED
        BY <2>1, <2>3, <2>4
<1> HIDE DEF freed
<1>6. seen \in Seq(Keys) /\ n \in Keys /\ seen[Len(ordered) + 1] = n
      /\ Len(ordered) + 1 \in DOMAIN seen
    BY <1>0
<1>7. /\ ordered' \in Seq(Keys) /\ queue' \in Seq(Keys)
      /\ ordered' \o queue' = seen \o freed
    <2>2. Append(ordered, n) \in Seq(Keys) /\ Tail(queue) \in Seq(Keys)
        BY <1>0, <1>6
    <2>1. Append(ordered, n) \o Tail(queue) = seen
        <3>1. queue = <<n>> \o Tail(queue)
            BY <1>0, <1>6
        <3>2. Append(ordered, n) = ordered \o <<n>>
            BY <1>0, <1>6
        <3>3. (ordered \o <<n>>) \o Tail(queue) = ordered \o (<<n>> \o Tail(queue))
            <4> HIDE DEF n
            <4>1. <<n>> \in Seq(Keys)
                BY <1>6
            <4> QED
                BY <1>0, <2>2, <4>1, ConcatAssociative
        <3> QED
            BY <3>1, <3>2, <3>3
    <2>3. Append(ordered, n) \o (Tail(queue) \o freed) = (Append(ordered, n) \o Tail(queue)) \o freed
        <3> HIDE DEF n
        <3>1. \A s, u, v \in Seq(Keys) : s \o (u \o v) = (s \o u) \o v
            BY ConcatAssociative
        <3> QED
            BY <1>5, <2>2, <3>1
    <2>4. Tail(queue) \o freed \in Seq(Keys)
        BY <1>5, <2>2
    <2> HIDE DEF n, seen
    <2> QED
        BY <1>0, <2>1, <2>2, <2>3, <2>4
<1>8. \A i, j \in DOMAIN seen : seen[i] = seen[j] => i = j
    BY DEF SortInv, DegreesCountUnorderedSources
<1>9. /\ n \notin Done /\ Done' = Done \cup {n}
      /\ DOMAIN ordered' = DOMAIN ordered \cup {Len(ordered) + 1}
      /\ \A i \in DOMAIN ordered : ordered'[i] = ordered[i]
      /\ ordered'[Len(ordered) + 1] = n
    <2>1. \A i \in DOMAIN ordered : i \in DOMAIN seen /\ seen[i] = ordered[i] /\ i # Len(ordered) + 1
        BY <1>0
    <2>2. /\ DOMAIN ordered' = DOMAIN ordered \cup {Len(ordered) + 1}
          /\ \A i \in DOMAIN ordered : ordered'[i] = ordered[i]
          /\ ordered'[Len(ordered) + 1] = n
        <3> HIDE DEF n
        <3> QED
            BY <1>0, <1>6
    <2>3. Done' = {ordered'[i] : i \in DOMAIN ordered'}
        BY DEF Done
    <2>4. n \notin Done
        BY <1>6, <1>8, <2>1 DEF Done
    <2> HIDE DEF n
    <2>5. Done' = {ordered'[i] : i \in DOMAIN ordered} \cup {n}
        BY <2>2, <2>3
    <2> QED
        BY <2>2, <2>4, <2>5 DEF Done
<1>10. ASSUME NEW k \in Keys
       PROVE  /\ degree[k] = Cardinality({i \in DOMAIN Edges : Edges[i].target = k /\ Edges[i].source \notin Done})
              /\ degree'[k] = Cardinality({i \in DOMAIN Edges : Edges[i].target = k /\ Edges[i].source \notin Done'})
              /\ degree'[k] \in Nat
    <2>1. degree[k] = Cardinality({i \in DOMAIN Edges : Edges[i].target = k /\ Edges[i].source \notin Done})
        BY DEF SortInv, DegreesCountUnorderedSources, Done
    <2>2. degree'[k] = degree[k] - EdgesBetween(n, k, Len(Edges))
        BY <1>0
    <2> HIDE DEF n
    <2>3. /\ Cardinality(Unordered(k, Done \cup {n})) \in Nat
          /\ Cardinality(Unordered(k, Done \cup {n}))
                = Cardinality(Unordered(k, Done)) - EdgesBetween(n, k, Len(Edges))
        BY <1>0, <1>9, CountsDrop
    <2>4. Unordered(k, Done \cup {n}) = Unordered(k, Done')
        BY <1>9
    <2>5. Unordered(k, Done') = {i \in DOMAIN Edges : Edges[i].target = k /\ Edges[i].source \notin Done'}
        BY DEF Unordered
    <2> QED
        BY <2>1, <2>2, <2>3, <2>4, <2>5 DEF Unordered
<1>11. degree' \in [Keys -> Nat]
    BY <1>0, <1>10
<1>12. ASSUME NEW i \in Releasing(n)
       PROVE  /\ Edges[i].target \in Keys
              /\ degree[Edges[i].target] > 0
              /\ degree'[Edges[i].target] = 0
    <2> DEFINE k == Edges[i].target
    <2>1. i \in 0..Len(Edges) /\ 0 \in 0..Len(Edges) /\ Len(Edges) \in 0..Len(Edges)
          /\ i - 1 \in 0..Len(Edges) /\ i - 1 < i /\ i <= Len(Edges)
        BY <1>2, <1>4
    <2>2. k \in Keys /\ Edges[i].source = n /\ degree[k] = EdgesBetween(n, k, i)
        BY <1>4
    <2> HIDE DEF k
    <2>3. EdgesBetween(n, k, i - 1) < EdgesBetween(n, k, i) /\ EdgesBetween(n, k, i - 1) \in Nat
        BY <1>0, <2>1, <2>2, BetweenCounts DEF k
    <2>4. EdgesBetween(n, k, i) <= EdgesBetween(n, k, Len(Edges)) /\ EdgesBetween(n, k, Len(Edges)) \in Nat
        BY <1>0, <2>1, BetweenCounts
    <2>5. degree[k] \in Nat /\ degree'[k] = degree[k] - EdgesBetween(n, k, Len(Edges))
        BY <1>0, <2>2
    <2>6. degree'[k] \in Nat
        BY <1>10, <2>2
    <2>7. degree[k] > 0 /\ degree'[k] = 0
        BY <2>2, <2>3, <2>4, <2>5, <2>6
    <2> QED
        BY <2>2, <2>7 DEF k
<1>13. \A k \in Keys : degree[k] = 0 <=> \E i \in DOMAIN seen : seen[i] = k
    BY DEF SortInv
<1>14. ASSUME NEW r \in DOMAIN freed, NEW q \in DOMAIN freed, r < q
       PROVE  freed[r] # freed[q]
    <2> SUFFICES ASSUME freed[r] = freed[q] PROVE FALSE
        OBVIOUS
    <2>1. at[r] \in Releasing(n) /\ at[q] \in Releasing(n) /\ at[r] < at[q]
        BY <1>3, <1>5, <1>14
    <2>2. /\ at[r] \in 0..Len(Edges) /\ at[q] \in 0..Len(Edges)
          /\ Edges[at[q]].source = n /\ Edges[at[q]].target = freed[q]
        BY <1>2, <1>4, <1>5, <2>1
    <2>3. EdgesBetween(n, freed[q], at[r]) < EdgesBetween(n, freed[q], at[q])
        BY <1>0, <2>1, <2>2, BetweenCounts
    <2>4. EdgesBetween(n, freed[q], at[r]) = EdgesBetween(n, freed[q], at[q])
        BY <1>4, <1>5, <2>1
    <2>5. EdgesBetween(n, freed[q], at[q]) \in Nat
        BY <1>0, <2>2, BetweenCounts
    <2> QED
        BY <2>3, <2>4, <2>5
<1>15. ASSUME NEW r \in DOMAIN freed, NEW i \in DOMAIN seen
       PROVE  freed[r] # seen[i]
    <2>1. freed[r] \in Keys /\ degree[freed[r]] > 0
        BY <1>5, <1>12
    <2> QED
        BY <1>13, <2>1
<1> DEFINE all == seen \o freed
<1>16. /\ all \in Seq(Keys)
       /\ \A i \in DOMAIN all : \/ i \in DOMAIN seen /\ all[i] = seen[i]
                                \/ i - Len(seen) \in DOMAIN freed /\ all[i] = freed[i - Len(seen)]
       /\ \A i \in DOMAIN seen : i \in DOMAIN all /\ all[i] = seen[i]
       /\ \A r \in DOMAIN freed : r + Len(seen) \in DOMAIN all /\ all[r + Len(seen)] = freed[r]
       /\ Len(seen) \in Nat /\ DOMAIN all \subseteq Nat /\ DOMAIN freed \subseteq Nat
    BY <1>5, <1>6
<1> HIDE DEF seen, all
<1>17. ASSUME NEW i \in DOMAIN all, NEW j \in DOMAIN all, i < j
       PROVE  all[i] # all[j]
    <2>0. i \in Nat /\ j \in Nat /\ Len(seen) \in Nat
        BY <1>16
    <2>1. CASE i \in DOMAIN seen /\ all[i] = seen[i]
        <3>1. CASE j \in DOMAIN seen /\ all[j] = seen[j]
            BY <1>8, <1>17, <2>0, <2>1, <3>1
        <3>2. CASE j - Len(seen) \in DOMAIN freed /\ all[j] = freed[j - Len(seen)]
            BY <1>15, <2>1, <3>2
        <3> QED
            BY <1>16, <3>1, <3>2
    <2>2. CASE i - Len(seen) \in DOMAIN freed /\ all[i] = freed[i - Len(seen)]
        <3>1. CASE j \in DOMAIN seen /\ all[j] = seen[j]
            BY <1>15, <2>2, <3>1
        <3>2. CASE j - Len(seen) \in DOMAIN freed /\ all[j] = freed[j - Len(seen)]
            <4>1. i - Len(seen) < j - Len(seen)
                BY <1>17, <2>0
            <4> QED
                BY <1>14, <2>2, <3>2, <4>1
        <3> QED
            BY <1>16, <3>1, <3>2
    <2> QED
        BY <1>16, <2>1, <2>2
<1>18. \A i, j \in DOMAIN all : all[i] = all[j] => i = j
    <2>1. \A i, j \in DOMAIN all : i = j \/ i < j \/ j < i
        BY <1>16
    <2> QED
        BY <1>17, <2>1
<1>19. ASSUME NEW k \in Keys
       PROVE  degree'[k] = 0 <=> \E i \in DOMAIN all : all[i] = k
    <2>1. CASE degree[k] = 0
        <3>1. PICK i \in DOMAIN seen : seen[i] = k
            BY <1>13, <2>1
        <3>2. EdgesBetween(n, k, Len(Edges)) \in Nat /\ degree'[k] = degree[k] - EdgesBetween(n, k, Len(Edges))
            <4>1. Len(Edges) \in 0..Len(Edges)
                BY <1>2
            <4> QED
                BY <1>0, <4>1, BetweenCounts
        <3>3. degree'[k] = 0
            <4>1. degree'[k] \in Nat
                BY <1>11
            <4> HIDE DEF n
            <4> QED
                BY <2>1, <3>2, <4>1
        <3> QED
            BY <1>16, <3>1, <3>3
    <2>2. CASE degree[k] # 0
        <3>1. ASSUME degree'[k] = 0
              PROVE  \E i \in DOMAIN all : all[i] = k
            <4> DEFINE From == {h \in 1..Len(Edges) : Edges[h].source = n /\ Edges[h].target = k}
            <4>1. EdgesBetween(n, k, Len(Edges)) = Cardinality(From)
                BY <1>2 DEF EdgesBetween
            <4>2. degree[k] = EdgesBetween(n, k, Len(Edges))
                <5>1. Len(Edges) \in 0..Len(Edges)
                    BY <1>2
                <5>2. EdgesBetween(n, k, Len(Edges)) \in Nat
                    BY <1>0, <5>1, BetweenCounts
                <5>3. degree[k] \in Nat /\ degree'[k] = degree[k] - EdgesBetween(n, k, Len(Edges))
                    BY <1>0
                <5> QED
                    BY <3>1, <5>2, <5>3
            <4>3. From # {} /\ IsFiniteSet(From) /\ From \in SUBSET Nat
                <5>1. IsFiniteSet(From) /\ From \in SUBSET Nat
                    <6>1. IsFiniteSet(1..Len(Edges))
                        BY <1>2, FS_Interval
                    <6>2. From \in SUBSET (1..Len(Edges)) /\ 1..Len(Edges) \in SUBSET Nat
                        BY <1>2
                    <6> QED
                        BY <6>1, <6>2, FS_Subset
                <5> HIDE DEF From
                <5> QED
                    BY <2>2, <4>1, <4>2, <5>1, FS_EmptySet
            <4>4. PICK i \in From : \A j \in From : i >= j
                <5> HIDE DEF From
                <5> QED
                    BY <4>3, Greatest
            <4>5. /\ i \in 0..Len(Edges) /\ Len(Edges) \in 0..Len(Edges) /\ i <= Len(Edges)
                  /\ \A h \in 1..Len(Edges) : Edges[h].source = n /\ Edges[h].target = k => h <= i
                BY <1>2, <4>4
            <4>6. EdgesBetween(n, k, i) = EdgesBetween(n, k, Len(Edges))
                BY <1>0, <4>5, BetweenCounts
            <4>7. i \in Releasing(n)
                BY <1>2, <4>2, <4>4, <4>6 DEF Releasing
            <4>8. PICK r \in DOMAIN rel : at[r] = i
                BY <1>3, <4>7
            <4>9. freed[r] = k
                BY <1>5, <4>4, <4>8
            <4> QED
                BY <1>5, <1>16, <4>8, <4>9
        <3>2. ASSUME NEW i \in DOMAIN all, all[i] = k
              PROVE  degree'[k] = 0
            <4>1. i \notin DOMAIN seen \/ all[i] # seen[i]
                BY <1>13, <2>2, <3>2
            <4>2. i - Len(seen) \in DOMAIN freed /\ all[i] = freed[i - Len(seen)]
                BY <1>16, <4>1
            <4> QED
                BY <1>5, <1>12, <3>2, <4>2
        <3> QED
            BY <3>1, <3>2
    <2> QED
        BY <2>1, <2>2
<1>20. \A j \in DOMAIN ordered' : \A i \in DOMAIN Edges :
          Edges[i].target = ordered'[j] => \E h \in DOMAIN ordered' : h < j /\ ordered'[h] = Edges[i].source
    <2>1. /\ DOMAIN ordered' = DOMAIN ordered \cup {Len(ordered) + 1}
          /\ \A i \in DOMAIN ordered : ordered'[i] = ordered[i] /\ i < Len(ordered) + 1
          /\ ordered'[Len(ordered) + 1] = n
        <3>1. \A i \in DOMAIN ordered : i < Len(ordered) + 1
            BY <1>0
        <3> QED
            BY <1>9, <3>1
    <2>2. ASSUME NEW i \in DOMAIN Edges, Edges[i].target = n
          PROVE  Edges[i].source \in Done
        <3> DEFINE Left == {h \in DOMAIN Edges : Edges[h].target = n /\ Edges[h].source \notin Done}
        <3>1. degree[n] = 0
            BY <1>6, <1>13
        <3>2. Cardinality(Left) = 0
            BY <1>6, <1>10, <3>1
        <3>3. IsFiniteSet(Left)
            <4>1. Left = Unordered(n, Done)
                BY DEF Unordered
            <4> HIDE DEF n, Left
            <4> QED
                BY <1>0, <1>9, <4>1, CountsDrop
        <3>4. Left = {}
            <4> HIDE DEF Left
            <4> QED
                BY <3>2, <3>3, FS_EmptySet
        <3> QED
            BY <2>2, <3>4
    <2>3. ASSUME NEW j \in DOMAIN ordered, NEW i \in DOMAIN Edges, Edges[i].target = ordered[j]
          PROVE  \E h \in DOMAIN ordered : h < j /\ ordered[h] = Edges[i].source
        BY <2>3 DEF SortInv
    <2>4. ASSUME NEW i \in DOMAIN Edges, Edges[i].target = n
          PROVE  \E h \in DOMAIN ordered : ordered[h] = Edges[i].source
        BY <2>2, <2>4 DEF Done
    <2> HIDE DEF n
    <2>5. ASSUME NEW j \in DOMAIN ordered', NEW i \in DOMAIN Edges, Edges[i].target = ordered'[j]
          PROVE  \E h \in DOMAIN ordered' : h < j /\ ordered'[h] = Edges[i].source
        <3>1. CASE j \in DOMAIN ordered
            BY <2>1, <2>3, <2>5, <3>1
        <3>2. CASE j = Len(ordered) + 1
            BY <2>1, <2>4, <2>5, <3>2
        <3> QED
            BY <2>1, <3>1, <3>2
    <2> QED
        BY <2>5
<1>21. DegreesCountUnorderedSources'
    BY <1>1, <1>7, <1>10, <1>18 DEF DegreesCountUnorderedSources, Done, all
<1>22. \A k \in Keys : degree'[k] = 0 <=> \E i \in DOMAIN (ordered' \o queue') : (ordered' \o queue')[i] = k
    BY <1>7, <1>19 DEF all
<1> QED
    BY <1>0, <1>1, <1>7, <1>11, <1>20, <1>21, <1>22 DEF SortInv

\* At the start nothing is ordered, and queued are the nodes no edge ends at.
LEMMA SortStarts == Init => SortInv
<1> SUFFICES ASSUME Init PROVE SortInv
    OBVIOUS
<1> DEFINE I == {i \in DOMAIN Graph.order : EdgesTo(Graph.order[i]) = 0}
<1>0. /\ call \in Calls /\ phase = "sorting" /\ ordered = <<>>
      /\ degree = [k \in Keys |-> EdgesTo(k)]
      /\ queue = ElementsAt(Graph.order, I)
    BY DEF Init
<1>1. /\ Graph.order \in Seq(Nodes) /\ Nodes \subseteq Keys
      /\ \A i, j \in DOMAIN Graph.order : Graph.order[i] = Graph.order[j] => i = j
    BY <1>0, CallFacts
<1>2. PICK at \in [DOMAIN queue -> I] :
          /\ queue \in Seq(Nodes)
          /\ \A k \in DOMAIN queue : queue[k] = Graph.order[at[k]]
          /\ \A k, l \in DOMAIN queue : k < l => at[k] < at[l]
          /\ \A i \in I : \E k \in DOMAIN queue : at[k] = i
    <2> DEFINE list == Graph.order
    <2>1. I \in SUBSET (DOMAIN list)
        OBVIOUS
    <2>3. list \in Seq(Nodes)
        BY <1>1
    <2>4. queue = ElementsAt(list, I)
        BY <1>0
    <2> HIDE DEF I, list
    <2>2. \E at \in [DOMAIN ElementsAt(list, I) -> I] :
              /\ ElementsAt(list, I) \in Seq(Nodes)
              /\ \A k \in DOMAIN ElementsAt(list, I) : ElementsAt(list, I)[k] = list[at[k]]
              /\ \A k, l \in DOMAIN ElementsAt(list, I) : k < l => at[k] < at[l]
              /\ \A i \in I : \E k \in DOMAIN ElementsAt(list, I) : at[k] = i
        BY <2>1, <2>3, Comprehension
    <2> QED
        BY <2>2, <2>4 DEF list
<1>3. DOMAIN queue = 1..Len(queue) /\ Len(queue) \in Nat
    BY <1>2
<1>4. ASSUME NEW k \in Keys
      PROVE  /\ degree[k] = Cardinality({i \in DOMAIN Edges : Edges[i].target = k /\ Edges[i].source \notin {}})
             /\ degree[k] \in Nat
             /\ degree[k] = 0 => \A i \in DOMAIN Edges : Edges[i].target # k
    <2> DEFINE To == {i \in DOMAIN Edges : Edges[i].target = k}
    <2>1. degree[k] = Cardinality(To)
        BY <1>0 DEF EdgesTo
    <2>2. To = {i \in DOMAIN Edges : Edges[i].target = k /\ Edges[i].source \notin {}}
        OBVIOUS
    <2>3. IsFiniteSet(To)
        BY <1>0, CallFacts, FS_Subset
    <2>4. To = {} => \A i \in DOMAIN Edges : Edges[i].target # k
        OBVIOUS
    <2> HIDE DEF To
    <2> QED
        BY <2>1, <2>2, <2>3, <2>4, FS_CardinalityType, FS_EmptySet
<1>5. degree \in [Keys -> Nat]
    BY <1>0, <1>4
<1>6. \A i, j \in DOMAIN queue : queue[i] = queue[j] => i = j
    <2>1. ASSUME NEW i \in DOMAIN queue, NEW j \in DOMAIN queue, i < j
          PROVE  queue[i] # queue[j]
        <3>1. at[i] \in I /\ at[j] \in I /\ at[i] < at[j]
            BY <1>2, <2>1
        <3>2. at[i] \in Nat /\ at[j] \in Nat
            BY <1>1, <3>1
        <3>3. at[i] # at[j]
            BY <3>1, <3>2
        <3> QED
            BY <1>1, <1>2, <3>1, <3>3
    <2>2. \A i, j \in DOMAIN queue : i = j \/ i < j \/ j < i
        BY <1>3
    <2> QED
        BY <2>1, <2>2
<1>7. ASSUME NEW k \in Keys
      PROVE  degree[k] = 0 <=> \E i \in DOMAIN queue : queue[i] = k
    <2>1. ASSUME degree[k] = 0
          PROVE  \E i \in DOMAIN queue : queue[i] = k
        <3>1. k \in Nodes
            BY <1>4, <2>1 DEF Keys
        <3>2. PICK i \in DOMAIN Graph.order : Graph.order[i] = k
            BY <3>1 DEF Nodes, NodesOf
        <3>3. i \in I
            BY <1>0, <2>1, <3>2
        <3> QED
            BY <1>2, <3>2, <3>3
    <2>2. ASSUME NEW i \in DOMAIN queue, queue[i] = k
          PROVE  degree[k] = 0
        BY <1>0, <1>2, <2>2
    <2> QED
        BY <2>1, <2>2
<1>8. ordered \o queue = queue /\ {ordered[i] : i \in DOMAIN ordered} = {}
    BY <1>0, <1>2
<1>9. ordered \in Seq(Keys) /\ queue \in Seq(Keys)
    BY <1>0, <1>1, <1>2
<1>10. DegreesCountUnorderedSources
    BY <1>4, <1>6, <1>8 DEF DegreesCountUnorderedSources
<1>11. DOMAIN ordered = {}
    BY <1>0
<1>12. \A k \in Keys : degree[k] = 0 <=> \E i \in DOMAIN (ordered \o queue) : (ordered \o queue)[i] = k
    BY <1>7, <1>8
<1> HIDE DEF I
<1> QED
    BY <1>0, <1>5, <1>9, <1>10, <1>11, <1>12 DEF SortInv

\* The walk leaves the sort's result alone, and starts only if the sort succeeded.
LEMMA SortKeeps == SortInv /\ [Next]_vars => SortInv'
<1> SUFFICES ASSUME SortInv, [Next]_vars PROVE SortInv'
    OBVIOUS
<1>1. CASE PopNode
    BY <1>1, PopKeeps
<1>2. ASSUME call' = call, degree' = degree, queue' = queue, ordered' = ordered,
             phase' # "sorting" => queue = <<>> /\ (phase' = "cycle") = ~Sorted
      PROVE  SortInv'
    <2>1. Graph' = Graph /\ Edges' = Edges /\ Nodes' = Nodes
        BY <1>2 DEF Graph, Edges, Nodes
    <2>2. Keys' = Keys /\ Sorted' = Sorted
        BY <1>2, <2>1 DEF Keys, Sorted
    <2>3. DegreesCountUnorderedSources'
        <3>1. DegreesCountUnorderedSources
            BY DEF SortInv
        <3> QED
            BY <1>2, <2>1, <2>2, <3>1 DEF DegreesCountUnorderedSources
    <2>4. \A k \in Keys' : degree'[k] = 0 <=> \E i \in DOMAIN (ordered' \o queue') : (ordered' \o queue')[i] = k
        BY <1>2, <2>2 DEF SortInv
    <2>5. \A j \in DOMAIN ordered' : \A i \in DOMAIN Edges' :
              Edges'[i].target = ordered'[j]
                  => \E h \in DOMAIN ordered' : h < j /\ ordered'[h] = Edges'[i].source
        BY <1>2, <2>1 DEF SortInv
    <2>6. /\ call' \in Calls
          /\ degree' \in [Keys' -> Nat]
          /\ ordered' \in Seq(Keys') /\ queue' \in Seq(Keys')
        BY <1>2, <2>2 DEF SortInv
    <2>7. phase' # "sorting" => queue' = <<>> /\ (phase' = "cycle") = ~Sorted'
        BY <1>2, <2>2
    <2> QED
        BY <2>3, <2>4, <2>5, <2>6, <2>7 DEF SortInv
<1>3. CASE FinishSort
    BY <1>2, <1>3 DEF FinishSort
<1>4. CASE UNCHANGED vars
    BY <1>2, <1>4 DEF vars, SortInv
<1>5. CASE Resume \/ WalkPast \/ PassFence \/ Execute \/ Raise \/ Stop \/ Finish
    <2>1. /\ call' = call /\ degree' = degree /\ queue' = queue /\ ordered' = ordered
          /\ phase = "walking" /\ phase' \in {"walking", "failed", "aborted", "ok"}
        BY <1>5 DEF Resume, WalkPast, PassFence, Execute, Raise, Stop, Finish, Publish, AtNode
    <2> QED
        BY <1>2, <2>1 DEF SortInv
<1> QED
    BY <1>1, <1>3, <1>4, <1>5 DEF Next

\* An imported graph's edges end at its nodes, and as many ids are in its list.
LEMMA ImportedGraph ==
    ASSUME SortInv, WellFormed(Graph)
    PROVE  /\ Keys = Nodes
           /\ IsFiniteSet(Nodes) /\ Cardinality(Nodes) = Len(Graph.order)
           /\ Done \subseteq Nodes /\ Cardinality(Done) = Len(ordered)
           /\ \A e \in Graph.edges : \A j \in DOMAIN ordered :
                 e.target = ordered[j] => \E h \in DOMAIN ordered : h < j /\ ordered[h] = e.source
<1>1. call \in Calls /\ ordered \in Seq(Keys) /\ queue \in Seq(Keys)
    BY DEF SortInv
<1>2. Graph.edges = {Edges[i] : i \in DOMAIN Edges} /\ Graph.order \in Seq(Nodes)
    BY <1>1, CallFacts
<1>3. Keys = Nodes
    BY <1>2 DEF Keys, WellFormed, Nodes
<1>4. ASSUME NEW S, NEW s \in Seq(S), \A i, j \in DOMAIN s : s[i] = s[j] => i = j
      PROVE  IsFiniteSet({s[i] : i \in DOMAIN s}) /\ Cardinality({s[i] : i \in DOMAIN s}) = Len(s)
    <2> DEFINE R == {s[i] : i \in DOMAIN s}
    <2>1. Len(s) \in Nat /\ DOMAIN s = 1..Len(s)
        OBVIOUS
    <2>2. s \in [1..Len(s) -> R]
        BY <2>1
    <2>3. s \in Surjection(1..Len(s), R) /\ s \in Injection(1..Len(s), R)
        BY <1>4, <2>1, <2>2 DEF Injection, Surjection, IsInjective
    <2>4. IsFiniteSet(1..Len(s)) /\ Cardinality(1..Len(s)) = Len(s)
        BY <2>1, FS_Interval
    <2> HIDE DEF R
    <2>5. IsFiniteSet(R) /\ Cardinality(R) = Cardinality(1..Len(s))
        BY <2>3, <2>4, FS_Surjection
    <2> QED
        BY <2>4, <2>5 DEF R
<1>5. \A i, j \in DOMAIN ordered : ordered[i] = ordered[j] => i = j
    <2> DEFINE seen == ordered \o queue
    <2>1. \A i, j \in DOMAIN seen : seen[i] = seen[j] => i = j
        BY DEF SortInv, DegreesCountUnorderedSources
    <2>2. \A i \in DOMAIN ordered : i \in DOMAIN seen /\ seen[i] = ordered[i]
        BY <1>1
    <2> QED
        BY <2>1, <2>2
<1>6. Nodes = {Graph.order[i] : i \in DOMAIN Graph.order}
    BY DEF Nodes, NodesOf
<1>7. \A i, j \in DOMAIN Graph.order : Graph.order[i] = Graph.order[j] => i = j
    BY <1>1, CallFacts
<1>8. IsFiniteSet(Nodes) /\ Cardinality(Nodes) = Len(Graph.order)
    BY <1>2, <1>4, <1>6, <1>7
<1>9. Done \subseteq Nodes /\ Cardinality(Done) = Len(ordered)
    <2>1. Done \subseteq Nodes
        BY <1>1, <1>3 DEF Done
    <2>2. Cardinality({ordered[i] : i \in DOMAIN ordered}) = Len(ordered)
        BY <1>1, <1>4, <1>5
    <2> QED
        BY <2>1, <2>2 DEF Done
<1>10. ASSUME NEW e \in Graph.edges, NEW j \in DOMAIN ordered, e.target = ordered[j]
       PROVE  \E h \in DOMAIN ordered : h < j /\ ordered[h] = e.source
    <2>1. PICK i \in DOMAIN Edges : Edges[i] = e
        BY <1>2
    <2> QED
        BY <1>10, <2>1 DEF SortInv
<1> QED
    BY <1>3, <1>8, <1>9, <1>10

\* On an imported graph the sort is wrong about cycles in neither direction: what
\* it leaves has a first node, whose degree would be zero, and what it orders
\* puts every path forward.
LEMMA OrdersAllIffAcyclic ==
    ASSUME SortInv, WellFormed(Graph), queue = <<>>
    PROVE  Sorted <=> Acyclic(Graph)
<1>0. /\ Keys = Nodes
      /\ IsFiniteSet(Nodes) /\ Cardinality(Nodes) = Len(Graph.order)
      /\ Done \subseteq Nodes /\ Cardinality(Done) = Len(ordered)
      /\ \A e \in Graph.edges : \A j \in DOMAIN ordered :
            e.target = ordered[j] => \E h \in DOMAIN ordered : h < j /\ ordered[h] = e.source
      /\ ordered \in Seq(Keys) /\ call \in Calls
    BY ImportedGraph DEF SortInv
<1>1. ordered \o queue = ordered /\ DOMAIN ordered \subseteq Nat
    BY <1>0
<1>2. Sorted => Done = Nodes
    BY <1>0, FS_Subset DEF Sorted
<1>3. ASSUME Acyclic(Graph)
      PROVE  Sorted
    <2> DEFINE T == Nodes \ Done
    <2>1. ASSUME T # {} PROVE FALSE
        <3>1. PICK x \in T : Sources(Graph, x) \cap T = {}
            BY <1>3, <2>1, FirstOfASet DEF Nodes
        <3>2. Unordered(x, Done) = {}
            <4>1. ASSUME NEW i \in DOMAIN Edges, Edges[i].target = x
                  PROVE  Edges[i].source \in Done
                <5>1. Edges[i] \in Graph.edges
                    BY <1>0, CallFacts
                <5>2. Edges[i].source \in Nodes /\ Edges[i].source \in Sources(Graph, x)
                    BY <4>1, <5>1, GraphEnds DEF Nodes
                <5> QED
                    BY <3>1, <5>2
            <4> QED
                BY <4>1 DEF Unordered
        <3>3. degree[x] = Cardinality(Unordered(x, Done))
            <4>1. x \in Keys
                BY <1>0
            <4> QED
                BY <4>1 DEF SortInv, DegreesCountUnorderedSources, Unordered, Done
        <3>4. degree[x] = 0
            BY <3>2, <3>3, FS_EmptySet
        <3>5. \E i \in DOMAIN ordered : ordered[i] = x
            BY <1>0, <1>1, <3>4 DEF SortInv
        <3> QED
            BY <3>1, <3>5 DEF Done
    <2>2. Done = Nodes
        BY <1>0, <2>1
    <2> QED
        BY <1>0, <2>2 DEF Sorted
<1>4. ASSUME Sorted, NEW n \in Nodes, n \in ReachedFrom(Graph, n)
      PROVE  FALSE
    <2>1. PICK p \in DOMAIN ordered : ordered[p] = n
        BY <1>2, <1>4 DEF Done
    <2>2. \A i, j \in DOMAIN ordered : ordered[i] = ordered[j] => i = j
        BY <1>1 DEF SortInv, DegreesCountUnorderedSources
    <2> DEFINE X == {m \in Nodes : \E q \in DOMAIN ordered : p < q /\ ordered[q] = m}
    <2>3. ASSUME NEW e \in Graph.edges, e.source = n \/ e.source \in X
          PROVE  e.target \in X
        <3>1. e.target \in Nodes /\ e.source \in Nodes
            BY GraphEnds DEF Nodes
        <3>2. PICK j \in DOMAIN ordered : ordered[j] = e.target
            BY <1>2, <1>4, <3>1 DEF Done
        <3>3. PICK h \in DOMAIN ordered : h < j /\ ordered[h] = e.source
            BY <1>0, <3>2
        <3>4. h = p \/ p < h
            BY <2>1, <2>2, <2>3, <3>3
        <3>5. p < j
            BY <1>1, <3>3, <3>4
        <3> QED
            BY <3>1, <3>2, <3>5
    <2>4. n \in X
        BY <1>4, <2>3 DEF ReachedFrom, Nodes
    <2>5. PICK q \in DOMAIN ordered : p < q /\ ordered[q] = n
        BY <2>4
    <2>6. q = p
        BY <2>1, <2>2, <2>5
    <2> QED
        BY <1>1, <2>5, <2>6
<1> QED
    BY <1>3, <1>4 DEF Acyclic, Nodes

\* What the walk goes over when the sort succeeded: every node of the graph, once,
\* after its sources.
LEMMA OrderOfTheWalk ==
    ASSUME SortInv, WellFormed(Graph), phase \notin {"sorting", "cycle"}
    PROVE  /\ Order \in Seq(Nodes) /\ DOMAIN Order = 1..Len(Order) /\ Len(Order) \in Nat
           /\ {Order[i] : i \in DOMAIN Order} = Nodes
           /\ \A i, j \in DOMAIN Order : Order[i] = Order[j] => i = j
           /\ \A i, j \in DOMAIN Order : Order[i] \in Sources(Graph, Order[j]) => i < j
           /\ \A j \in DOMAIN Order : \A s \in Sources(Graph, Order[j]) :
                 \E i \in DOMAIN Order : i < j /\ Order[i] = s
<1>0. /\ Keys = Nodes /\ Done \subseteq Nodes /\ Cardinality(Done) = Cardinality(Nodes)
      /\ IsFiniteSet(Nodes) /\ queue = <<>> /\ Sorted
      /\ ordered \in Seq(Nodes)
      /\ \A e \in Graph.edges : \A j \in DOMAIN ordered :
            e.target = ordered[j] => \E h \in DOMAIN ordered : h < j /\ ordered[h] = e.source
    <2>1. queue = <<>> /\ Sorted /\ ordered \in Seq(Keys)
        BY DEF SortInv
    <2> QED
        BY <2>1, ImportedGraph DEF Sorted
<1>1. Done = Nodes
    BY <1>0, FS_Subset
<1>2. DOMAIN ordered = 1..Len(ordered) /\ Len(ordered) \in Nat
    BY <1>0
<1>3. \A i, j \in DOMAIN ordered : ordered[i] = ordered[j] => i = j
    <2>1. ordered \o queue = ordered
        BY <1>0
    <2> QED
        BY <2>1 DEF SortInv, DegreesCountUnorderedSources
<1> DEFINE I == {i \in DOMAIN ordered : ordered[i] \in Nodes}
<1>4. I = DOMAIN ordered /\ Order = ElementsAt(ordered, I)
    <2>1. \A i \in DOMAIN ordered : ordered[i] \in Nodes
        BY <1>0
    <2> QED
        BY <2>1 DEF Order
<1> HIDE DEF I
<1>5. PICK at \in [DOMAIN Order -> DOMAIN ordered] :
          /\ Order \in Seq(Nodes)
          /\ \A k \in DOMAIN Order : Order[k] = ordered[at[k]]
          /\ \A k, l \in DOMAIN Order : k < l => at[k] < at[l]
          /\ \A i \in DOMAIN ordered : \E k \in DOMAIN Order : at[k] = i
    <2>1. \E at \in [DOMAIN ElementsAt(ordered, I) -> I] :
              /\ ElementsAt(ordered, I) \in Seq(Nodes)
              /\ \A k \in DOMAIN ElementsAt(ordered, I) : ElementsAt(ordered, I)[k] = ordered[at[k]]
              /\ \A k, l \in DOMAIN ElementsAt(ordered, I) : k < l => at[k] < at[l]
              /\ \A i \in I : \E k \in DOMAIN ElementsAt(ordered, I) : at[k] = i
        BY <1>0, <1>4, Comprehension
    <2> QED
        BY <1>4, <2>1
<1>6. /\ DOMAIN Order = 1..Len(Order) /\ Len(Order) \in Nat
      /\ \A k, l \in DOMAIN Order : k = l \/ k < l \/ l < k
      /\ \A k \in DOMAIN Order : at[k] \in DOMAIN ordered /\ at[k] \in Nat
    BY <1>2, <1>5
<1>7. {Order[i] : i \in DOMAIN Order} = Nodes
    BY <1>1, <1>5, <1>6 DEF Done
<1>8. ASSUME NEW i \in DOMAIN Order, NEW j \in DOMAIN Order, at[i] < at[j]
      PROVE  i < j
    <2>1. ~(j < i) /\ i # j
        BY <1>5, <1>6, <1>8
    <2> QED
        BY <1>6, <2>1
<1>9. ASSUME NEW i \in DOMAIN Order, NEW j \in DOMAIN Order, Order[i] = Order[j]
      PROVE  i = j
    <2>1. at[i] = at[j]
        BY <1>3, <1>5, <1>6, <1>9
    <2>2. ~(at[i] < at[j]) /\ ~(at[j] < at[i])
        BY <1>6, <2>1
    <2> QED
        BY <1>5, <1>6, <2>2
<1>10. ASSUME NEW j \in DOMAIN Order, NEW s \in Sources(Graph, Order[j])
       PROVE  \E i \in DOMAIN Order : i < j /\ Order[i] = s
    <2>1. PICK e \in Graph.edges : e.source = s /\ e.target = Order[j]
        BY GraphEnds
    <2>2. PICK h \in DOMAIN ordered : h < at[j] /\ ordered[h] = s
        BY <1>0, <1>5, <1>6, <2>1
    <2>3. PICK i \in DOMAIN Order : at[i] = h
        BY <1>5
    <2> QED
        BY <1>5, <1>8, <2>2, <2>3
<1>11. ASSUME NEW i \in DOMAIN Order, NEW j \in DOMAIN Order, Order[i] \in Sources(Graph, Order[j])
       PROVE  i < j
    BY <1>9, <1>10, <1>11
<1> QED
    BY <1>5, <1>6, <1>7, <1>9, <1>10, <1>11

-----------------------------------------------------------------------------
(* The walk *)

\* What the rule of the walk decides for a node, once its sources are settled.
Passed(n) == ~Resumed(n) /\ WalksPast(n)

\* Behind the walk every node is as its rule decides, and the rule, which reads the
\* ports of its sources alone, decides the same for good; ahead of it every node is
\* idle, but for the one whose executor ended the walk.
WalkInv ==
    /\ SortInv
    /\ WellFormed(Graph) =>
          /\ pos \in Nat \ {0}
          /\ status \in [Nodes -> {"idle", "completed", "skipped", "failed"}]
          /\ lit = [n \in Nodes |->
                       IF status[n] # "completed" THEN {}
                       ELSE IF Fenced(n) /\ ~Resumed(n) THEN {FencePort} ELSE Published[n]]
          /\ executed = {n \in Nodes : /\ status[n] \in {"completed", "failed"}
                                       /\ ~Resumed(n) /\ ~Fenced(n)}
          /\ phase \in {"sorting", "cycle"} => pos = 1 /\ \A n \in Nodes : status[n] = "idle"
          /\ phase \notin {"sorting", "cycle"} =>
                \A i \in DOMAIN Order :
                    /\ i < pos => status[Order[i]] = (IF Passed(Order[i]) THEN "skipped" ELSE "completed")
                    /\ pos <= i => \/ status[Order[i]] = "idle"
                                   \/ /\ status[Order[i]] = "failed" /\ phase = "failed"
                                      /\ i = pos
                                      /\ ~Resumed(Order[i]) /\ ~WalksPast(Order[i]) /\ ~Fenced(Order[i])
          /\ phase \in {"sorting", "cycle", "walking", "aborted", "failed", "ok"}
          /\ phase = "ok" => pos > Len(Order)
          /\ phase = "aborted" => call.target = NoNode
          /\ phase = "failed" /\ call.target # NoNode => status[call.target] = "failed"

LEMMA WalkStarts == Init => WalkInv
<1> SUFFICES ASSUME Init, WellFormed(Graph) PROVE WalkInv
    BY SortStarts DEF WalkInv
<1>1. /\ pos = 1 /\ phase = "sorting" /\ executed = {}
      /\ status = [n \in Nodes |-> "idle"] /\ lit = [n \in Nodes |-> {}]
    BY DEF Init
<1>2. lit = [n \in Nodes |->
                IF status[n] # "completed" THEN {}
                ELSE IF Fenced(n) /\ ~Resumed(n) THEN {FencePort} ELSE Published[n]]
    BY <1>1
<1>3. executed = {n \in Nodes : /\ status[n] \in {"completed", "failed"}
                                /\ ~Resumed(n) /\ ~Fenced(n)}
    BY <1>1
<1>4. /\ pos \in Nat \ {0}
      /\ status \in [Nodes -> {"idle", "completed", "skipped", "failed"}]
      /\ \A n \in Nodes : status[n] = "idle"
    BY <1>1
<1> QED
    BY <1>1, <1>2, <1>3, <1>4, SortStarts DEF WalkInv

\* While the call and the sort's result stay, so does what is computed from them.
LEMMA SameCall ==
    ASSUME call' = call
    PROVE  /\ Graph' = Graph /\ Nodes' = Nodes /\ Published' = Published
           /\ ordered' = ordered => Order' = Order
           /\ \A n : Fenced(n)' = Fenced(n) /\ Resumed(n)' = Resumed(n)
<1>1. Graph' = Graph /\ Nodes' = Nodes
    BY DEF Graph, Nodes
<1>2. \A n : Fenced(n)' = Fenced(n) /\ Resumed(n)' = Resumed(n)
    BY DEF Fenced, Resumed
<1>3. ordered' = ordered => Order' = Order
    BY <1>1 DEF Order
<1>4. Published' = Published
    BY <1>1 DEF Published, Resumed
<1> QED
    BY <1>1, <1>2, <1>3, <1>4

\* The rule of a node reads the ports of its sources and nothing else that changes.
LEMMA RuleReadsSources ==
    ASSUME call' = call, NEW n, \A s \in Sources(Graph, n) : lit'[s] = lit[s]
    PROVE  WalksPast(n)' <=> WalksPast(n)
<1>1. Graph' = Graph
    BY DEF Graph
<1>2. \A e \in Incoming(Graph, n) : lit'[e.source] = lit[e.source]
    BY DEF Sources
<1>3. AnyActive(n)' <=> AnyActive(n)
    BY <1>1, <1>2 DEF AnyActive, LitBy, Nodes
<1>4. InactiveEntry(n)' <=> InactiveEntry(n)
    BY <1>1 DEF InactiveEntry
<1> QED
    BY <1>1, <1>3, <1>4 DEF WalksPast

\* A step that decides the next node by its rule keeps the invariant.
LEMMA DecisionKeeps ==
    ASSUME WalkInv, SortInv', WellFormed(Graph), AtNode,
           NEW v \in {"completed", "skipped", "failed"},
           call' = call, ordered' = ordered,
           status' = [status EXCEPT ![Here] = v],
           lit' = IF v = "completed"
                  THEN [lit EXCEPT ![Here] = IF Fenced(Here) /\ ~Resumed(Here) THEN {FencePort}
                                             ELSE Published[Here]]
                  ELSE lit,
           v = "completed" => ~Passed(Here),
           v = "skipped" => Passed(Here),
           v # "failed" => phase' = phase /\ pos' = pos + 1,
           v = "failed" => /\ phase' = "failed" /\ pos' = pos
                           /\ ~Resumed(Here) /\ ~WalksPast(Here) /\ ~Fenced(Here),
           executed' = executed \cup (IF v # "skipped" /\ ~Resumed(Here) /\ ~Fenced(Here)
                                      THEN {Here} ELSE {})
    PROVE  WalkInv'
<1> DEFINE PortsAs(n) == IF Fenced(n) /\ ~Resumed(n) THEN {FencePort} ELSE Published[n]
           h == Here
<1>1. /\ Graph' = Graph /\ Nodes' = Nodes /\ Order' = Order /\ Published' = Published
      /\ \A n : Fenced(n)' = Fenced(n) /\ Resumed(n)' = Resumed(n)
    BY SameCall
<1>2. /\ SortInv /\ phase = "walking" /\ pos \in Nat \ {0} /\ pos <= Len(Order)
      /\ status \in [Nodes -> {"idle", "completed", "skipped", "failed"}]
      /\ lit = [n \in Nodes |-> IF status[n] # "completed" THEN {} ELSE PortsAs(n)]
      /\ executed = {n \in Nodes : /\ status[n] \in {"completed", "failed"}
                                   /\ ~Resumed(n) /\ ~Fenced(n)}
    BY DEF WalkInv, AtNode
<1>3. \A i \in DOMAIN Order :
          /\ i < pos => status[Order[i]] = (IF Passed(Order[i]) THEN "skipped" ELSE "completed")
          /\ pos <= i => status[Order[i]] = "idle"
    BY <1>2 DEF WalkInv
<1>4. /\ Order \in Seq(Nodes) /\ DOMAIN Order = 1..Len(Order) /\ Len(Order) \in Nat
      /\ \A i, j \in DOMAIN Order : Order[i] = Order[j] => i = j
      /\ \A i, j \in DOMAIN Order : Order[i] \in Sources(Graph, Order[j]) => i < j
      /\ pos \in DOMAIN Order /\ h = Order[pos] /\ h \in Nodes
    <2>1. phase \notin {"sorting", "cycle"}
        BY <1>2
    <2>2. /\ Order \in Seq(Nodes) /\ DOMAIN Order = 1..Len(Order) /\ Len(Order) \in Nat
          /\ \A i, j \in DOMAIN Order : Order[i] = Order[j] => i = j
          /\ \A i, j \in DOMAIN Order : Order[i] \in Sources(Graph, Order[j]) => i < j
        BY <1>2, <2>1, OrderOfTheWalk
    <2>3. pos \in DOMAIN Order
        BY <1>2, <2>2
    <2> QED
        BY <2>2, <2>3 DEF Here
<1>5. status[h] = "idle"
    BY <1>2, <1>3, <1>4
<1> HIDE DEF h
<1>6. /\ status' \in [Nodes -> {"idle", "completed", "skipped", "failed"}]
      /\ status'[h] = v /\ \A n \in Nodes : n # h => status'[n] = status[n]
    BY <1>2, <1>4 DEF h
<1>7. /\ \A n \in Nodes : n # h => lit'[n] = lit[n]
      /\ lit' = [n \in Nodes |-> IF status'[n] # "completed" THEN {} ELSE PortsAs(n)]
    <2>1. CASE v = "completed"
        <3>1. lit' = [lit EXCEPT ![h] = PortsAs(h)]
            BY <2>1 DEF h
        <3> HIDE DEF PortsAs
        <3> QED
            BY <1>2, <1>4, <1>6, <2>1, <3>1
    <2>2. CASE v # "completed"
        <3>1. lit' = lit
            BY <2>2
        <3>2. lit[h] = {}
            BY <1>2, <1>4, <1>5
        <3> HIDE DEF PortsAs
        <3> QED
            BY <1>2, <1>4, <1>5, <1>6, <2>2, <3>1, <3>2
    <2> QED
        BY <2>1, <2>2
<1>8. executed' = {n \in Nodes : /\ status'[n] \in {"completed", "failed"}
                                 /\ ~Resumed(n) /\ ~Fenced(n)}
    <2>1. executed' = executed \cup (IF v # "skipped" /\ ~Resumed(h) /\ ~Fenced(h) THEN {h} ELSE {})
        BY DEF h
    <2> QED
        BY <1>2, <1>4, <1>5, <1>6, <2>1
<1>9. ASSUME NEW i \in DOMAIN Order, i <= pos
      PROVE  Passed(Order[i])' <=> Passed(Order[i])
    <2>1. h \notin Sources(Graph, Order[i])
        BY <1>2, <1>4, <1>9
    <2>2. \A s \in Sources(Graph, Order[i]) : lit'[s] = lit[s]
        BY <1>7, <2>1, GraphEnds DEF Nodes
    <2>3. \A n : (\A s \in Sources(Graph, n) : lit'[s] = lit[s]) => (WalksPast(n)' <=> WalksPast(n))
        BY RuleReadsSources
    <2> QED
        BY <1>1, <2>2, <2>3 DEF Passed
<1>10. ASSUME NEW i \in DOMAIN Order
       PROVE  /\ i < pos' => status'[Order[i]] = (IF Passed(Order[i])' THEN "skipped" ELSE "completed")
              /\ pos' <= i => \/ status'[Order[i]] = "idle"
                              \/ /\ status'[Order[i]] = "failed" /\ phase' = "failed"
                                 /\ i = pos'
                                 /\ ~Resumed(Order[i]) /\ ~WalksPast(Order[i])' /\ ~Fenced(Order[i])
    <2>1. Order[i] \in Nodes /\ (i = pos \/ Order[i] # h)
        BY <1>4
    <2>2. CASE i < pos
        <3>1. status'[Order[i]] = status[Order[i]] /\ i <= pos /\ ~(pos' <= i)
            BY <1>2, <1>4, <1>6, <2>1, <2>2
        <3> QED
            BY <1>3, <1>9, <2>2, <3>1
    <2>3. CASE i = pos
        <3>1. status'[Order[i]] = v /\ (Passed(Order[i])' <=> Passed(h))
            BY <1>2, <1>4, <1>6, <1>9, <2>3
        <3>2. v # "failed" => ~(pos' <= i)
            BY <1>2, <2>3
        <3>3. v = "failed" => ~(i < pos') /\ i = pos' /\ ~Resumed(Order[i]) /\ ~WalksPast(Order[i])
                              /\ ~Fenced(Order[i]) /\ phase' = "failed"
            BY <1>2, <1>4, <2>3 DEF h
        <3>4. v = "failed" => ~WalksPast(Order[i])'
            <4>1. (Passed(Order[i])' <=> Passed(Order[i])) /\ Resumed(Order[i])' = Resumed(Order[i])
                BY <1>1, <1>2, <1>9, <2>3
            <4> QED
                BY <3>3, <4>1 DEF Passed
        <3>5. v = "completed" => ~Passed(h)
            BY DEF h
        <3>6. v = "skipped" => Passed(h)
            BY DEF h
        <3> QED
            BY <3>1, <3>2, <3>3, <3>4, <3>5, <3>6
    <2>4. CASE pos < i
        <3>1. status'[Order[i]] = status[Order[i]] /\ pos <= i /\ ~(i < pos')
            BY <1>2, <1>4, <1>6, <2>1, <2>4
        <3> QED
            BY <1>3, <3>1
    <2> QED
        BY <1>2, <1>4, <2>2, <2>3, <2>4
<1>11. /\ pos' \in Nat \ {0}
       /\ phase' \in {"walking", "failed"}
       /\ phase' = "failed" /\ call.target # NoNode => status'[call.target] = "failed"
    <2>1. v = "failed" /\ call.target # NoNode => h = call.target
        BY DEF Fenced, h
    <2> QED
        BY <1>2, <1>6, <2>1
<1> HIDE DEF PortsAs
<1>12. /\ lit' = [n \in Nodes' |->
                     IF status'[n] # "completed" THEN {}
                     ELSE IF Fenced(n)' /\ ~Resumed(n)' THEN {FencePort} ELSE Published'[n]]
       /\ executed' = {n \in Nodes' : /\ status'[n] \in {"completed", "failed"}
                                      /\ ~Resumed(n)' /\ ~Fenced(n)'}
    <2>1. \A n : PortsAs(n) = IF Fenced(n)' /\ ~Resumed(n)' THEN {FencePort} ELSE Published'[n]
        BY <1>1 DEF PortsAs
    <2> QED
        BY <1>1, <1>7, <1>8, <2>1
<1>13. \A i \in DOMAIN Order' :
           /\ i < pos' => status'[Order'[i]] = (IF Passed(Order[i])' THEN "skipped" ELSE "completed")
           /\ pos' <= i => \/ status'[Order'[i]] = "idle"
                           \/ /\ status'[Order'[i]] = "failed" /\ phase' = "failed"
                              /\ i = pos'
                              /\ ~Resumed(Order[i])' /\ ~WalksPast(Order[i])' /\ ~Fenced(Order[i])'
    BY <1>1, <1>10
<1> QED
    BY <1>1, <1>6, <1>11, <1>12, <1>13 DEF WalkInv

LEMMA FilterType ==
    ASSUME NEW K, NEW N, NEW s \in Seq(K)
    PROVE  ElementsAt(s, {i \in DOMAIN s : s[i] \in N}) \in Seq(N)
<1> DEFINE I == {i \in DOMAIN s : s[i] \in N}
           f == ElementsAt(s, I)
<1>1. I \in SUBSET (DOMAIN s)
    OBVIOUS
<1>5. \A i \in I : s[i] \in N
    OBVIOUS
<1> HIDE DEF I
<1>2. \E at \in [DOMAIN ElementsAt(s, I) -> I] :
          /\ ElementsAt(s, I) \in Seq(K)
          /\ \A k \in DOMAIN ElementsAt(s, I) : ElementsAt(s, I)[k] = s[at[k]]
          /\ \A k, l \in DOMAIN ElementsAt(s, I) : k < l => at[k] < at[l]
          /\ \A i \in I : \E k \in DOMAIN ElementsAt(s, I) : at[k] = i
    BY <1>1, Comprehension
<1>3. f \in Seq(K) /\ \A k \in DOMAIN f : f[k] \in N
    BY <1>2, <1>5
<1> HIDE DEF f
<1>4. f \in Seq(N)
    BY <1>3
<1> QED
    BY <1>4 DEF f, I

\* A step that visits no node keeps the invariant, if it moves the phase on rightly.
LEMMA StandingKeeps ==
    ASSUME WalkInv, SortInv', call' = call, UNCHANGED <<pos, status, lit, executed>>,
           \/ /\ phase = "sorting" /\ phase' \in {"sorting", "walking", "cycle"}
           \/ /\ ordered' = ordered /\ phase' = phase
           \/ /\ ordered' = ordered /\ phase = "walking"
              /\ \/ phase' \in {"aborted", "failed"} /\ call.target = NoNode
                 \/ phase' = "ok" /\ pos > Len(Order)
    PROVE  WalkInv'
<1> SUFFICES ASSUME WellFormed(Graph)' PROVE WalkInv'
    BY DEF WalkInv
<1>1. /\ Graph' = Graph /\ Nodes' = Nodes /\ Published' = Published
      /\ ordered' = ordered => Order' = Order
      /\ \A n : Fenced(n)' = Fenced(n) /\ Resumed(n)' = Resumed(n)
    BY SameCall
<1>2. WellFormed(Graph)
    BY <1>1
<1>3. \A n : (WalksPast(n)' <=> WalksPast(n)) /\ (Passed(n)' <=> Passed(n))
    BY <1>1, RuleReadsSources DEF Passed
<1>4. /\ pos' \in Nat \ {0}
      /\ status' \in [Nodes' -> {"idle", "completed", "skipped", "failed"}]
      /\ phase' \in {"sorting", "cycle", "walking", "aborted", "failed", "ok"}
      /\ phase' = "aborted" => call'.target = NoNode
      /\ phase' = "failed" /\ call'.target # NoNode => status'[call'.target] = "failed"
      /\ phase' \in {"sorting", "cycle"} => pos' = 1 /\ \A n \in Nodes' : status'[n] = "idle"
    BY <1>1, <1>2 DEF WalkInv
<1>5. /\ lit' = [n \in Nodes' |->
                    IF status'[n] # "completed" THEN {}
                    ELSE IF Fenced(n)' /\ ~Resumed(n)' THEN {FencePort} ELSE Published'[n]]
      /\ executed' = {n \in Nodes' : /\ status'[n] \in {"completed", "failed"}
                                     /\ ~Resumed(n)' /\ ~Fenced(n)'}
    <2>1. /\ lit = [n \in Nodes |->
                       IF status[n] # "completed" THEN {}
                       ELSE IF Fenced(n) /\ ~Resumed(n) THEN {FencePort} ELSE Published[n]]
          /\ executed = {n \in Nodes : /\ status[n] \in {"completed", "failed"}
                                       /\ ~Resumed(n) /\ ~Fenced(n)}
        BY <1>2 DEF WalkInv
    <2> QED
        BY <1>1, <2>1
<1>6. phase' = "ok" => pos' > Len(Order')
    BY <1>1, <1>2 DEF WalkInv
<1>7. ASSUME phase' \notin {"sorting", "cycle"}, NEW i \in DOMAIN Order'
      PROVE  /\ i < pos' => status'[Order'[i]] = (IF Passed(Order[i])' THEN "skipped" ELSE "completed")
             /\ pos' <= i => \/ status'[Order'[i]] = "idle"
                             \/ /\ status'[Order'[i]] = "failed" /\ phase' = "failed"
                                /\ i = pos'
                                /\ ~Resumed(Order[i])' /\ ~WalksPast(Order[i])' /\ ~Fenced(Order[i])'
    <2>1. CASE phase = "sorting"
        <3>1. Order' \in Seq(Nodes')
            <4>1. ordered' \in Seq(Keys')
                BY DEF SortInv
            <4>2. ElementsAt(ordered', {k \in DOMAIN ordered' : ordered'[k] \in Nodes'}) \in Seq(Nodes')
                BY <4>1, FilterType
            <4> QED
                BY <4>2 DEF Order
        <3>2. i \in Nat /\ ~(i < 1) /\ Order'[i] \in Nodes
            BY <1>1, <3>1
        <3>3. pos' = 1 /\ status'[Order'[i]] = "idle"
            BY <1>2, <2>1, <3>2 DEF WalkInv
        <3> QED
            BY <3>2, <3>3
    <2>2. CASE phase # "sorting"
        <3>1. Order' = Order /\ phase \notin {"sorting", "cycle"}
            BY <1>1, <1>7, <2>2
        <3>2. /\ i < pos => status[Order[i]] = (IF Passed(Order[i]) THEN "skipped" ELSE "completed")
              /\ pos <= i => \/ status[Order[i]] = "idle"
                             \/ /\ status[Order[i]] = "failed" /\ phase = "failed"
                                /\ i = pos
                                /\ ~Resumed(Order[i]) /\ ~WalksPast(Order[i]) /\ ~Fenced(Order[i])
            BY <1>2, <3>1, <1>7 DEF WalkInv
        <3>3. phase = "failed" => phase' = "failed"
            OBVIOUS
        <3> QED
            BY <1>1, <1>3, <3>1, <3>2, <3>3
    <2> QED
        BY <2>1, <2>2
<1> QED
    BY <1>4, <1>5, <1>6, <1>7 DEF WalkInv

LEMMA WalkKeeps == WalkInv /\ [Next]_vars => WalkInv'
<1> SUFFICES ASSUME WalkInv, [Next]_vars PROVE WalkInv'
    OBVIOUS
<1>1. SortInv /\ SortInv'
    BY SortKeeps DEF WalkInv
<1>2. CASE PopNode
    BY <1>1, <1>2, StandingKeeps DEF PopNode
<1>3. CASE FinishSort
    BY <1>1, <1>3, StandingKeeps DEF FinishSort
<1>4. CASE Stop
    BY <1>1, <1>4, StandingKeeps DEF Stop, AtNode
<1>5. CASE Finish
    BY <1>1, <1>5, StandingKeeps DEF Finish
<1>6. CASE UNCHANGED vars
    BY <1>1, <1>6, StandingKeeps DEF vars
<1>7. CASE Resume \/ WalkPast \/ PassFence \/ Execute \/ Raise
    <2> SUFFICES ASSUME WellFormed(Graph)' PROVE WalkInv'
        BY <1>1 DEF WalkInv
    <2>1. AtNode /\ call' = call /\ ordered' = ordered
        BY <1>7 DEF Resume, WalkPast, PassFence, Execute, Raise, Publish
    <2>2. WellFormed(Graph)
        BY <2>1 DEF Graph
    <2>3. Here \in Nodes
        <3>1. phase \notin {"sorting", "cycle"}
            BY <2>1 DEF AtNode
        <3>2. Order \in Seq(Nodes) /\ DOMAIN Order = 1..Len(Order) /\ Len(Order) \in Nat
            BY <1>1, <2>2, <3>1, OrderOfTheWalk
        <3>3. pos \in 1..Len(Order)
            BY <2>1, <2>2, <3>2 DEF AtNode, WalkInv
        <3> QED
            BY <3>2, <3>3 DEF Here
    <2>4. Published[Here] = IF Resumed(Here) THEN call.store[Here].ports ELSE call.lights[Here]
        BY <2>3 DEF Published
    <2>5. CASE Resume
        <3>1. /\ status' = [status EXCEPT ![Here] = "completed"]
              /\ lit' = [lit EXCEPT ![Here] = call.store[Here].ports]
              /\ executed' = executed /\ Resumed(Here) /\ phase' = phase /\ pos' = pos + 1
            BY <2>5 DEF Resume, Publish
        <3> HIDE DEF Here, Published
        <3> QED
            BY <1>1, <2>1, <2>2, <2>4, <3>1, DecisionKeeps DEF Passed
    <2>6. CASE WalkPast
        <3>1. /\ status' = [status EXCEPT ![Here] = "skipped"] /\ lit' = lit
              /\ executed' = executed /\ Passed(Here) /\ phase' = phase /\ pos' = pos + 1
            BY <2>6 DEF WalkPast, Passed
        <3> QED
            BY <1>1, <2>1, <2>2, <3>1, DecisionKeeps
    <2>7. CASE PassFence
        <3>1. /\ status' = [status EXCEPT ![Here] = "completed"]
              /\ lit' = [lit EXCEPT ![Here] = {FencePort}]
              /\ executed' = executed /\ ~Resumed(Here) /\ ~WalksPast(Here) /\ Fenced(Here)
              /\ phase' = phase /\ pos' = pos + 1
            BY <2>7 DEF PassFence, Publish
        <3> QED
            BY <1>1, <2>1, <2>2, <3>1, DecisionKeeps DEF Passed
    <2>8. CASE Execute
        <3>1. /\ status' = [status EXCEPT ![Here] = "completed"]
              /\ lit' = [lit EXCEPT ![Here] = call.lights[Here]]
              /\ executed' = executed \cup {Here} /\ ~Resumed(Here) /\ ~WalksPast(Here) /\ ~Fenced(Here)
              /\ phase' = phase /\ pos' = pos + 1
            BY <2>8 DEF Execute, Publish
        <3> QED
            BY <1>1, <2>1, <2>2, <2>4, <3>1, DecisionKeeps DEF Passed
    <2>9. CASE Raise
        <3>1. /\ status' = [status EXCEPT ![Here] = "failed"] /\ lit' = lit
              /\ executed' = executed \cup {Here} /\ ~Resumed(Here) /\ ~WalksPast(Here) /\ ~Fenced(Here)
              /\ phase' = "failed" /\ pos' = pos
            BY <2>9 DEF Raise
        <3> QED
            BY <1>1, <2>1, <2>2, <3>1, DecisionKeeps DEF Passed
    <2> QED
        BY <1>7, <2>5, <2>6, <2>7, <2>8, <2>9
<1> QED
    BY <1>2, <1>3, <1>4, <1>5, <1>6, <1>7 DEF Next

LEMMA WalkHolds == Spec => []WalkInv
BY WalkStarts, WalkKeeps, PTL DEF Spec

-----------------------------------------------------------------------------
(* What follows *)

\* When the queue is empty, ordered are the ids that nothing keeps from it: what is
\* ordered has its sources before it, so the first outside a set that holds every id
\* once it holds its sources would belong to the set; and an id all of whose sources
\* are ordered has degree zero.
LEMMA OrderedAreOrderable ==
    ASSUME SortInv, queue = <<>>
    PROVE  Done = Orderable /\ Cardinality(Orderable) = Len(ordered)
<1>0. /\ call \in Calls /\ ordered \in Seq(Keys)
      /\ ordered \o queue = ordered
      /\ DOMAIN ordered = 1..Len(ordered) /\ Len(ordered) \in Nat
    <2>1. call \in Calls /\ ordered \in Seq(Keys)
        BY DEF SortInv
    <2> QED
        BY <2>1
<1>1. Done \in SUBSET Keys
    BY <1>0 DEF Done
<1>2. \A i, j \in DOMAIN ordered : ordered[i] = ordered[j] => i = j
    BY <1>0 DEF SortInv, DegreesCountUnorderedSources
<1>3. \A j \in DOMAIN ordered : \A i \in DOMAIN Edges :
          Edges[i].target = ordered[j] => \E h \in DOMAIN ordered : h < j /\ ordered[h] = Edges[i].source
    BY DEF SortInv
<1>4. ASSUME NEW m \in Keys, \A i \in DOMAIN Edges : Edges[i].target = m => Edges[i].source \in Done
      PROVE  m \in Done
    <2>1. Unordered(m, Done) = {}
        BY <1>4 DEF Unordered
    <2>2. degree[m] = Cardinality(Unordered(m, Done))
        BY DEF SortInv, DegreesCountUnorderedSources, Unordered, Done
    <2>3. degree[m] = 0
        BY <2>1, <2>2, FS_EmptySet
    <2>4. \E i \in DOMAIN ordered : ordered[i] = m
        BY <1>0, <2>3 DEF SortInv
    <2> QED
        BY <2>4 DEF Done
<1>5. Orderable \subseteq Done
    BY <1>1, <1>4 DEF Orderable
<1>6. ASSUME NEW X \in SUBSET Keys,
             \A m \in Keys : (\A i \in DOMAIN Edges : Edges[i].target = m => Edges[i].source \in X)
                                 => m \in X
      PROVE  \A j \in DOMAIN ordered : ordered[j] \in X
    <2> DEFINE Bad == {j \in 1..Len(ordered) : ordered[j] \notin X}
    <2>1. ASSUME Bad # {} PROVE FALSE
        <3>1. PICK j \in Bad : \A h \in Bad : j <= h
            <4>1. Bad \in SUBSET Nat
                BY <1>0
            <4> HIDE DEF Bad
            <4> QED
                BY <2>1, <4>1, Least
        <3>2. j \in DOMAIN ordered /\ ordered[j] \in Keys /\ ordered[j] \notin X
            BY <1>0
        <3>3. ASSUME NEW i \in DOMAIN Edges, Edges[i].target = ordered[j]
              PROVE  Edges[i].source \in X
            <4>1. PICK h \in DOMAIN ordered : h < j /\ ordered[h] = Edges[i].source
                BY <1>3, <3>2, <3>3
            <4>2. h \notin Bad
                BY <1>0, <3>1, <4>1
            <4> QED
                BY <1>0, <4>1, <4>2
        <3> HIDE DEF Bad
        <3> QED
            BY <1>6, <3>2, <3>3
    <2> QED
        BY <1>0, <2>1
<1>7. Done \subseteq Orderable
    <2>1. ASSUME NEW k \in Done PROVE k \in Orderable
        <3>1. k \in Keys
            BY <1>1
        <3>2. PICK j \in DOMAIN ordered : ordered[j] = k
            BY DEF Done
        <3> QED
            BY <1>6, <3>1, <3>2 DEF Orderable
    <2> QED
        BY <2>1
<1>8. Cardinality(Done) = Len(ordered)
    <2>1. ordered \in [1..Len(ordered) -> Done]
        BY <1>0 DEF Done
    <2>2. ordered \in Surjection(1..Len(ordered), Done) /\ ordered \in Injection(1..Len(ordered), Done)
        BY <1>0, <1>2, <2>1 DEF Done, Injection, Surjection, IsInjective
    <2>3. ASSUME NEW l \in Nat
          PROVE  IsFiniteSet(1..l) /\ Cardinality(1..l) = l
        BY FS_Interval
    <2>4. IsFiniteSet(1..Len(ordered)) /\ Cardinality(1..Len(ordered)) = Len(ordered)
        BY <1>0, <2>3
    <2> QED
        BY <2>2, <2>4, FS_Surjection
<1>9. Done = Orderable
    BY <1>5, <1>7
<1> QED
    BY <1>8, <1>9

\* Dropping the ids that are no node's leaves the nodes in their order.
LEMMA OrderIsOrdered ==
    ASSUME SortInv, queue = <<>>
    PROVE  /\ {Order[i] : i \in DOMAIN Order} = Done \cap Nodes
           /\ \A i, j \in DOMAIN Order : Order[i] \in Sources(Graph, Order[j]) => i < j
<1>0. /\ call \in Calls /\ ordered \in Seq(Keys)
      /\ ordered \o queue = ordered
      /\ DOMAIN ordered = 1..Len(ordered) /\ Len(ordered) \in Nat
    <2>1. call \in Calls /\ ordered \in Seq(Keys)
        BY DEF SortInv
    <2> QED
        BY <2>1
<1>1. \A i, j \in DOMAIN ordered : ordered[i] = ordered[j] => i = j
    BY <1>0 DEF SortInv, DegreesCountUnorderedSources
<1> DEFINE I == {i \in DOMAIN ordered : ordered[i] \in Nodes}
<1>2. I \in SUBSET (DOMAIN ordered) /\ Order = ElementsAt(ordered, I)
    BY DEF Order
<1>3. \A i \in I : i \in DOMAIN ordered /\ ordered[i] \in Nodes
    OBVIOUS
<1>4. \A i \in DOMAIN ordered : ordered[i] \in Nodes => i \in I
    OBVIOUS
<1> HIDE DEF I
<1>5. PICK at \in [DOMAIN Order -> I] :
          /\ Order \in Seq(Keys)
          /\ \A k \in DOMAIN Order : Order[k] = ordered[at[k]]
          /\ \A k, l \in DOMAIN Order : k < l => at[k] < at[l]
          /\ \A i \in I : \E k \in DOMAIN Order : at[k] = i
    <2>1. \E at \in [DOMAIN ElementsAt(ordered, I) -> I] :
              /\ ElementsAt(ordered, I) \in Seq(Keys)
              /\ \A k \in DOMAIN ElementsAt(ordered, I) : ElementsAt(ordered, I)[k] = ordered[at[k]]
              /\ \A k, l \in DOMAIN ElementsAt(ordered, I) : k < l => at[k] < at[l]
              /\ \A i \in I : \E k \in DOMAIN ElementsAt(ordered, I) : at[k] = i
        <3>1. ordered \in Seq(Keys)
            BY <1>0
        <3>2. I \in SUBSET (DOMAIN ordered)
            BY <1>2
        <3> QED
            BY <3>1, <3>2, Comprehension
    <2> QED
        BY <1>2, <2>1
<1>6. /\ \A k, l \in DOMAIN Order : k = l \/ k < l \/ l < k
      /\ \A k \in DOMAIN Order : at[k] \in I /\ at[k] \in DOMAIN ordered /\ at[k] \in Nat
    <2>1. Order \in Seq(Keys)
        BY <1>5
    <2>2. \A k, l \in DOMAIN Order : k = l \/ k < l \/ l < k
        BY <2>1
    <2>3. \A k \in DOMAIN Order : at[k] \in I
        BY <1>5
    <2> QED
        BY <1>0, <1>3, <2>2, <2>3
<1>7. {Order[i] : i \in DOMAIN Order} \subseteq Done \cap Nodes
    BY <1>3, <1>5, <1>6 DEF Done
<1>8. ASSUME NEW n \in Done \cap Nodes
      PROVE  \E k \in DOMAIN Order : Order[k] = n
    <2>1. PICK i \in DOMAIN ordered : ordered[i] = n
        BY DEF Done
    <2>2. PICK k \in DOMAIN Order : at[k] = i
        BY <1>4, <1>5, <2>1
    <2> QED
        BY <1>5, <2>1, <2>2
<1>9. ASSUME NEW i \in DOMAIN Order, NEW j \in DOMAIN Order, Order[i] \in Sources(Graph, Order[j])
      PROVE  i < j
    <2>1. PICK e \in Graph.edges : e.source = Order[i] /\ e.target = Order[j]
        BY <1>9 DEF Sources, Incoming
    <2>2. PICK x \in DOMAIN Edges : Edges[x] = e
        BY <1>0, CallFacts
    <2>3. Edges[x].target = ordered[at[j]] /\ Edges[x].source = ordered[at[i]]
        BY <1>5, <2>1, <2>2
    <2>4. PICK h \in DOMAIN ordered : h < at[j] /\ ordered[h] = Edges[x].source
        BY <1>6, <2>3 DEF SortInv
    <2>5. h = at[i]
        BY <1>1, <1>6, <2>3, <2>4
    <2>6. at[i] < at[j]
        BY <2>4, <2>5
    <2>7. ~(j < i) /\ i # j
        BY <1>5, <1>6, <2>6
    <2> QED
        BY <1>6, <2>7
<1> QED
    BY <1>7, <1>8, <1>9

LEMMA SortedRight == SortInv => SortIsSound
<1> SUFFICES ASSUME SortInv, phase # "sorting"
             PROVE  SortsTopologically
    BY DEF SortIsSound, SortInv, SortsTopologically
<1>1. queue = <<>> /\ (phase = "cycle") = ~Sorted
    BY DEF SortInv
<1>2. (phase = "cycle") = (Cardinality(Orderable) # Len(Graph.order))
    BY <1>1, OrderedAreOrderable DEF Sorted
<1>3. /\ {Order[i] : i \in DOMAIN Order} = Orderable \cap Nodes
      /\ \A i, j \in DOMAIN Order : Order[i] \in Sources(Graph, Order[j]) => i < j
    BY <1>1, OrderedAreOrderable, OrderIsOrdered
<1>4. ASSUME WellFormed(Graph)
      PROVE  /\ (phase = "cycle") = ~Acyclic(Graph)
             /\ phase # "cycle" => {Order[i] : i \in DOMAIN Order} = Nodes
    <2>1. Sorted <=> Acyclic(Graph)
        BY <1>1, <1>4, OrdersAllIffAcyclic
    <2> QED
        BY <1>1, <1>4, <2>1, OrderOfTheWalk
<1> QED
    BY <1>2, <1>3, <1>4 DEF SortsTopologically

\* For every graph, and whatever ids its edges name: the sort's degrees count the edges
\* from ids not yet ordered, nothing is queued twice, what it returns lists the nodes
\* that no cycle and no unknown id leads to, each after all of its sources, and it
\* fails exactly when these and the foreign ids it met are not as many as the nodes;
\* where every edge joins nodes, exactly on a cycle (_topo_sort).
THEOREM SortIsAlwaysSound == Spec => []SortIsSound
<1>1. WalkInv => SortIsSound
    BY SortedRight DEF WalkInv
<1> QED
    BY <1>1, WalkHolds, PTL

\* A node the walk comes to has sources that were decided before it.
LEMMA SourcesAreSettled ==
    ASSUME WalkInv, WellFormed(Graph), AtNode
    PROVE  SourcesSettledFirst
<1>1. SortInv /\ phase \notin {"sorting", "cycle"} /\ pos \in Nat \ {0} /\ pos <= Len(Order)
    BY DEF WalkInv, AtNode
<1>2. pos \in DOMAIN Order
    BY <1>1, OrderOfTheWalk
<1>3. ASSUME NEW s \in Sources(Graph, Here)
      PROVE  status[s] # "idle"
    <2>1. PICK i \in DOMAIN Order : i < pos /\ Order[i] = s
        BY <1>1, <1>2, OrderOfTheWalk DEF Here
    <2>2. status[s] = (IF Passed(s) THEN "skipped" ELSE "completed")
        BY <1>1, <2>1 DEF WalkInv
    <2> QED
        BY <2>2
<1> QED
    BY <1>3 DEF SourcesSettledFirst

\* At the end of a run of the whole graph, the first node completed without being
\* reached, or reached without being completed, would have only sources of which
\* that is not so.
LEMMA CompletedIsReached ==
    ASSUME WalkInv, WellFormed(Graph), phase = "ok", call.target = NoNode,
           {n \in Nodes : Resumed(n)} \subseteq RunsIn(Graph, Published, call.entries)
    PROVE  \A n \in Nodes :
              /\ status[n] \in {"completed", "skipped"}
              /\ status[n] = "completed" <=> n \in RunsIn(Graph, Published, call.entries)
<1> DEFINE Reached == RunsIn(Graph, Published, call.entries)
<1>1. /\ SortInv /\ queue = <<>> /\ Sorted
      /\ lit = [n \in Nodes |->
                   IF status[n] # "completed" THEN {}
                   ELSE IF Fenced(n) /\ ~Resumed(n) THEN {FencePort} ELSE Published[n]]
    BY DEF WalkInv, SortInv
<1>2. Acyclic(Graph)
    BY <1>1, OrdersAllIffAcyclic
<1>3. \A n \in Nodes : status[n] = (IF Passed(n) THEN "skipped" ELSE "completed")
    <2>1. pos > Len(Order) /\ pos \in Nat
        BY DEF WalkInv
    <2>2. /\ DOMAIN Order = 1..Len(Order) /\ Len(Order) \in Nat
          /\ {Order[i] : i \in DOMAIN Order} = Nodes
        BY <1>1, OrderOfTheWalk
    <2>3. \A i \in DOMAIN Order : i < pos
        BY <2>1, <2>2
    <2>4. \A i \in DOMAIN Order : status[Order[i]] = (IF Passed(Order[i]) THEN "skipped" ELSE "completed")
        BY <2>3 DEF WalkInv
    <2> QED
        BY <2>2, <2>4
<1>4. \A n \in Nodes : lit[n] = IF status[n] = "completed" THEN Published[n] ELSE {}
    BY <1>1 DEF Fenced
<1> DEFINE T == {n \in Nodes : ~(status[n] = "completed" <=> n \in Reached)}
<1>5. ASSUME T # {} PROVE FALSE
    <2>1. PICK x \in T : Sources(Graph, x) \cap T = {}
        BY <1>2, <1>5, FirstOfASet DEF Nodes
    <2>2. x \in Nodes /\ status[x] = (IF Passed(x) THEN "skipped" ELSE "completed")
        BY <1>3
    <2>3. ASSUME NEW e \in Incoming(Graph, x)
          PROVE  e.handle \in lit[e.source] <=> e.handle \in Published[e.source] /\ e.source \in Reached
        <3>1. e.source \in Sources(Graph, x) /\ e.source \in Nodes
            BY <2>3, GraphEnds DEF Sources, Nodes
        <3>2. status[e.source] = "completed" <=> e.source \in Reached
            BY <2>1, <3>1
        <3> QED
            BY <1>4, <3>1, <3>2
    <2>4. x \in Reached <=>
              /\ x \notin Graph.layout
              /\ IF Incoming(Graph, x) = {} THEN x \in call.entries
                 ELSE \E e \in Incoming(Graph, x) :
                         e.handle \in Published[e.source] /\ e.source \in Reached
        BY <2>2, RunsInSolves DEF Nodes
    <2> HIDE DEF Reached
    <2>8. \A e \in Incoming(Graph, x) : e.source \in Nodes
        BY GraphEnds DEF Incoming, Nodes
    <2>5. x \in Reached <=> ~WalksPast(x)
        BY <2>3, <2>4, <2>8 DEF WalksPast, InactiveEntry, AnyActive, LitBy
    <2>6. CASE Resumed(x)
        BY <2>1, <2>2, <2>6 DEF Passed, Reached
    <2>7. CASE ~Resumed(x)
        BY <2>1, <2>2, <2>5, <2>7 DEF Passed
    <2> QED
        BY <2>6, <2>7
<1> QED
    BY <1>3, <1>5

\* For every imported graph, whatever the executors light and whichever nodes the
\* checkpoints resume: when the walk comes to a node its sources are settled, and a
\* run that ends without error has run exactly the nodes its entries and the lit
\* ports lead to, but for the resumed ones (_walk).
THEOREM WalkIsAlwaysSound == Spec => []WalkIsSound
<1>1. ASSUME WalkInv, WellFormed(Graph)
      PROVE  RunsWhatIsReached
    <2> DEFINE reached == RunsIn(Graph, Published, call.entries)
               prior == {n \in Nodes : Resumed(n)}
    <2>1. ASSUME phase = "ok", call.target = NoNode, prior \subseteq reached
          PROVE  executed = reached \ prior
        <3>1. \A n \in Nodes : /\ status[n] \in {"completed", "skipped"}
                               /\ status[n] = "completed" <=> n \in reached
            BY <1>1, <2>1, CompletedIsReached
        <3>2. executed = {n \in Nodes : /\ status[n] \in {"completed", "failed"}
                                        /\ ~Resumed(n) /\ ~Fenced(n)}
            BY <1>1 DEF WalkInv
        <3>3. reached \subseteq Nodes
            BY DEF RunsIn, Nodes
        <3>4. \A n : ~Fenced(n)
            BY <2>1 DEF Fenced
        <3> HIDE DEF reached
        <3> QED
            BY <3>1, <3>2, <3>3, <3>4
    <2> QED
        BY <2>1 DEF RunsWhatIsReached
<1>2. WalkInv => WalkIsSound
    BY <1>1, SourcesAreSettled DEF WalkIsSound, SourcesSettledFirst
<1> QED
    BY <1>2, WalkHolds, PTL

\* What a replay decides on a target it has come to is what the frontier decides:
\* a fenced node publishes where no edge reads, a completed one what it stored.
LEMMA ReplayDecides ==
    ASSUME WalkInv, call.target # NoNode, phase \in {"ok", "failed"}
    PROVE  /\ call.target \in Nodes /\ ~Resumed(call.target)
           /\ status[call.target] \in {"completed", "failed"}
                 <=> ~WalkedPast(Graph, call.store, call.target)
<1> DEFINE x == call.target
<1>1. /\ SortInv /\ call \in Calls
      /\ WellFormed(Graph) /\ x \in Nodes /\ ~Resumed(x) /\ FencePort \notin PortsOf(Graph)
    BY CallsAssumption DEF WalkInv, SortInv, Graph, Nodes, Resumed
<1>2. /\ lit = [n \in Nodes |->
                   IF status[n] # "completed" THEN {}
                   ELSE IF Fenced(n) /\ ~Resumed(n) THEN {FencePort} ELSE Published[n]]
      /\ \A i \in DOMAIN Order :
            /\ i < pos => status[Order[i]] = (IF Passed(Order[i]) THEN "skipped" ELSE "completed")
            /\ pos <= i => \/ status[Order[i]] = "idle"
                           \/ /\ status[Order[i]] = "failed" /\ phase = "failed"
                              /\ i = pos
                              /\ ~Resumed(Order[i]) /\ ~WalksPast(Order[i]) /\ ~Fenced(Order[i])
      /\ phase = "ok" => pos > Len(Order)
      /\ phase = "failed" => status[x] = "failed"
      /\ pos \in Nat
    BY <1>1 DEF WalkInv
<1>3. /\ DOMAIN Order = 1..Len(Order) /\ Len(Order) \in Nat
      /\ {Order[i] : i \in DOMAIN Order} = Nodes
      /\ \A j \in DOMAIN Order : \A s \in Sources(Graph, Order[j]) :
            \E i \in DOMAIN Order : i < j /\ Order[i] = s
      /\ \A i, j \in DOMAIN Order : Order[i] = Order[j] => i = j
    BY <1>1, OrderOfTheWalk
<1>4. PICK j \in DOMAIN Order : Order[j] = x
    BY <1>1, <1>3
<1> HIDE DEF x
<1>5. /\ j <= pos
      /\ status[x] \in {"completed", "failed"} <=> ~WalksPast(x)
    <2>1. CASE phase = "ok"
        <3>1. j < pos
            BY <1>2, <1>3, <2>1
        <3>2. status[x] = (IF Passed(x) THEN "skipped" ELSE "completed")
            BY <1>2, <1>4, <3>1
        <3> QED
            BY <1>1, <1>2, <1>3, <3>1, <3>2 DEF Passed
    <2>2. CASE phase = "failed"
        <3>1. ~(j < pos)
            <4>1. j < pos => status[x] \in {"skipped", "completed"}
                BY <1>2, <1>4
            <4> QED
                BY <1>2, <2>2, <4>1
        <3>2. pos <= j
            BY <1>2, <1>3, <3>1
        <3>3. j = pos /\ ~WalksPast(x)
            BY <1>2, <1>4, <2>2, <3>2
        <3> QED
            BY <1>2, <2>2, <3>3
    <2> QED
        BY <2>1, <2>2
<1>6. ASSUME NEW e \in Incoming(Graph, x)
      PROVE  e.handle \in lit[e.source] <=> Active(call.store, e)
    <2> DEFINE s == e.source
    <2>1. e \in Graph.edges /\ s \in Sources(Graph, x)
        BY <1>6 DEF Sources, Incoming
    <2>2. PICK i \in DOMAIN Order : i < j /\ Order[i] = s
        BY <1>3, <1>4, <2>1
    <2>3. i < pos /\ i # j /\ s \in Nodes /\ s # x
        BY <1>2, <1>3, <1>4, <1>5, <2>2
    <2>4. status[s] = (IF Passed(s) THEN "skipped" ELSE "completed")
        BY <1>2, <2>2, <2>3
    <2>5. Fenced(s)
        BY <2>3 DEF Fenced, x
    <2>6. e.handle # FencePort
        BY <1>1, <2>1 DEF PortsOf
    <2>7. lit[s] = IF status[s] # "completed" THEN {}
                   ELSE IF ~Resumed(s) THEN {FencePort} ELSE Published[s]
        BY <1>2, <2>3, <2>5
    <2>8. Resumed(s) => Published[s] = call.store[s].ports
        BY <2>3 DEF Published
    <2> HIDE DEF s
    <2>9. CASE Resumed(s)
        <3>1. lit[s] = call.store[s].ports
            BY <2>4, <2>7, <2>8, <2>9 DEF Passed
        <3> QED
            BY <2>9, <3>1 DEF s, Active, Resumed
    <2>10. CASE ~Resumed(s)
        <3>1. e.handle \notin lit[s]
            BY <2>6, <2>7, <2>10
        <3> QED
            BY <2>10, <3>1 DEF s, Active, Resumed
    <2> QED
        BY <2>9, <2>10
<1>9. \A e \in Incoming(Graph, x) : e.source \in Nodes
    BY <1>1, GraphEnds DEF Incoming, Nodes
<1>7. AnyActive(x) <=> ActiveInto(Graph, call.store, x) # {}
    BY <1>6, <1>9 DEF AnyActive, ActiveInto, LitBy
<1>8. WalksPast(x) <=> WalkedPast(Graph, call.store, x)
    BY <1>7 DEF WalksPast, WalkedPast, Dead, InactiveEntry
<1> QED
    BY <1>1, <1>5, <1>8 DEF x

\* For every imported graph and every store of checkpoints: a fenced replay runs its
\* target and nothing else, and runs it exactly when the frontier's rule does not
\* walk past it (durable/replay.py, durable/frontier.py).
THEOREM ReplayAlwaysAgrees == Spec => []ReplayAgreesWithFrontier
<1>1. ASSUME WalkInv, call.target # NoNode
      PROVE  ReplayAgreesWithFrontier
    <2>1. WellFormed(Graph)
        BY <1>1, CallsAssumption DEF WalkInv, SortInv, Graph
    <2>2. executed = {n \in Nodes : /\ status[n] \in {"completed", "failed"}
                                    /\ ~Resumed(n) /\ ~Fenced(n)}
        BY <1>1, <2>1 DEF WalkInv
    <2>3. executed \subseteq {call.target}
        BY <1>1, <2>2 DEF Fenced
    <2>4. ASSUME phase \in {"ok", "failed"}
          PROVE  (executed = {call.target}) = ~WalkedPast(Graph, call.store, call.target)
        <3>1. /\ call.target \in Nodes /\ ~Resumed(call.target)
              /\ status[call.target] \in {"completed", "failed"}
                    <=> ~WalkedPast(Graph, call.store, call.target)
            BY <1>1, <2>4, ReplayDecides
        <3>2. call.target \in executed <=> status[call.target] \in {"completed", "failed"}
            BY <2>2, <3>1 DEF Fenced
        <3>3. executed = {call.target} <=> call.target \in executed
            BY <2>3
        <3> QED
            BY <3>1, <3>2, <3>3
    <2> QED
        BY <2>3, <2>4 DEF ReplayAgreesWithFrontier
<1>2. WalkInv => ReplayAgreesWithFrontier
    BY <1>1 DEF ReplayAgreesWithFrontier
<1> QED
    BY <1>2, WalkHolds, PTL
=============================================================================
