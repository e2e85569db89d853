---------------------------- MODULE FrontierProofs ----------------------------
(***************************************************************************)
(* Lemmas about flow graphs and their frontier, for any well-formed graph  *)
(* g and any store s: what a path is, that every set of nodes of an        *)
(* acyclic graph has a first one, and how the frontier moves when a row is *)
(* written.                                                                *)
(***************************************************************************)
EXTENDS Frontier, FiniteSetTheorems, WellFoundedInduction, TLAPS

-----------------------------------------------------------------------------
(* Graphs *)

LEMMA GraphEnds ==
    ASSUME NEW g, WellFormed(g)
    PROVE  /\ \A e \in g.edges : e.source \in NodesOf(g) /\ e.target \in NodesOf(g)
           /\ \A n : Sources(g, n) \subseteq NodesOf(g)
           /\ \A e \in g.edges : e \in Incoming(g, e.target) /\ e.source \in Sources(g, e.target)
           /\ \A n : \A m \in Sources(g, n) : \E e \in g.edges : e.source = m /\ e.target = n
BY DEF WellFormed, Sources, Incoming

LEMMA GraphFinite ==
    ASSUME NEW g, WellFormed(g)
    PROVE  /\ IsFiniteSet(NodesOf(g))
           /\ Len(g.order) \in Nat
           /\ DOMAIN g.order = 1..Len(g.order)
           /\ \A i \in 1..Len(g.order) : g.order[i] \in NodesOf(g)
           /\ \A n \in NodesOf(g) : \E i \in 1..Len(g.order) : g.order[i] = n
<1>1. g.order \in Seq(NodesOf(g))
    BY DEF WellFormed
<1> DEFINE N == 1..Len(g.order)
<1>2. IsFiniteSet(N)
    BY <1>1, FS_Interval
<1>3. g.order \in Surjection(N, NodesOf(g))
    BY <1>1 DEF Surjection, NodesOf
<1> QED
    BY <1>1, <1>2, <1>3, FS_Surjection DEF NodesOf

\* A path goes on along an edge.
LEMMA PathStep ==
    ASSUME NEW g, WellFormed(g), NEW n, NEW e \in g.edges,
           e.source = n \/ e.source \in ReachedFrom(g, n)
    PROVE  e.target \in ReachedFrom(g, n)
BY GraphEnds DEF ReachedFrom

\* Two paths make one.
LEMMA PathsJoin ==
    ASSUME NEW g, WellFormed(g), NEW n, NEW m \in ReachedFrom(g, n)
    PROVE  ReachedFrom(g, m) \subseteq ReachedFrom(g, n)
<1>1. ReachedFrom(g, n) \in SUBSET NodesOf(g)
    BY DEF ReachedFrom
<1>2. \A e \in g.edges :
          (e.source = m \/ e.source \in ReachedFrom(g, n)) => e.target \in ReachedFrom(g, n)
    BY PathStep
<1> QED
    BY <1>1, <1>2 DEF ReachedFrom

\* Some node of every set has no source in it: the set's first node on any path.
LEMMA FirstOfASet ==
    ASSUME NEW g, WellFormed(g), Acyclic(g), NEW T \in SUBSET NodesOf(g), T # {}
    PROVE  \E x \in T : Sources(g, x) \cap T = {}
<1> DEFINE N == NodesOf(g)
           Before(x) == {y \in N : x \in ReachedFrom(g, y)}
           B == {Before(x) : x \in T}
<1>1. IsFiniteSet(N)
    BY GraphFinite
<1>2. IsWellFoundedOn(StrictSubsetOrdering(N), FiniteSubsetsOf(N))
    BY FS_StrictSubsetOrderingWellFounded
<1>3. B \subseteq FiniteSubsetsOf(N) /\ B # {}
    <2>1. ASSUME NEW x PROVE IsFiniteSet(Before(x)) /\ Before(x) \in SUBSET N
        BY <1>1, FS_Subset
    <2> QED
        BY <2>1 DEF FiniteSubsetsOf
<1>4. PICK b \in B : \A c \in B : ~(<<c, b>> \in StrictSubsetOrdering(N))
    BY <1>2, <1>3, WFMin
<1>5. PICK x \in T : b = Before(x)
    BY <1>4
<1>6. ASSUME NEW y \in Sources(g, x) \cap T
      PROVE  FALSE
    <2>1. PICK e \in g.edges : e.source = y /\ e.target = x
        BY <1>6, GraphEnds
    <2>2. x \in ReachedFrom(g, y) /\ \A z : y \in ReachedFrom(g, z) => x \in ReachedFrom(g, z)
        BY <2>1, PathStep
    <2>3. y \in N /\ y \notin ReachedFrom(g, y)
        BY <1>6 DEF Acyclic
    <2>4. Before(y) \subseteq Before(x) /\ y \in Before(x) /\ y \notin Before(y)
        BY <2>2, <2>3
    <2>5. <<Before(y), Before(x)>> \in StrictSubsetOrdering(N)
        BY <2>4 DEF StrictSubsetOrdering
    <2> QED
        BY <1>4, <1>5, <1>6, <2>5
<1> QED
    BY <1>6

\* The declaration order is a strict total order of the nodes.
LEMMA DeclaredOrder ==
    ASSUME NEW g, WellFormed(g), NEW n \in NodesOf(g), NEW m \in NodesOf(g)
    PROVE  /\ n = m \/ DeclaredBefore(g, n, m) \/ DeclaredBefore(g, m, n)
           /\ DeclaredBefore(g, n, m) => n # m /\ ~DeclaredBefore(g, m, n)
           /\ \A k \in NodesOf(g) :
                 DeclaredBefore(g, n, m) /\ DeclaredBefore(g, m, k) => DeclaredBefore(g, n, k)
<1>1. \A i, j \in DOMAIN g.order : g.order[i] = g.order[j] => i = j
    BY DEF WellFormed
<1>2. PICK i \in 1..Len(g.order) : g.order[i] = n
    BY GraphFinite
<1>3. PICK j \in 1..Len(g.order) : g.order[j] = m
    BY GraphFinite
<1>4. DOMAIN g.order = 1..Len(g.order) /\ Len(g.order) \in Nat
    BY GraphFinite
<1>5. DeclaredBefore(g, n, m) <=> i < j
    BY <1>1, <1>2, <1>3, <1>4 DEF DeclaredBefore
<1>6. DeclaredBefore(g, m, n) <=> j < i
    BY <1>1, <1>2, <1>3, <1>4 DEF DeclaredBefore
<1>7. ASSUME NEW k \in NodesOf(g), DeclaredBefore(g, n, m), DeclaredBefore(g, m, k)
      PROVE  DeclaredBefore(g, n, k)
    <2>1. PICK l \in 1..Len(g.order) : g.order[l] = k
        BY GraphFinite
    <2>2. j < l
        BY <1>1, <1>3, <1>4, <1>7, <2>1 DEF DeclaredBefore
    <2>3. i < j
        BY <1>5, <1>7
    <2>4. i < l /\ i \in DOMAIN g.order /\ l \in DOMAIN g.order
        BY <1>4, <2>2, <2>3
    <2> QED
        BY <1>2, <2>1, <2>4 DEF DeclaredBefore
<1> QED
    BY <1>1, <1>2, <1>3, <1>4, <1>5, <1>6, <1>7

\* Every set of nodes has one that is declared first.
LEMMA DeclaredFirst ==
    ASSUME NEW g, WellFormed(g), NEW T \in SUBSET NodesOf(g), T # {}
    PROVE  \E x \in T : \A y \in T : x = y \/ DeclaredBefore(g, x, y)
<1> DEFINE N == NodesOf(g)
           Before(x) == {y \in N : DeclaredBefore(g, y, x)}
           B == {Before(x) : x \in T}
<1>1. IsFiniteSet(N)
    BY GraphFinite
<1>2. IsWellFoundedOn(StrictSubsetOrdering(N), FiniteSubsetsOf(N))
    BY FS_StrictSubsetOrderingWellFounded
<1>3. B \subseteq FiniteSubsetsOf(N) /\ B # {}
    <2>1. ASSUME NEW x PROVE IsFiniteSet(Before(x)) /\ Before(x) \in SUBSET N
        BY <1>1, FS_Subset
    <2> QED
        BY <2>1 DEF FiniteSubsetsOf
<1>4. PICK b \in B : \A c \in B : ~(<<c, b>> \in StrictSubsetOrdering(N))
    BY <1>2, <1>3, WFMin
<1>5. PICK x \in T : b = Before(x)
    BY <1>4
<1>6. ASSUME NEW y \in T, x # y, ~DeclaredBefore(g, x, y)
      PROVE  FALSE
    <2>1. DeclaredBefore(g, y, x) /\ ~DeclaredBefore(g, y, y)
        BY <1>6, DeclaredOrder
    <2>2. \A z \in N : DeclaredBefore(g, z, y) => DeclaredBefore(g, z, x)
        BY <2>1, DeclaredOrder
    <2>3. Before(y) \subseteq Before(x) /\ y \in Before(x) /\ y \notin Before(y)
        BY <2>1, <2>2
    <2>4. <<Before(y), Before(x)>> \in StrictSubsetOrdering(N)
        BY <2>3 DEF StrictSubsetOrdering
    <2> QED
        BY <1>4, <1>5, <2>4
<1> QED
    BY <1>6

\* The least set of nodes closed under the rule of RunsIn solves its equation, so
\* whatever solution is chosen, a node runs exactly if the rule says so.
LEMMA RunsInSolves ==
    ASSUME NEW g, WellFormed(g), NEW lights, NEW entries, NEW n \in NodesOf(g)
    PROVE  n \in RunsIn(g, lights, entries) <=>
              /\ n \notin g.layout
              /\ IF Incoming(g, n) = {} THEN n \in entries
                 ELSE \E e \in Incoming(g, n) :
                         e.handle \in lights[e.source] /\ e.source \in RunsIn(g, lights, entries)
<1> DEFINE N == NodesOf(g)
           Rule(m, X) == /\ m \notin g.layout
                         /\ IF Incoming(g, m) = {} THEN m \in entries
                            ELSE \E e \in Incoming(g, m) : e.handle \in lights[e.source] /\ e.source \in X
           Says(m, f) == /\ m \notin g.layout
                         /\ IF Incoming(g, m) = {} THEN m \in entries
                            ELSE \E e \in Incoming(g, m) : e.handle \in lights[e.source] /\ f[e.source]
           Closed(X) == \A m \in N : Rule(m, X) => m \in X
           L == {m \in N : \A X \in SUBSET N : Closed(X) => m \in X}
           least == [m \in N |-> m \in L]
           runs == CHOOSE f : f = [m \in N |-> Says(m, f)]
<1>1. \A m : \A e \in Incoming(g, m) : e.source \in N
    BY GraphEnds DEF Incoming
<1>2. \A m \in N : m \in L <=> Rule(m, L)
    <2> DEFINE F == {m \in N : Rule(m, L)}
    <2>1. F \subseteq L
        BY DEF Incoming
    <2>2. Closed(F)
        BY <2>1 DEF Incoming
    <2>3. L \subseteq F
        BY <2>2
    <2> QED
        BY <2>1, <2>3
<1>3. \A m \in N : Says(m, least) <=> Rule(m, L)
    <2> HIDE DEF L
    <2> QED
        BY <1>1
<1>4. least = [m \in N |-> Says(m, least)]
    <2>1. ASSUME NEW m \in N
          PROVE  (m \in L) = Says(m, least)
        <3>1. Says(m, least) \in BOOLEAN
            <4> HIDE DEF least
            <4> QED
                BY DEF Says
        <3>2. m \in L <=> Says(m, least)
            <4> HIDE DEF L, Says, Rule, least
            <4> QED
                BY <1>2, <1>3
        <3> HIDE DEF L, Says, least
        <3> QED
            BY <3>1, <3>2
    <2> HIDE DEF L, Says
    <2> QED
        BY <2>1
<1>5. runs = [m \in N |-> Says(m, runs)]
    <2> HIDE DEF Says, least
    <2> QED
        BY <1>4
<1>6. RunsIn(g, lights, entries) = {m \in N : runs[m]}
    BY DEF RunsIn
<1>7. runs[n] <=> Says(n, runs)
    <2> HIDE DEF Says, runs
    <2> QED
        BY <1>5
<1>8. Says(n, runs) <=> Rule(n, {m \in N : runs[m]})
    <2> HIDE DEF runs
    <2> QED
        BY <1>1
<1> HIDE DEF runs
<1> QED
    BY <1>6, <1>7, <1>8

-----------------------------------------------------------------------------
(* The frontier of one store *)

\* Knaster and Tarski: the least closed set is a fixed point.
LEMMA SkipsAreFixed ==
    ASSUME NEW g, NEW s
    PROVE  /\ Skips(g, s) \subseteq NodesOf(g)
           /\ \A n \in NodesOf(g) : n \in Skips(g, s) <=> SkippedGiven(g, s, Skips(g, s), n)
           /\ \A X \in SUBSET NodesOf(g) : ClosedUnderSkips(g, s, X) => Skips(g, s) \subseteq X
<1> DEFINE S == Skips(g, s)
           F == {m \in NodesOf(g) : SkippedGiven(g, s, S, m)}
<1>1. F \subseteq S
    BY DEF ClosedUnderSkips, Skips, SkippedGiven
<1>2. ClosedUnderSkips(g, s, F)
    BY <1>1 DEF ClosedUnderSkips, SkippedGiven
<1>3. S \subseteq F
    BY <1>2 DEF Skips
<1> QED
    BY <1>1, <1>3 DEF Skips

\* The first undecided node of a run that holds nothing is ready, so a frontier
\* with nothing ready and nothing held is the frontier of a finished run.
LEMMA EmptyFrontier ==
    ASSUME NEW g, WellFormed(g), Acyclic(g), NEW s, DOMAIN s = NodesOf(g),
           \A n \in NodesOf(g) : s[n].status \in Statuses,
           Ready(g, s) = {}, Held(s) = {}
    PROVE  NodesOf(g) \subseteq Settled(s) \cup Skips(g, s)
<1> DEFINE T == NodesOf(g) \ (Settled(s) \cup Skips(g, s))
<1> SUFFICES ASSUME T # {} PROVE FALSE
    OBVIOUS
<1>1. PICK x \in T : Sources(g, x) \cap T = {}
    BY FirstOfASet
<1>2. Sources(g, x) \subseteq Settled(s) \cup Skips(g, s)
    BY <1>1, GraphEnds
<1>3. s[x].status = "none"
    BY <1>1 DEF Held, Settled, Statuses
<1> QED
    BY <1>1, <1>2, <1>3 DEF Ready

-----------------------------------------------------------------------------
(* The frontier after a write *)

\* Nothing lights or bars a node differently while no row becomes completed.
LEMMA SameEdges ==
    ASSUME NEW g, WellFormed(g), NEW s, NEW t,
           \A m \in NodesOf(g) :
              t[m] = s[m] \/ (t[m].status # "completed" /\ s[m].status # "completed")
    PROVE  \A m : Dead(g, t, m) <=> Dead(g, s, m)
<1>1. \A e \in g.edges : Active(t, e) <=> Active(s, e)
    BY GraphEnds DEF Active
<1>2. \A m : ActiveInto(g, t, m) = ActiveInto(g, s, m)
    BY <1>1 DEF ActiveInto, Incoming
<1> QED
    BY <1>2 DEF Dead

\* Writing a skip takes that node out of the cascade and leaves the rest.
LEMMA SkipsAfterSkip ==
    ASSUME NEW g, WellFormed(g), NEW s, NEW t, DOMAIN s = NodesOf(g), DOMAIN t = NodesOf(g),
           NEW n \in Skips(g, s),
           \A m \in NodesOf(g) \ {n} : t[m] = s[m],
           s[n].status = "none", t[n].status = "skipped"
    PROVE  /\ Skips(g, t) = Skips(g, s) \ {n}
           /\ Settled(t) = Settled(s) \cup {n}
<1>0. n \in NodesOf(g)
    BY SkipsAreFixed
<1>1. Settled(t) = Settled(s) \cup {n} /\ n \notin Settled(s)
    BY <1>0 DEF Settled, SETTLED
<1>2. \A m : Dead(g, t, m) <=> Dead(g, s, m)
    BY SameEdges
<1>3. ASSUME NEW X, NEW m \in NodesOf(g)
      PROVE  SkippedGiven(g, t, X, m) <=> (m # n /\ SkippedGiven(g, s, X \cup {n}, m))
    BY <1>1, <1>2 DEF SkippedGiven
<1>4. Skips(g, t) \subseteq Skips(g, s) \ {n}
    <2>1. Skips(g, s) \ {n} \in SUBSET NodesOf(g)
        BY SkipsAreFixed
    <2>2. (Skips(g, s) \ {n}) \cup {n} = Skips(g, s)
        OBVIOUS
    <2>3. ClosedUnderSkips(g, t, Skips(g, s) \ {n})
        BY <1>3, <2>2, SkipsAreFixed DEF ClosedUnderSkips
    <2> QED
        BY <2>1, <2>3, SkipsAreFixed
<1>5. Skips(g, s) \subseteq Skips(g, t) \cup {n}
    <2>1. Skips(g, t) \cup {n} \in SUBSET NodesOf(g)
        BY <1>0, SkipsAreFixed
    <2>2. ClosedUnderSkips(g, s, Skips(g, t) \cup {n})
        BY <1>3, SkipsAreFixed DEF ClosedUnderSkips
    <2> QED
        BY <2>1, <2>2, SkipsAreFixed
<1> QED
    BY <1>1, <1>4, <1>5

\* A cascade written to its end leaves nothing to skip.
LEMMA SkipsAllWritten ==
    ASSUME NEW g, WellFormed(g), NEW s, NEW t, DOMAIN s = NodesOf(g), DOMAIN t = NodesOf(g),
           \A m \in NodesOf(g) \ Skips(g, s) : t[m] = s[m],
           \A m \in Skips(g, s) : t[m].status = "skipped"
    PROVE  /\ Skips(g, t) = {}
           /\ Settled(t) = Settled(s) \cup Skips(g, s)
           /\ Held(t) = Held(s)
           /\ \A m : Dead(g, t, m) <=> Dead(g, s, m)
<1>1. \A m \in Skips(g, s) : m \in NodesOf(g) /\ s[m].status = "none"
    BY SkipsAreFixed DEF SkippedGiven
<1>2. Settled(t) = Settled(s) \cup Skips(g, s) /\ Held(t) = Held(s)
    BY <1>1 DEF Settled, SETTLED, Held, HELD
<1>3. \A m : Dead(g, t, m) <=> Dead(g, s, m)
    <2>1. \A m \in NodesOf(g) :
              t[m] = s[m] \/ (t[m].status # "completed" /\ s[m].status # "completed")
        BY <1>1
    <2> QED
        BY <2>1, SameEdges
<1>4. ASSUME NEW m \in NodesOf(g), SkippedGiven(g, t, {}, m)
      PROVE  FALSE
    <2>1. m \notin Skips(g, s) /\ t[m] = s[m]
        BY <1>4 DEF SkippedGiven
    <2>2. SkippedGiven(g, s, Skips(g, s), m)
        BY <1>2, <1>3, <1>4, <2>1 DEF SkippedGiven
    <2> QED
        BY <2>1, <2>2, SkipsAreFixed
<1>5. Skips(g, t) \subseteq {}
    BY <1>4, SkipsAreFixed DEF ClosedUnderSkips
<1> QED
    BY <1>2, <1>3, <1>5

\* What is ready is barred by nothing.
LEMMA ReadyIsLive ==
    ASSUME NEW g, NEW s, NEW n \in Ready(g, s)
    PROVE  /\ n \in NodesOf(g) /\ n \notin Skips(g, s) /\ s[n].status = "none"
           /\ n \notin g.notes /\ ~Dead(g, s, n)
<1>1. /\ n \in NodesOf(g) /\ n \notin Skips(g, s) /\ s[n].status = "none"
      /\ Sources(g, n) \subseteq Settled(s) \cup Skips(g, s)
    BY DEF Ready
<1>2. ~SkippedGiven(g, s, Skips(g, s), n)
    BY <1>1, SkipsAreFixed
<1> QED
    BY <1>1, <1>2 DEF SkippedGiven

\* A row that changes without settling, of a node nothing bars, moves no skip.
LEMMA SkipsUnmoved ==
    ASSUME NEW g, WellFormed(g), NEW s, NEW t, DOMAIN s = NodesOf(g), DOMAIN t = NodesOf(g),
           NEW n \in NodesOf(g),
           \A m \in NodesOf(g) \ {n} : t[m] = s[m],
           s[n].status \notin SETTLED, t[n].status \notin SETTLED,
           n \notin g.notes, ~Dead(g, s, n)
    PROVE  /\ Skips(g, t) = Skips(g, s)
           /\ Settled(t) = Settled(s)
<1>1. Settled(t) = Settled(s)
    BY DEF Settled
<1>2. \A m : Dead(g, t, m) <=> Dead(g, s, m)
    BY SameEdges DEF SETTLED
<1>3. ASSUME NEW X, NEW m \in NodesOf(g)
      PROVE  SkippedGiven(g, t, X, m) <=> SkippedGiven(g, s, X, m)
    BY <1>1, <1>2 DEF SkippedGiven
<1>4. \A X : ClosedUnderSkips(g, t, X) <=> ClosedUnderSkips(g, s, X)
    BY <1>3 DEF ClosedUnderSkips
<1> QED
    BY <1>1, <1>4 DEF Skips

-----------------------------------------------------------------------------
(* The order of the frontier *)

\* With sources declared first, one pass of compute finds everything.
LEMMA OnePass ==
    ASSUME NEW g, WellFormed(g), Acyclic(g), DeclaredTopologically(g), NEW s, NEW n \in NodesOf(g)
    PROVE  PassOf(g, s)[n] = 1
<1> DEFINE N == NodesOf(g)
           skips == Skips(g, s)
           After(f, m) == {f[x] + (IF DeclaredBefore(g, x, m) THEN 0 ELSE 1) :
                              x \in Sources(g, m) \cap skips}
           Pass(f, m) == CHOOSE k \in After(f, m) \cup {1} : \A j \in After(f, m) \cup {1} : k >= j
           one == [m \in N |-> 1]
           pass == PassOf(g, s)
<1>1. \A m : \A x \in Sources(g, m) : x \in N /\ DeclaredBefore(g, x, m)
    BY GraphEnds DEF DeclaredTopologically
<1>2. ASSUME NEW f, NEW m, \A x \in Sources(g, m) : f[x] = 1
      PROVE  Pass(f, m) = 1
    <2>1. After(f, m) \subseteq {1}
        BY <1>1, <1>2
    <2>2. After(f, m) \cup {1} = {1}
        BY <2>1
    <2> HIDE DEF After
    <2> QED
        BY <2>2
<1>3. pass = CHOOSE f : f = [m \in N |-> Pass(f, m)]
    BY DEF PassOf
<1>4. one = [m \in N |-> Pass(one, m)]
    <2>1. \A m \in N : Pass(one, m) = 1
        BY <1>1, <1>2
    <2> HIDE DEF Pass
    <2> QED
        BY <2>1
<1>5. pass = [m \in N |-> Pass(pass, m)]
    <2> HIDE DEF Pass, one, pass
    <2> QED
        BY <1>3, <1>4
<1> DEFINE T == {m \in N : pass[m] # 1}
<1>6. ASSUME T # {} PROVE FALSE
    <2>1. PICK m \in T : Sources(g, m) \cap T = {}
        <3> HIDE DEF pass
        <3> QED
            BY <1>6, FirstOfASet
    <2>2. \A x \in Sources(g, m) : pass[x] = 1
        BY <1>1, <2>1
    <2>3. Pass(pass, m) = 1
        <3> HIDE DEF pass
        <3> QED
            BY <1>2, <2>2
    <2> HIDE DEF Pass, pass
    <2> QED
        BY <1>5, <2>1, <2>3
<1> QED
    BY <1>6

\* Then nothing ready is declared before the first of the frontier.
LEMMA HeadIsFirst ==
    ASSUME NEW g, WellFormed(g), Acyclic(g), DeclaredTopologically(g), NEW s,
           NEW n \in Ready(g, s), ReadyIndex(g, s)[n] = 0, NEW m \in Ready(g, s)
    PROVE  ~DeclaredBefore(g, m, n)
<1> SUFFICES ASSUME DeclaredBefore(g, m, n) PROVE FALSE
    OBVIOUS
<1> DEFINE R == Ready(g, s)
           pass == PassOf(g, s)
           Earlier == {x \in R : \/ pass[x] < pass[n]
                                 \/ pass[x] = pass[n] /\ DeclaredBefore(g, x, n)}
<1>1. R \subseteq NodesOf(g)
    BY DEF Ready
<1>2. ReadyIndex(g, s)[n] = Cardinality(Earlier)
    BY DEF ReadyIndex
<1>3. m \in Earlier
    <2>1. pass[m] = 1 /\ pass[n] = 1
        BY <1>1, OnePass
    <2> QED
        BY <2>1
<1>4. IsFiniteSet(Earlier)
    BY <1>1, GraphFinite, FS_Subset
<1> HIDE DEF Earlier
<1> QED
    BY <1>2, <1>3, <1>4, FS_EmptySet

\* And while no row is held, everything declared before the first of the frontier
\* is settled or about to be skipped.
LEMMA HeadIsNext ==
    ASSUME NEW g, WellFormed(g), Acyclic(g), DeclaredTopologically(g),
           NEW s, DOMAIN s = NodesOf(g), \A n \in NodesOf(g) : s[n].status \in Statuses,
           Held(s) = {}, NEW n \in Ready(g, s), ReadyIndex(g, s)[n] = 0
    PROVE  \A m \in NodesOf(g) : DeclaredBefore(g, m, n) => m \in Settled(s) \cup Skips(g, s)
<1> DEFINE Open == {m \in NodesOf(g) : /\ DeclaredBefore(g, m, n)
                                       /\ m \notin Settled(s) \cup Skips(g, s)}
<1>1. n \in NodesOf(g)
    BY DEF Ready
<1>2. ASSUME Open # {} PROVE FALSE
    <2>1. PICK x \in Open : Sources(g, x) \cap Open = {}
        BY <1>2, FirstOfASet
    <2>2. \A y \in Sources(g, x) :
              /\ y \in NodesOf(g) /\ DeclaredBefore(g, y, x)
              /\ DeclaredBefore(g, y, n)
        BY <1>1, <2>1, GraphEnds, DeclaredOrder DEF DeclaredTopologically
    <2>3. Sources(g, x) \subseteq Settled(s) \cup Skips(g, s)
        BY <2>1, <2>2
    <2>4. s[x].status = "none"
        BY <2>1 DEF Held, Settled, Statuses
    <2>5. x \in Ready(g, s)
        BY <2>1, <2>3, <2>4 DEF Ready
    <2> QED
        BY <1>1, <2>1, <2>5, HeadIsFirst
<1> QED
    BY <1>2

\* A finite set of numbers has a greatest one.
LEMMA Greatest ==
    ASSUME NEW S \in SUBSET Nat, IsFiniteSet(S), S # {}
    PROVE  \E k \in S : \A j \in S : k >= j
<1> DEFINE Above(x) == {y \in S : y > x}
           B == {Above(x) : x \in S}
<1>1. IsWellFoundedOn(StrictSubsetOrdering(S), FiniteSubsetsOf(S))
    BY FS_StrictSubsetOrderingWellFounded
<1>2. B \subseteq FiniteSubsetsOf(S) /\ B # {}
    <2>1. ASSUME NEW x PROVE IsFiniteSet(Above(x)) /\ Above(x) \in SUBSET S
        BY FS_Subset
    <2> QED
        BY <2>1 DEF FiniteSubsetsOf
<1>3. PICK b \in B : \A c \in B : ~(<<c, b>> \in StrictSubsetOrdering(S))
    BY <1>1, <1>2, WFMin
<1>4. PICK x \in S : b = Above(x)
    BY <1>3
<1>5. ASSUME NEW y \in S, y > x
      PROVE  FALSE
    <2>1. \A z \in S : z > y => z > x
        BY <1>5
    <2>2. Above(y) \subseteq Above(x) /\ y \in Above(x)
        BY <1>5, <2>1
    <2>3. y \notin Above(y)
        BY <1>5
    <2>4. <<Above(y), Above(x)>> \in StrictSubsetOrdering(S)
        BY <2>2, <2>3 DEF StrictSubsetOrdering
    <2> QED
        BY <1>3, <1>4, <2>4
<1> QED
    BY <1>5

\* A set of numbers that is not empty has a least one.
LEMMA Least ==
    ASSUME NEW T \in SUBSET Nat, T # {}
    PROVE  \E n \in T : \A m \in T : n <= m
<1>1. PICK n \in T : \A m \in T : ~(<<m, n>> \in OpToRel(<, Nat))
    BY NatLessThanWellFounded, WFMin
<1>2. \A m \in T : ~(m < n)
    BY <1>1 DEF OpToRel
<1> QED
    BY <1>2

\* Every node is found in some pass: the recursion of PassOf follows the edges, and
\* has for each node the value its equation says.
LEMMA PassSolves ==
    ASSUME NEW g, WellFormed(g), Acyclic(g), NEW s, NEW n \in NodesOf(g)
    PROVE  LET skips == Skips(g, s)
               pass == PassOf(g, s)
               late(x) == IF DeclaredBefore(g, x, n) THEN 0 ELSE 1
           IN  /\ pass[n] \in Nat /\ pass[n] >= 1
               /\ \A x \in Sources(g, n) \cap skips : pass[n] >= pass[x] + late(x)
               /\ \/ pass[n] = 1
                  \/ \E x \in Sources(g, n) \cap skips : pass[n] = pass[x] + late(x)
<1> DEFINE N == NodesOf(g)
           skips == Skips(g, s)
           After(f, m) == {f[x] + (IF DeclaredBefore(g, x, m) THEN 0 ELSE 1) :
                              x \in Sources(g, m) \cap skips}
           Pass(f, m) == CHOOSE k \in After(f, m) \cup {1} : \A j \in After(f, m) \cup {1} : k >= j
           pass == PassOf(g, s)
<1>1. IsFiniteSet(N) /\ \A m : Sources(g, m) \subseteq N
    BY GraphFinite, GraphEnds
<1>2. ASSUME NEW f, NEW m, \A x \in Sources(g, m) : f[x] \in Nat
      PROVE  /\ Pass(f, m) \in Nat
             /\ Pass(f, m) \in After(f, m) \cup {1}
             /\ \A j \in After(f, m) \cup {1} : Pass(f, m) >= j
    <2>1. After(f, m) \cup {1} \in SUBSET Nat
        BY <1>2
    <2>2. IsFiniteSet(After(f, m) \cup {1})
        <3>1. IsFiniteSet(Sources(g, m) \cap skips)
            BY <1>1, FS_Subset
        <3>2. IsFiniteSet(After(f, m))
            <4> DEFINE A == Sources(g, m) \cap skips
                       h == [x \in A |-> f[x] + (IF DeclaredBefore(g, x, m) THEN 0 ELSE 1)]
            <4>1. h \in Surjection(A, After(f, m))
                BY DEF Surjection
            <4> HIDE DEF h
            <4> QED
                BY <3>1, <4>1, FS_Surjection
        <3> HIDE DEF After
        <3> QED
            BY <3>2, FS_AddElement
    <2> HIDE DEF After
    <2>3. \E k \in After(f, m) \cup {1} : \A j \in After(f, m) \cup {1} : k >= j
        BY <2>1, <2>2, Greatest
    <2> QED
        BY <2>1, <2>3
<1>3. ASSUME NEW f, NEW h, NEW m, \A x \in Sources(g, m) : f[x] = h[x]
      PROVE  Pass(f, m) = Pass(h, m)
    <2>1. After(f, m) = After(h, m)
        BY <1>3
    <2> HIDE DEF After
    <2> QED
        BY <2>1
<1> DEFINE Solved(D, f) == /\ f \in [D -> Nat]
                           /\ \A m \in D : Sources(g, m) \subseteq D /\ f[m] = Pass(f, m)
           Rests == {T \in SUBSET N : \E f : Solved(N \ T, f)}
<1> HIDE DEF Pass
<1>4. N \in Rests
    <2>1. [m \in {} |-> 0] \in [{} -> Nat] /\ N \ N = {}
        OBVIOUS
    <2> QED
        BY <2>1
<1>5. {} \in Rests
    <2>1. IsWellFoundedOn(StrictSubsetOrdering(N), FiniteSubsetsOf(N))
        BY FS_StrictSubsetOrderingWellFounded
    <2>2. Rests \subseteq FiniteSubsetsOf(N)
        BY <1>1, FS_Subset DEF FiniteSubsetsOf
    <2>3. PICK T \in Rests : \A U \in Rests : ~(<<U, T>> \in StrictSubsetOrdering(N))
        <3> HIDE DEF Rests
        <3> QED
            BY <1>4, <2>1, <2>2, WFMin
    <2>4. PICK f : Solved(N \ T, f)
        BY <2>3
    <2>5. ASSUME T # {} PROVE FALSE
        <3>1. PICK x \in T : Sources(g, x) \cap T = {}
            BY <2>3, <2>5, FirstOfASet
        <3> DEFINE D == N \ T
                   h == [m \in D \cup {x} |-> IF m = x THEN Pass(f, x) ELSE f[m]]
        <3>2. Sources(g, x) \subseteq D /\ x \notin D /\ x \in N
            BY <1>1, <2>3, <3>1
        <3>3. Pass(f, x) \in Nat
            BY <1>2, <2>4, <3>2
        <3>4. h \in [D \cup {x} -> Nat] /\ h[x] = Pass(f, x) /\ \A m \in D : h[m] = f[m]
            BY <2>4, <3>2, <3>3
        <3> HIDE DEF h
        <3>5. ASSUME NEW m \in D \cup {x}
              PROVE  Sources(g, m) \subseteq D \cup {x} /\ h[m] = Pass(h, m)
            <4>1. Sources(g, m) \subseteq D /\ h[m] = Pass(f, m)
                BY <2>4, <3>2, <3>4
            <4>2. Pass(h, m) = Pass(f, m)
                BY <1>3, <3>4, <4>1
            <4> QED
                BY <4>1, <4>2
        <3>6. Solved(D \cup {x}, h)
            BY <3>4, <3>5
        <3>7. N \ (T \ {x}) = D \cup {x} /\ T \ {x} \in SUBSET N
            BY <2>3, <3>2
        <3>8. T \ {x} \in Rests
            BY <3>6, <3>7
        <3>9. <<T \ {x}, T>> \in StrictSubsetOrdering(N)
            BY <2>3, <3>1 DEF StrictSubsetOrdering
        <3> QED
            BY <2>3, <3>8, <3>9
    <2> QED
        BY <2>3, <2>5
<1>6. PICK f : f = [m \in N |-> Pass(f, m)]
    <2>1. PICK f : Solved(N \ {}, f)
        BY <1>5
    <2>2. f \in [N -> Nat] /\ \A m \in N : f[m] = Pass(f, m)
        BY <2>1
    <2>3. f = [m \in N |-> Pass(f, m)]
        BY <2>2
    <2> QED
        BY <2>3
<1>7. pass = [m \in N |-> Pass(pass, m)]
    <2>1. pass = CHOOSE h : h = [m \in N |-> Pass(h, m)]
        BY DEF PassOf, Pass
    <2> HIDE DEF pass
    <2> QED
        BY <1>6, <2>1
<1> HIDE DEF pass
<1> DEFINE T == {m \in N : pass[m] \notin Nat}
<1>8. ASSUME T # {} PROVE FALSE
    <2>1. PICK m \in T : Sources(g, m) \cap T = {}
        BY <1>8, FirstOfASet
    <2>2. Pass(pass, m) \in Nat
        BY <1>1, <1>2, <2>1
    <2> QED
        BY <1>7, <2>1, <2>2
<1>9. /\ pass[n] \in Nat
      /\ pass[n] \in After(pass, n) \cup {1}
      /\ \A j \in After(pass, n) \cup {1} : pass[n] >= j
    <2>1. \A x \in Sources(g, n) : pass[x] \in Nat
        BY <1>1, <1>8
    <2>2. pass[n] = Pass(pass, n)
        BY <1>7
    <2> HIDE DEF After
    <2> QED
        BY <1>2, <2>1, <2>2
<1> QED
    BY <1>9 DEF pass

\* A frontier that is not empty has a first node: no limit but the rows held
\* keeps an advance from handing out something.
LEMMA FrontierHasAHead ==
    ASSUME NEW g, WellFormed(g), Acyclic(g), NEW s, Ready(g, s) # {}
    PROVE  \E n \in Ready(g, s) : ReadyIndex(g, s)[n] = 0
<1> DEFINE R == Ready(g, s)
           pass == PassOf(g, s)
           Earlier(n) == {x \in R : \/ pass[x] < pass[n]
                                    \/ pass[x] = pass[n] /\ DeclaredBefore(g, x, n)}
           B == {Earlier(n) : n \in R}
<1>1. R \subseteq NodesOf(g) /\ IsFiniteSet(R)
    BY GraphFinite, FS_Subset DEF Ready
<1>2. \A n \in R : pass[n] \in Nat
    BY <1>1, PassSolves
<1>3. \A n \in R : ReadyIndex(g, s)[n] = Cardinality(Earlier(n))
    BY DEF ReadyIndex
<1> HIDE DEF pass, R
<1>4. IsWellFoundedOn(StrictSubsetOrdering(R), FiniteSubsetsOf(R))
    BY FS_StrictSubsetOrderingWellFounded
<1>5. B \subseteq FiniteSubsetsOf(R) /\ B # {}
    <2>1. ASSUME NEW n PROVE IsFiniteSet(Earlier(n)) /\ Earlier(n) \in SUBSET R
        BY <1>1, FS_Subset
    <2> QED
        BY <2>1 DEF FiniteSubsetsOf, R
<1>6. PICK b \in B : \A c \in B : ~(<<c, b>> \in StrictSubsetOrdering(R))
    BY <1>4, <1>5, WFMin
<1>7. PICK x \in R : b = Earlier(x)
    BY <1>6
<1>8. ASSUME NEW y \in Earlier(x) PROVE FALSE
    <2>1. y \in R /\ y \notin Earlier(y)
        BY <1>1, <1>2, <1>8, DeclaredOrder
    <2>2. ASSUME NEW z \in Earlier(y) PROVE z \in Earlier(x)
        BY <1>1, <1>2, <1>7, <1>8, <2>1, <2>2, DeclaredOrder
    <2>3. <<Earlier(y), Earlier(x)>> \in StrictSubsetOrdering(R)
        BY <1>8, <2>1, <2>2 DEF StrictSubsetOrdering
    <2> QED
        BY <1>6, <1>7, <2>1, <2>3
<1>9. Earlier(x) = {}
    BY <1>8
<1> QED
    BY <1>3, <1>7, <1>9, FS_EmptySet DEF R
=============================================================================
