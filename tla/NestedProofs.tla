----------------------------- MODULE NestedProofs -----------------------------
(***************************************************************************)
(* Theorems about Nested, for all graphs, limits, ids, policies and        *)
(* windows: how deep a walk may be, whom it asks and what answers it, what *)
(* a step key tells, and how often a key is charged for.                   *)
(***************************************************************************)
EXTENDS Nested, SequenceTheorems, WellFoundedInduction, TLAPS

\* A stack is a sequence of walks, and the path of each is a sequence.
IsSeq(s) == s \in Seq(ToSet(s))

IsWalk(f) ==
    /\ DOMAIN f = {"graph", "at", "item", "failures", "path", "depth", "executors", "bindings", "position"}
    /\ IsSeq(f.path)

\* What NestingIsSound says of one walk by itself, and beside those around it.
InStep(f, i) ==
    /\ IsWalk(f)
    /\ f.at \in Nat \ {0} /\ f.item \in Nat
    /\ f.depth = i - 1 /\ Len(f.path) = i - 1
    /\ f.failures \subseteq 0..f.item - 1
    /\ f.bindings = IF i = 1 THEN Siblings ELSE {}

InPlace(s, r, i) ==
    /\ i = 1 => s[i].graph = <<r>>
    /\ i > 1 /\ NodeAt(s[i - 1]).does = "subflow" => ~(s[i].depth > NodeAt(s[i - 1]).limit)
    /\ \A j \in 1..i - 1 : NodeAt(s[j]).does = "subgraph" => s[i].executors = "builtin"

Sound(s, r) ==
    /\ IsSeq(s)
    /\ \A i \in DOMAIN s : InStep(s[i], i) /\ InPlace(s, r, i)

\* NestingIsSound, the stack's part walk by walk.
Inv ==
    /\ Sound(stack, root)
    /\ root \in Roots
    /\ now \in 0..MaxTime /\ releases \in 0..MaxReleases
    /\ row \in [status : {"none", "claimed", "paused", "failed", "completed"},
               attempt : 0..MaxAttempts, first : 0..now]
    /\ ChildrenAreNotFenced
    /\ PauseIsOnItsWay

LEMMA InvImplies == Inv => NestingIsSound
<1> SUFFICES ASSUME Inv PROVE NestingIsSound
  OBVIOUS
<1>1. DOMAIN stack = 1..Len(stack) /\ Len(stack) \in Nat /\ (stack # <<>> => Len(stack) > 0)
  BY DEF Inv, Sound, IsSeq
<1>2. \A i \in DOMAIN stack : InStep(stack[i], i) /\ InPlace(stack, root, i)
  BY DEF Inv, Sound
<1>3. TypeOK
  BY <1>2 DEF Inv, InStep, TypeOK
<1>4. RecursionIsBounded
  BY <1>2 DEF InPlace, RecursionIsBounded
<1>5. stack # <<>> => stack[1].graph = <<root>>
  BY <1>1, <1>2 DEF InPlace
<1>6. \A i \in DOMAIN stack : stack[i].bindings = IF i = 1 THEN Siblings ELSE {}
  BY <1>2 DEF InStep
<1>7. ASSUME NEW i \in DOMAIN stack, NEW j \in DOMAIN stack, i < j, NodeAt(stack[i]).does = "subgraph"
      PROVE  stack[j].executors = "builtin"
  <2>1. i \in 1..j - 1
    BY <1>1, <1>7
  <2> QED
    BY <1>2, <1>7, <2>1 DEF InPlace
<1> QED
  BY <1>3, <1>4, <1>5, <1>6, <1>7 DEF Inv, NestingIsSound, RegistriesFollowNesting

-----------------------------------------------------------------------------
(* Sequences *)

LEMMA SeqOfOwn ==
    ASSUME NEW S, NEW t \in Seq(S)
    PROVE  IsSeq(t)
<1>1. \A i \in DOMAIN t : t[i] \in ToSet(t)
  BY DEF ToSet
<1> QED
  BY <1>1 DEF IsSeq

\* Append, Front and the replacement of the last element keep a sequence one.
LEMMA AppendSeq ==
    ASSUME NEW s, NEW e, IsSeq(s)
    PROVE  /\ IsSeq(Append(s, e))
           /\ Len(s) \in Nat /\ DOMAIN s = 1..Len(s)
           /\ Len(Append(s, e)) = Len(s) + 1
           /\ DOMAIN Append(s, e) = 1..Len(s) + 1
           /\ \A i \in DOMAIN s : Append(s, e)[i] = s[i]
           /\ Append(s, e)[Len(s) + 1] = e
<1> DEFINE S == ToSet(s) \cup {e}
<1>1. s \in Seq(S)
  BY DEF IsSeq, ToSet
<1>2. Append(s, e) \in Seq(S)
  BY <1>1
<1>3. /\ Len(s) \in Nat /\ DOMAIN s = 1..Len(s)
      /\ Len(Append(s, e)) = Len(s) + 1
      /\ DOMAIN Append(s, e) = 1..Len(s) + 1
      /\ \A i \in DOMAIN s : Append(s, e)[i] = s[i]
      /\ Append(s, e)[Len(s) + 1] = e
  BY <1>1
<1> QED
  BY <1>2, <1>3, SeqOfOwn

LEMMA FrontSeq ==
    ASSUME NEW s, IsSeq(s), s # <<>>
    PROVE  /\ IsSeq(Front(s))
           /\ Len(s) \in Nat \ {0} /\ DOMAIN s = 1..Len(s)
           /\ DOMAIN Front(s) = 1..Len(s) - 1 /\ Len(Front(s)) = Len(s) - 1
           /\ \A i \in 1..Len(s) - 1 : Front(s)[i] = s[i]
           /\ Front(s) # <<>> => Len(s) > 1
<1>1. /\ Len(s) \in Nat \ {0} /\ DOMAIN s = 1..Len(s)
      /\ DOMAIN Front(s) = 1..Len(s) - 1
      /\ \A i \in 1..Len(s) - 1 : Front(s)[i] = s[i]
      /\ Front(s) \in Seq(ToSet(s))
      /\ Front(s) # <<>> => Len(s) > 1
  BY DEF IsSeq, Front
<1>2. Len(Front(s)) = Len(s) - 1
  <2> DEFINE t == Front(s)
             n == Len(s)
  <2>1. t \in Seq(ToSet(s)) /\ DOMAIN t = 1..n - 1 /\ n \in Nat \ {0}
    BY <1>1
  <2> HIDE DEF t, n
  <2>2. DOMAIN t = 1..Len(t) /\ Len(t) \in Nat
    BY <2>1
  <2>3. Len(t) = n - 1
    BY <2>1, <2>2
  <2> QED
    BY <2>3 DEF t, n
<1> QED
  BY <1>1, <1>2, SeqOfOwn

LEMMA LastSeq ==
    ASSUME NEW s, NEW e, NEW t, IsSeq(s), s # <<>>, t = [s EXCEPT ![Len(s)] = e]
    PROVE  /\ IsSeq(t)
           /\ Len(s) \in Nat \ {0} /\ DOMAIN s = 1..Len(s)
           /\ t # <<>> /\ Len(t) = Len(s) /\ DOMAIN t = 1..Len(s)
           /\ \A i \in 1..Len(s) - 1 : t[i] = s[i]
           /\ t[Len(s)] = e
<1> DEFINE S == ToSet(s) \cup {e}
<1>1. s \in Seq(S)
  BY DEF IsSeq, ToSet
<1>2. /\ Len(s) \in Nat \ {0} /\ DOMAIN s = 1..Len(s)
      /\ DOMAIN t = 1..Len(s) /\ Len(t) = Len(s)
      /\ \A i \in 1..Len(s) - 1 : t[i] = s[i]
      /\ t[Len(s)] = e
      /\ t \in Seq(S)
      /\ t # <<>>
  BY <1>1
<1> QED
  BY <1>2, SeqOfOwn

-----------------------------------------------------------------------------
(* The three things a step does to the stack *)

\* A walk is in place whatever happens to the walks inside it.
LEMMA PlaceStays ==
    ASSUME NEW s, NEW t, NEW r, NEW i \in Nat \ {0}, InPlace(s, r, i),
           \A j \in 1..i : t[j] = s[j]
    PROVE  InPlace(t, r, i)
<1>1. t[i] = s[i]
  OBVIOUS
<1>2. i > 1 => t[i - 1] = s[i - 1]
  OBVIOUS
<1>3. \A j \in 1..i - 1 : t[j] = s[j]
  OBVIOUS
<1> QED
  BY <1>1, <1>2, <1>3 DEF InPlace

LEMMA PopSound ==
    ASSUME NEW s, NEW r, Sound(s, r), s # <<>>
    PROVE  Sound(Front(s), r)
<1> DEFINE t == Front(s)
<1>1. /\ IsSeq(t)
      /\ Len(s) \in Nat \ {0} /\ DOMAIN s = 1..Len(s)
      /\ DOMAIN t = 1..Len(s) - 1
      /\ \A i \in 1..Len(s) - 1 : t[i] = s[i]
  BY FrontSeq DEF Sound
<1> HIDE DEF t
<1>2. ASSUME NEW i \in DOMAIN t
      PROVE  InStep(t[i], i) /\ InPlace(t, r, i)
  <2>1. i \in DOMAIN s /\ i \in Nat \ {0} /\ \A j \in 1..i : t[j] = s[j]
    BY <1>1
  <2>2. InStep(s[i], i) /\ InPlace(s, r, i)
    BY <2>1 DEF Sound
  <2>3. InPlace(t, r, i)
    BY <2>1, <2>2, PlaceStays
  <2>4. t[i] = s[i]
    BY <2>1
  <2> QED
    BY <2>2, <2>3, <2>4
<1> QED
  BY <1>1, <1>2 DEF Sound, t

\* The walk on top goes on in its own graph.
LEMMA SwapSound ==
    ASSUME NEW s, NEW r, NEW f, Sound(s, r), s # <<>>, IsWalk(f),
           f.graph = s[Len(s)].graph, f.path = s[Len(s)].path, f.depth = s[Len(s)].depth,
           f.executors = s[Len(s)].executors, f.bindings = s[Len(s)].bindings,
           f.at \in Nat \ {0}, f.item \in Nat, f.failures \subseteq 0..f.item - 1
    PROVE  Sound([s EXCEPT ![Len(s)] = f], r)
<1> DEFINE t == [s EXCEPT ![Len(s)] = f]
           n == Len(s)
<1>1. IsSeq(s)
  BY DEF Sound
<1>2. /\ IsSeq(t)
      /\ n \in Nat \ {0} /\ DOMAIN s = 1..n
      /\ DOMAIN t = 1..n
      /\ \A i \in 1..n - 1 : t[i] = s[i]
      /\ t[n] = f
  BY <1>1, LastSeq
<1> HIDE DEF t, n
<1>3. InStep(s[n], n) /\ InPlace(s, r, n)
  BY <1>2 DEF Sound
<1>4. InStep(f, n)
  BY <1>3 DEF InStep, n
<1>5. InPlace(t, r, n)
  <2>1. n > 1 => t[n - 1] = s[n - 1]
    BY <1>2
  <2>2. t[n].graph = s[n].graph /\ t[n].depth = s[n].depth /\ t[n].executors = s[n].executors
    BY <1>2 DEF n
  <2> QED
    BY <1>2, <1>3, <2>1, <2>2 DEF InPlace
<1>6. ASSUME NEW i \in 1..n - 1
      PROVE  InStep(t[i], i) /\ InPlace(t, r, i)
  <2>1. i \in DOMAIN s /\ i \in Nat \ {0} /\ \A j \in 1..i : t[j] = s[j]
    BY <1>2
  <2>2. InStep(s[i], i) /\ InPlace(s, r, i)
    BY <2>1 DEF Sound
  <2>3. InPlace(t, r, i)
    BY <2>1, <2>2, PlaceStays
  <2>4. t[i] = s[i]
    BY <2>1
  <2> QED
    BY <2>2, <2>3, <2>4
<1>7. \A i \in DOMAIN t : i \in 1..n - 1 \/ i = n
  BY <1>2
<1>8. Sound(t, r)
  BY <1>2, <1>4, <1>5, <1>6, <1>7 DEF Sound
<1> QED
  BY <1>8 DEF t, n

\* The current node starts a walk inside itself.
LEMMA PushSound ==
    ASSUME Sound(stack, root), stack # <<>>,
           NEW graph, NEW occurrence, NEW executors,
           executors = "builtin" \/ (executors = Top.executors /\ Current.does # "subgraph"),
           Current.does = "subflow" => ~TooDeep(Top, Current)
    PROVE  Sound(Append(stack, Child(graph, occurrence, executors)), root)
<1> DEFINE c == Child(graph, occurrence, executors)
           t == Append(stack, c)
           n == Len(stack)
<1>1. IsSeq(stack)
  BY DEF Sound
<1>2. n \in Nat \ {0} /\ DOMAIN stack = 1..n
  BY <1>1, FrontSeq
<1> HIDE DEF c
<1>3. /\ IsSeq(t)
      /\ DOMAIN t = 1..n + 1
      /\ \A i \in 1..n : t[i] = stack[i]
      /\ t[n + 1] = c
  BY <1>1, <1>2, AppendSeq
<1> HIDE DEF t, n
<1>4. InStep(stack[n], n) /\ InPlace(stack, root, n)
  BY <1>2 DEF Sound
<1>5. Top = stack[n] /\ Current = NodeAt(stack[n])
  BY DEF Top, Current, n
<1>6. IsSeq(Top.path) /\ Len(Top.path) = n - 1 /\ Top.depth = n - 1
  BY <1>4, <1>5 DEF InStep, IsWalk
<1>7. /\ c.path = Append(Top.path, render(Current.id, occurrence))
      /\ c.depth = Top.depth + 1 /\ c.at = 1 /\ c.item = 0 /\ c.failures = {}
      /\ c.bindings = {} /\ c.executors = executors
      /\ DOMAIN c = {"graph", "at", "item", "failures", "path", "depth", "executors", "bindings", "position"}
  BY DEF c, Child, descend, ChildBindings
<1>8. IsSeq(c.path) /\ Len(c.path) = n
  BY <1>2, <1>6, <1>7, AppendSeq
<1>9. c.depth = n
  BY <1>2, <1>6, <1>7
<1>10. InStep(c, n + 1)
  BY <1>2, <1>7, <1>8, <1>9 DEF InStep, IsWalk
<1>11. InPlace(t, root, n + 1)
  <2>1. NodeAt(t[n]).does = "subflow" => ~(c.depth > NodeAt(t[n]).limit)
    BY <1>2, <1>3, <1>5, <1>6, <1>7 DEF TooDeep
  <2>2. ASSUME NEW j \in 1..n, NodeAt(t[j]).does = "subgraph"
        PROVE  c.executors = "builtin"
    <3>1. j = n => executors = "builtin"
      BY <1>2, <1>3, <1>5, <2>2
    <3>2. j \in 1..n - 1 => Top.executors = "builtin"
      BY <1>2, <1>3, <1>4, <1>5, <2>2 DEF InPlace
    <3> QED
      BY <1>2, <1>7, <3>1, <3>2
  <2>3. n + 1 # 1 /\ (n + 1) - 1 = n
    BY <1>2
  <2> QED
    BY <1>3, <2>1, <2>2, <2>3 DEF InPlace
<1>12. ASSUME NEW i \in 1..n
       PROVE  InStep(t[i], i) /\ InPlace(t, root, i)
  <2>1. i \in DOMAIN stack /\ i \in Nat \ {0} /\ \A j \in 1..i : t[j] = stack[j]
    BY <1>2, <1>3
  <2>2. InStep(stack[i], i) /\ InPlace(stack, root, i)
    BY <2>1 DEF Sound
  <2>3. InPlace(t, root, i)
    BY <2>1, <2>2, PlaceStays
  <2>4. t[i] = stack[i]
    BY <2>1
  <2> QED
    BY <2>2, <2>3, <2>4
<1>13. \A i \in DOMAIN t : i \in 1..n \/ i = n + 1
  BY <1>2, <1>3
<1>14. Sound(t, root)
  BY <1>3, <1>10, <1>11, <1>12, <1>13 DEF Sound
<1> QED
  BY <1>14 DEF t, c

LEMMA TopSound ==
    ASSUME Sound(stack, root), stack # <<>>
    PROVE  /\ Top = stack[Len(stack)]
           /\ Len(stack) \in Nat \ {0} /\ DOMAIN stack = 1..Len(stack)
           /\ InStep(Top, Len(stack)) /\ InPlace(stack, root, Len(stack))
<1>1. Len(stack) \in Nat \ {0} /\ DOMAIN stack = 1..Len(stack)
  BY FrontSeq DEF Sound
<1> QED
  BY <1>1 DEF Sound, Top

LEMMA EndSound ==
    ASSUME Sound(stack, root), stack # <<>>, NEW outcome, EndWith(outcome)
    PROVE  Sound(stack', root)
BY PopSound DEF EndWith

LEMMA ProceedSound ==
    ASSUME Sound(stack, root), stack # <<>>, Replace(Proceed(Top))
    PROVE  Sound(stack', root)
<1> DEFINE f == Proceed(Top)
<1>1. Top = stack[Len(stack)] /\ InStep(Top, Len(stack))
  BY TopSound
<1>2. /\ IsWalk(f)
      /\ f.graph = Top.graph /\ f.path = Top.path /\ f.depth = Top.depth
      /\ f.executors = Top.executors /\ f.bindings = Top.bindings
      /\ f.at = Top.at + 1 /\ f.item = 0 /\ f.failures = {}
  BY <1>1 DEF InStep, IsWalk, Proceed
<1>3. f.at \in Nat \ {0} /\ f.item \in Nat /\ f.failures \subseteq 0..f.item - 1
  BY <1>1, <1>2 DEF InStep
<1>4. stack' = [stack EXCEPT ![Len(stack)] = f]
  BY DEF Replace
<1> HIDE DEF f
<1> QED
  BY <1>1, <1>2, <1>3, <1>4, SwapSound

-----------------------------------------------------------------------------
(* Walks and pauses *)

\* While a walk goes on nobody was asked.
LEMMA NobodyAsked ==
    ASSUME Inv, Walking
    PROVE  heard = {}
BY DEF Inv, PauseIsOnItsWay, Walking, NoResult, IsPause

\* No leaf is the root's sibling to the registry it runs on.
LEMMA NoFence ==
    ASSUME Inv, stack # <<>>, ~Ended(Top)
    PROVE  Current.id \notin Top.bindings
<1>1. /\ Len(stack) \in Nat \ {0} /\ Top = stack[Len(stack)]
      /\ InStep(Top, Len(stack)) /\ InPlace(stack, root, Len(stack))
  BY TopSound DEF Inv
<1>2. CASE Len(stack) = 1
  <2>1. Top.graph = <<root>> /\ Top.at \in Nat \ {0}
    BY <1>1, <1>2 DEF InPlace, InStep
  <2>2. Top.at = 1
    BY <2>1 DEF Ended
  <2>3. Current = root
    BY <2>1, <2>2 DEF Current, NodeAt
  <2>4. Top.bindings = Siblings
    BY <1>1, <1>2 DEF InStep
  <2> QED
    BY <2>3, <2>4, NestedAssumption DEF Inv
<1>3. CASE Len(stack) # 1
  BY <1>1, <1>3 DEF InStep
<1> QED
  BY <1>2, <1>3

\* A pause that ends a walk below no subgraph is on its way.
LEMMA PausePops ==
    ASSUME Sound(stack, root), stack # <<>>, NEW id, id \in heard',
           EndWith(Pauses(id)),
           \A i \in 1..Len(stack) - 1 : NodeAt(stack[i]).does # "subgraph"
    PROVE  PauseIsOnItsWay'
<1>1. /\ DOMAIN Front(stack) = 1..Len(stack) - 1
      /\ \A i \in 1..Len(stack) - 1 : Front(stack)[i] = stack[i]
  BY FrontSeq DEF Sound
<1>2. IsPause(result') /\ result'.id = id
  BY DEF EndWith, Pauses, IsPause
<1>3. stack' = Front(stack)
  BY DEF EndWith
<1> QED
  BY <1>1, <1>2, <1>3 DEF PauseIsOnItsWay

\* A step of a walk that leaves the root, the claim and the clock alone.
LEMMA WalkStep ==
    ASSUME Inv, Sound(stack', root), UNCHANGED <<root, row, now, releases>>, fenced' = fenced, PauseIsOnItsWay'
    PROVE  Inv'
BY DEF Inv, ChildrenAreNotFenced

LEMMA QuietStep ==
    ASSUME Inv, Walking, heard' = heard
    PROVE  PauseIsOnItsWay'
BY NobodyAsked DEF PauseIsOnItsWay

-----------------------------------------------------------------------------
(* Every action keeps the invariant *)

LEMMA StepLeaf ==
    ASSUME Inv, Leaf
    PROVE  Inv'
<1>1. Walking /\ stack # <<>> /\ ~Ended(Top) /\ Sound(stack, root)
  BY DEF Leaf, Walking, Inv
<1>2. Current.id \notin Top.bindings
  BY <1>1, NoFence
<1>3. /\ fenced' = fenced /\ heard' = heard /\ UNCHANGED <<root, row, now, releases>>
      /\ EndWith(Fails) \/ Replace(Proceed(Top))
  BY <1>2 DEF Leaf, Raise
<1>4. Sound(stack', root)
  BY <1>1, <1>3, EndSound, ProceedSound
<1>5. PauseIsOnItsWay'
  BY <1>1, <1>3, QuietStep
<1> QED
  BY <1>3, <1>4, <1>5, WalkStep

LEMMA StepGate ==
    ASSUME Inv, Gate
    PROVE  Inv'
<1>1. Walking /\ stack # <<>> /\ Sound(stack, root) /\ UNCHANGED <<root, row, now, releases>> /\ fenced' = fenced
  BY DEF Gate, Walking, Inv
<1>2. CASE Replace(Proceed(Top)) /\ UNCHANGED heard
  <2>1. Sound(stack', root)
    BY <1>1, <1>2, ProceedSound
  <2>2. PauseIsOnItsWay'
    BY <1>1, <1>2, QuietStep
  <2> QED
    BY <1>1, <2>1, <2>2, WalkStep
<1>3. CASE Top.executors # "builtin" /\ EndWith(Pauses(Current.id)) /\ heard' = heard \cup {Current.id}
  <2>1. Sound(stack', root)
    BY <1>1, <1>3, EndSound
  <2>2. Top = stack[Len(stack)] /\ InPlace(stack, root, Len(stack))
    BY <1>1, TopSound
  <2>3. \A i \in 1..Len(stack) - 1 : NodeAt(stack[i]).does # "subgraph"
    BY <1>3, <2>2 DEF InPlace
  <2>4. PauseIsOnItsWay'
    BY <1>1, <1>3, <2>3, PausePops
  <2> QED
    BY <1>1, <2>1, <2>4, WalkStep
<1> QED
  BY <1>2, <1>3 DEF Gate

LEMMA StepSubflow ==
    ASSUME Inv, Subflow
    PROVE  Inv'
<1>1. /\ Walking /\ stack # <<>> /\ Sound(stack, root)
      /\ Current.does = "subflow" /\ UNCHANGED <<root, row, now, heard, fenced, releases>>
  BY DEF Subflow, Walking, Inv, Raise, Enter
<1>2. ~TooDeep(Top, Current) /\ Enter(Workflows[Current.graph], {}, Top.executors) => Sound(stack', root)
  BY <1>1, PushSound DEF Enter
<1>3. Raise => Sound(stack', root)
  BY <1>1, EndSound DEF Raise
<1>4. Sound(stack', root)
  BY <1>2, <1>3 DEF Subflow
<1>5. PauseIsOnItsWay'
  BY <1>1, QuietStep
<1> QED
  BY <1>1, <1>4, <1>5, WalkStep

LEMMA StepSubgraph ==
    ASSUME Inv, Subgraph
    PROVE  Inv'
<1>1. /\ Walking /\ stack # <<>> /\ Sound(stack, root)
      /\ Current.does = "subgraph" /\ UNCHANGED <<root, row, now, heard, fenced, releases>>
  BY DEF Subgraph, Walking, Inv, Raise, Enter
<1>2. Enter(Workflows[Current.graph], {}, "builtin") => Sound(stack', root)
  BY <1>1, PushSound DEF Enter
<1>3. Raise => Sound(stack', root)
  BY <1>1, EndSound DEF Raise
<1>4. Sound(stack', root)
  BY <1>2, <1>3 DEF Subgraph
<1>5. PauseIsOnItsWay'
  BY <1>1, QuietStep
<1> QED
  BY <1>1, <1>4, <1>5, WalkStep

LEMMA StepForEach ==
    ASSUME Inv, ForEach
    PROVE  Inv'
<1>1. /\ Walking /\ stack # <<>> /\ Sound(stack, root)
      /\ Current.does = "for_each" /\ UNCHANGED <<root, row, now, heard, fenced, releases>>
  BY DEF ForEach, Walking, Inv, Raise, Enter
<1>2. Enter(Workflows[Current.graph], {Top.item}, Top.executors) => Sound(stack', root)
  BY <1>1, PushSound DEF Enter
<1>3. Raise => Sound(stack', root)
  BY <1>1, EndSound DEF Raise
<1>4. Replace(Proceed(Top)) => Sound(stack', root)
  BY <1>1, ProceedSound
<1>5. Sound(stack', root)
  BY <1>2, <1>3, <1>4 DEF ForEach
<1>6. PauseIsOnItsWay'
  BY <1>1, QuietStep
<1> QED
  BY <1>1, <1>5, <1>6, WalkStep

LEMMA StepEnd ==
    ASSUME Inv, End
    PROVE  Inv'
<1>1. /\ Walking /\ stack # <<>> /\ Sound(stack, root) /\ EndWith(Succeeds)
      /\ UNCHANGED <<root, row, now, heard, fenced, releases>>
  BY DEF End, Walking, Inv
<1> QED
  BY <1>1, EndSound, QuietStep, WalkStep

\* What a child reported goes on to the walk one level up: when nobody was asked,
\* anything may; when somebody was, it is that pause and no subgraph holds it.
LEMMA StepReturn ==
    ASSUME Inv, Return
    PROVE  Inv'
<1>1. /\ stack # <<>> /\ result # NoResult /\ Sound(stack, root)
      /\ UNCHANGED <<root, row, now, heard, fenced, releases>>
  BY DEF Return, Inv
<1>2. /\ Top = stack[Len(stack)]
      /\ Len(stack) \in Nat \ {0} /\ DOMAIN stack = 1..Len(stack)
      /\ InStep(Top, Len(stack))
  BY <1>1, TopSound
<1>3. Sound(stack', root)
  <2>1. CASE SubflowReturns(result)
    BY <1>1, <2>1, EndSound, ProceedSound DEF SubflowReturns
  <2>2. CASE SubgraphReturns(result)
    BY <1>1, <2>2, ProceedSound DEF SubgraphReturns
  <2>3. CASE ItemReturns(result)
    <3>1. CASE IsPause(result)
      BY <1>1, <2>3, <3>1, EndSound DEF ItemReturns
    <3>2. CASE ~IsPause(result)
      <4> DEFINE f == [Top EXCEPT !.item = @ + 1,
                                  !.failures = IF result = Fails THEN @ \cup {Top.item} ELSE @]
      <4>1. stack' = [stack EXCEPT ![Len(stack)] = f]
        BY <2>3, <3>2 DEF ItemReturns, Replace
      <4>2. /\ IsWalk(f)
            /\ f.graph = Top.graph /\ f.path = Top.path /\ f.depth = Top.depth
            /\ f.executors = Top.executors /\ f.bindings = Top.bindings
            /\ f.at = Top.at /\ f.item = Top.item + 1
            /\ f.failures \subseteq Top.failures \cup {Top.item}
        BY <1>2 DEF InStep, IsWalk
      <4> HIDE DEF f
      <4>3. /\ f.at \in Nat \ {0} /\ f.item \in Nat
            /\ f.failures \subseteq 0..f.item - 1
        <5>1. /\ Top.at \in Nat \ {0} /\ Top.item \in Nat
              /\ \A x \in Top.failures : x \in 0..Top.item - 1
          BY <1>2 DEF InStep
        <5>2. \A x \in f.failures : x \in 0..Top.item
          BY <4>2, <5>1
        <5>3. f.item - 1 = Top.item
          BY <4>2, <5>1
        <5>4. f.failures \subseteq 0..f.item - 1
          BY <5>2, <5>3
        <5>5. f.at \in Nat \ {0} /\ f.item \in Nat
          BY <4>2, <5>1
        <5> QED
          BY <5>4, <5>5
      <4> QED
        BY <1>1, <1>2, <4>1, <4>2, <4>3, SwapSound
    <3> QED
      BY <3>1, <3>2
  <2> QED
    BY <2>1, <2>2, <2>3 DEF Return
<1>4. PauseIsOnItsWay'
  <2>1. CASE heard = {}
    BY <1>1, <2>1 DEF PauseIsOnItsWay
  <2>2. CASE heard # {}
    <3>1. /\ IsPause(result) /\ result.id \in heard
          /\ \A i \in DOMAIN stack : NodeAt(stack[i]).does # "subgraph"
      BY <1>1, <2>2 DEF Inv, PauseIsOnItsWay
    <3>2. Current.does # "subgraph"
      BY <1>2, <3>1 DEF Current
    <3>3. EndWith(result)
      BY <3>1, <3>2 DEF Return, SubflowReturns, ItemReturns, IsPause, Succeeds
    <3>4. /\ DOMAIN Front(stack) = 1..Len(stack) - 1
          /\ \A i \in 1..Len(stack) - 1 : Front(stack)[i] = stack[i]
      BY <1>1, FrontSeq DEF Sound
    <3>5. \A i \in DOMAIN stack' : NodeAt(stack'[i]).does # "subgraph"
      BY <1>2, <3>1, <3>3, <3>4 DEF EndWith
    <3> QED
      BY <1>1, <3>1, <3>3, <3>5 DEF EndWith, PauseIsOnItsWay
  <2> QED
    BY <2>1, <2>2
<1> QED
  BY <1>1, <1>3, <1>4, WalkStep

LEMMA StepSettle ==
    ASSUME Inv, Settle
    PROVE  Inv'
<1>1. /\ UNCHANGED <<root, stack, now, fenced, releases>> /\ stack = <<>> /\ result' = NoResult
      /\ row' = [row EXCEPT !.status = Verdict]
  BY DEF Settle
<1>2. Verdict \in {"none", "claimed", "paused", "failed", "completed"}
  BY DEF Verdict
<1>3. row' \in [status : {"none", "claimed", "paused", "failed", "completed"},
                attempt : 0..MaxAttempts, first : 0..now]
  BY <1>1, <1>2 DEF Inv
<1>4. PauseIsOnItsWay'
  BY <1>1 DEF PauseIsOnItsWay
<1> QED
  BY <1>1, <1>3, <1>4 DEF Inv, ChildrenAreNotFenced

LEMMA RootSound ==
    ASSUME NEW f, NEW r,
           f = [graph |-> <<r>>, at |-> 1, item |-> 0, failures |-> {}, path |-> <<>>, depth |-> 0,
                executors |-> "host", bindings |-> Siblings, position |-> <<>>]
    PROVE  Sound(<<f>>, r)
<1>1. IsSeq(<<f>>) /\ DOMAIN <<f>> = {1} /\ <<f>>[1] = f
  <2> DEFINE s == <<f>>
  <2>1. s \in Seq({f}) /\ Len(s) = 1 /\ s[1] = f
    OBVIOUS
  <2> HIDE DEF s
  <2>2. DOMAIN s = {1}
    BY <2>1
  <2>3. IsSeq(s)
    BY <2>1, SeqOfOwn
  <2> QED
    BY <2>1, <2>2, <2>3 DEF s
<1>2. IsSeq(f.path) /\ Len(f.path) = 0
  <2>1. f.path = <<>>
    OBVIOUS
  <2>2. <<>> \in Seq({})
    OBVIOUS
  <2> QED
    BY <2>1, <2>2, SeqOfOwn
<1>3. InStep(f, 1)
  BY <1>2 DEF InStep, IsWalk
<1>4. InPlace(<<f>>, r, 1)
  BY <1>1 DEF InPlace
<1> QED
  BY <1>1, <1>3, <1>4 DEF Sound

LEMMA StepAttempt ==
    ASSUME Inv, Attempt
    PROVE  Inv'
<1>1. UNCHANGED <<root, now, fenced, releases>> /\ heard' = {} /\ row.attempt < MaxAttempts /\ row' = Claimed(row)
  BY DEF Attempt
<1>2. Sound(stack', root)
  BY RootSound DEF Attempt
<1>3. row' \in [status : {"none", "claimed", "paused", "failed", "completed"},
                attempt : 0..MaxAttempts, first : 0..now]
  <2>1. /\ row.attempt \in 0..MaxAttempts /\ row.first \in 0..now /\ now \in 0..MaxTime
        /\ MaxAttempts \in Nat /\ MaxTime \in Nat
    BY NestedAssumption DEF Inv
  <2>2. row.attempt + 1 \in 0..MaxAttempts /\ now \in 0..now
    BY <1>1, <2>1
  <2> QED
    BY <1>1, <2>1, <2>2 DEF Claimed
<1>4. PauseIsOnItsWay'
  BY <1>1 DEF PauseIsOnItsWay
<1> QED
  BY <1>1, <1>2, <1>3, <1>4 DEF Inv, ChildrenAreNotFenced

\* Nothing is left of a dead worker's walks.
LEMMA EmptySound ==
    ASSUME NEW r
    PROVE  Sound(<<>>, r)
<1>1. <<>> \in Seq({}) /\ DOMAIN <<>> = {}
  OBVIOUS
<1> QED
  BY <1>1, SeqOfOwn DEF Sound

LEMMA StepCrash ==
    ASSUME Inv, Crash
    PROVE  Inv'
<1>1. UNCHANGED <<root, row, now, fenced, heard, releases>> /\ stack' = <<>> /\ result' = NoResult
  BY DEF Crash
<1>2. Sound(stack', root)
  BY <1>1, EmptySound
<1>3. PauseIsOnItsWay'
  BY <1>1 DEF PauseIsOnItsWay
<1> QED
  BY <1>1, <1>2, <1>3, WalkStep

LEMMA StepRelease ==
    ASSUME Inv, Release
    PROVE  Inv'
<1>1. /\ UNCHANGED <<root, stack, result, now, fenced, heard>> /\ stack = <<>> /\ result = NoResult
      /\ row' = NoClaim /\ releases < MaxReleases /\ releases' = releases + 1
  BY DEF Release
<1>2. row' \in [status : {"none", "claimed", "paused", "failed", "completed"},
                attempt : 0..MaxAttempts, first : 0..now]
  <2>1. now \in 0..MaxTime /\ MaxTime \in Nat /\ MaxAttempts \in Nat
    BY NestedAssumption DEF Inv
  <2>2. 0 \in 0..MaxAttempts /\ 0 \in 0..now
    BY <2>1
  <2> QED
    BY <1>1, <2>2 DEF NoClaim
<1>3. releases' \in 0..MaxReleases
  BY <1>1, NestedAssumption DEF Inv
<1>4. PauseIsOnItsWay'
  BY <1>1 DEF PauseIsOnItsWay
<1> QED
  BY <1>1, <1>2, <1>3, <1>4 DEF Inv, ChildrenAreNotFenced

LEMMA StepTick ==
    ASSUME Inv, Tick
    PROVE  Inv'
<1>1. UNCHANGED <<root, row, stack, result, fenced, heard, releases>> /\ now < MaxTime /\ now' = now + 1
  BY DEF Tick
<1>2. now \in 0..MaxTime /\ MaxTime \in Nat
  BY NestedAssumption DEF Inv
<1>3. now' \in 0..MaxTime /\ \A x \in 0..now : x \in 0..now'
  BY <1>1, <1>2
<1>4. row' \in [status : {"none", "claimed", "paused", "failed", "completed"},
                attempt : 0..MaxAttempts, first : 0..now']
  <2>1. row.first \in 0..now'
    BY <1>3 DEF Inv
  <2> QED
    BY <1>1, <2>1 DEF Inv
<1> QED
  BY <1>1, <1>3, <1>4 DEF Inv, ChildrenAreNotFenced, PauseIsOnItsWay

LEMMA StepStutter ==
    ASSUME Inv, UNCHANGED <<root, row, stack, result, now, fenced, heard, releases>>
    PROVE  Inv'
BY DEF Inv, ChildrenAreNotFenced, PauseIsOnItsWay

LEMMA InitSound ==
    ASSUME Init
    PROVE  Inv
<1>1. now \in 0..MaxTime /\ 0 \in 0..MaxAttempts /\ releases \in 0..MaxReleases
  BY NestedAssumption DEF Init
<1>2. row \in [status : {"none", "claimed", "paused", "failed", "completed"},
               attempt : 0..MaxAttempts, first : 0..now]
  BY <1>1 DEF Init, NoClaim
<1> QED
  BY <1>1, <1>2, EmptySound DEF Init, Inv, ChildrenAreNotFenced, PauseIsOnItsWay

LEMMA StepInv ==
    ASSUME Inv, [Next]_vars
    PROVE  Inv'
<1>1. CASE Walk
  BY <1>1, StepLeaf, StepGate, StepSubflow, StepSubgraph, StepForEach, StepEnd, StepReturn, StepSettle
     DEF Walk
<1>2. CASE \E id \in GateIds : Answer(id)
  BY <1>2, StepStutter DEF Answer
<1>3. CASE UNCHANGED vars
  BY <1>3, StepStutter DEF vars
<1> QED
  BY <1>1, <1>2, <1>3, StepAttempt, StepCrash, StepRelease, StepTick DEF Next

-----------------------------------------------------------------------------
(* Texts *)

\* A set of numbers none of which is its least is empty.
LEMMA NoLeast ==
    ASSUME NEW T, T \subseteq Nat, \A n \in T : \E m \in T : m < n
    PROVE  T = {}
<1>1. SUFFICES ASSUME T # {} PROVE FALSE
  OBVIOUS
<1>2. PICK n \in T : \A m \in T : ~(<<m, n>> \in OpToRel(<, Nat))
  BY <1>1, NatLessThanWellFounded, WFMin
<1>3. \A m \in T : ~(m < n)
  BY <1>2 DEF OpToRel
<1> QED
  BY <1>3

\* FlattenSeq joins the texts of a list from the left.
LEMMA FlattenSolves ==
    ASSUME NEW S, NEW s \in Seq(Seq(S)), s # <<>>
    PROVE  \E f \in [1..Len(s) -> Seq(S)] :
              /\ FlattenSeq(s) = f[Len(s)]
              /\ f[1] = s[1]
              /\ \A i \in 2..Len(s) : f[i] = f[i - 1] \o s[i]
<1> DEFINE n == Len(s)
           Joins(g, k) == \A i \in 1..k : g[i] = IF i = 1 THEN s[i] ELSE g[i - 1] \o s[i]
           Part(k) == {g \in [1..k -> Seq(S)] : Joins(g, k)}
           T == {k \in 1..n : Part(k) = {}}
           f == CHOOSE h : h = [i \in 1..n |-> IF i = 1 THEN s[i] ELSE h[i - 1] \o s[i]]
<1>1. n \in Nat \ {0} /\ \A i \in 1..n : s[i] \in Seq(S)
  OBVIOUS
<1>2. \A u, v \in Seq(S) : u \o v \in Seq(S)
  OBVIOUS
<1> HIDE DEF n
<1>3. Part(1) # {}
  <2>1. [i \in 1..1 |-> s[1]] \in Part(1)
    BY <1>1
  <2> QED
    BY <2>1
<1>4. ASSUME NEW k \in 1..n, k # 1, Part(k - 1) # {}
      PROVE  Part(k) # {}
  <2>1. PICK g \in [1..k - 1 -> Seq(S)] : Joins(g, k - 1)
    BY <1>4
  <2> DEFINE h == [i \in 1..k |-> IF i < k THEN g[i] ELSE g[k - 1] \o s[k]]
  <2>2. h \in [1..k -> Seq(S)]
    BY <1>1, <1>2, <1>4
  <2>3. ASSUME NEW i \in 1..k - 1
        PROVE  h[i] = g[i]
    <3>1. i \in 1..k /\ i < k
      BY <1>1, <1>4
    <3> QED
      BY <3>1
  <2>4. ASSUME NEW i \in 1..k
        PROVE  h[i] = IF i = 1 THEN s[i] ELSE h[i - 1] \o s[i]
    <3>1. CASE i < k
      <4>1. i \in 1..k - 1 /\ (i # 1 => i - 1 \in 1..k - 1)
        BY <1>1, <1>4, <3>1
      <4> HIDE DEF h
      <4> QED
        BY <2>1, <2>3, <4>1
    <3>2. CASE i = k
      <4>1. k \in 1..k /\ k - 1 \in 1..k - 1 /\ ~(k < k)
        BY <1>1, <1>4
      <4>2. h[k] = g[k - 1] \o s[k] /\ h[k - 1] = g[k - 1]
        BY <2>3, <4>1
      <4> HIDE DEF h
      <4> QED
        BY <1>4, <3>2, <4>2
    <3> QED
      BY <1>1, <3>1, <3>2
  <2> HIDE DEF h
  <2> QED
    BY <2>2, <2>4
<1>5. T = {}
  <2>1. ASSUME NEW k \in T
        PROVE  \E m \in T : m < k
    <3>1. k \in 1..n /\ Part(k) = {}
      OBVIOUS
    <3> HIDE DEF Part
    <3>2. k # 1 /\ k - 1 \in 1..n /\ k - 1 < k
      BY <1>1, <1>3, <3>1
    <3>3. Part(k - 1) = {}
      BY <1>4, <3>1, <3>2
    <3> QED
      BY <3>2, <3>3
  <2>2. T \subseteq Nat
    BY <1>1
  <2> HIDE DEF T
  <2> QED
    BY <2>1, <2>2, NoLeast
<1>6. PICK g \in [1..n -> Seq(S)] : Joins(g, n)
  <2>1. n \in 1..n
    BY <1>1
  <2>2. Part(n) # {}
    BY <1>5, <2>1
  <2> HIDE DEF Joins
  <2> QED
    BY <2>2
<1>7. g = [i \in 1..n |-> IF i = 1 THEN s[i] ELSE g[i - 1] \o s[i]]
  BY <1>6
<1>8. f = [i \in 1..n |-> IF i = 1 THEN s[i] ELSE f[i - 1] \o s[i]]
  BY <1>7
<1> HIDE DEF f
<1>9. \A i \in 1..n : f[i] = IF i = 1 THEN s[i] ELSE f[i - 1] \o s[i]
  BY <1>8
<1> DEFINE D == {i \in 1..n : f[i] # g[i]}
<1>10. D = {}
  <2>1. ASSUME NEW k \in D
        PROVE  \E m \in D : m < k
    <3>1. k \in 1..n /\ f[k] # g[k]
      OBVIOUS
    <3>2. k # 1
      BY <1>6, <1>9, <3>1
    <3>3. k - 1 \in 1..n /\ k - 1 < k
      BY <1>1, <3>1, <3>2
    <3>4. f[k - 1] # g[k - 1]
      BY <1>6, <1>9, <3>1, <3>2
    <3> QED
      BY <3>3, <3>4
  <2>2. D \subseteq Nat
    BY <1>1
  <2> HIDE DEF D
  <2> QED
    BY <2>1, <2>2, NoLeast
<1>11. FlattenSeq(s) = f[n]
  BY <1>1 DEF FlattenSeq, f, n
<1>12. \A i \in 1..n : f[i] = g[i]
  BY <1>10
<1>13. /\ FlattenSeq(s) = g[n] /\ g[1] = s[1]
       /\ \A i \in 2..n : g[i] = g[i - 1] \o s[i]
  <2>1. n \in 1..n /\ 1 \in 1..n /\ \A i \in 2..n : i \in 1..n /\ i # 1
    BY <1>1
  <2> QED
    BY <1>6, <1>11, <1>12, <2>1
<1> HIDE DEF Joins
<1> QED
  BY <1>13 DEF n

\* Texts and their concatenation, of which the lemmas below use nothing else.
Text(S) == Seq(S)
Cat(u, v) == u \o v

LEMMA CatText ==
    ASSUME NEW S, NEW u \in Text(S), NEW v \in Text(S)
    PROVE  Cat(u, v) \in Text(S)
BY ConcatProperties DEF Text, Cat

LEMMA CatEmpty ==
    ASSUME NEW S, NEW u \in Text(S)
    PROVE  <<>> \in Text(S) /\ Cat(u, <<>>) = u /\ Cat(<<>>, u) = u
BY ConcatEmptySeq DEF Text, Cat

LEMMA CatAssociative ==
    ASSUME NEW S, NEW u \in Text(S), NEW v \in Text(S), NEW w \in Text(S)
    PROVE  Cat(Cat(u, v), w) = Cat(u, Cat(v, w))
BY ConcatAssociative DEF Text, Cat

LEMMA CatCancel ==
    ASSUME NEW S, NEW u \in Text(S), NEW v \in Text(S), NEW w \in Text(S), Cat(u, v) = Cat(u, w)
    PROVE  v = w
BY ConcatSimplifications DEF Text, Cat

LEMMA CatAll ==
    ASSUME NEW S, NEW u \in Text(S), NEW v \in Text(S), u = Cat(u, v)
    PROVE  v = <<>>
BY ConcatSimplifications DEF Text, Cat

LEMMA CatNothing ==
    ASSUME NEW S, NEW u \in Text(S), NEW v \in Text(S), Cat(u, v) = <<>>
    PROVE  u = <<>> /\ v = <<>>
BY ConcatSimplifications DEF Text, Cat

\* What a function that joins s from the left says of its beginnings.
Joined(f, s, S) ==
    /\ s \in Seq(Text(S)) /\ s # <<>>
    /\ f \in [1..Len(s) -> Text(S)]
    /\ f[1] = s[1]
    /\ \A i \in 2..Len(s) : f[i] = Cat(f[i - 1], s[i])

LEMMA JoinedExists ==
    ASSUME NEW S, NEW s \in Seq(Text(S)), s # <<>>
    PROVE  \E f : Joined(f, s, S) /\ FlattenSeq(s) = f[Len(s)]
BY FlattenSolves DEF Joined, Text, Cat

LEMMA SeqSame ==
    ASSUME NEW S, NEW s \in Seq(S), NEW t \in Seq(S), Len(s) = Len(t),
           \A i \in 1..Len(s) : s[i] = t[i]
    PROVE  s = t
OBVIOUS

Before(f, k) == IF k = 0 THEN <<>> ELSE f[k]

Splits(f, s, S, k) ==
    /\ Before(f, k) \in Text(S) /\ s[k + 1] \in Text(S)
    /\ f[k + 1] = Cat(Before(f, k), s[k + 1])
    /\ \E r \in Text(S) : f[Len(s)] = Cat(Before(f, k), Cat(s[k + 1], r))

\* The element after the first k is found after their join.
LEMMA JoinSplits ==
    ASSUME NEW S, NEW s, NEW f, Joined(f, s, S), NEW k \in 0..Len(s) - 1
    PROVE  Splits(f, s, S, k)
<1> DEFINE n == Len(s)
           B == Before(f, k)
           a == s[k + 1]
           Upto(m) == \E r \in Text(S) : f[m] = Cat(B, Cat(a, r))
           T == {m \in k + 1..n : ~Upto(m)}
<1>1. n \in Nat \ {0} /\ (\A i \in 1..n : s[i] \in Text(S) /\ f[i] \in Text(S)) /\ k \in Nat /\ k + 1 \in 1..n
  <2>1. n \in Nat \ {0} /\ \A i \in 1..n : s[i] \in Text(S)
    BY DEF Joined
  <2>2. \A i \in 1..n : f[i] \in Text(S)
    BY DEF Joined
  <2>3. k \in Nat /\ k + 1 \in 1..n
    BY <2>1
  <2> QED
    BY <2>1, <2>2, <2>3
<1>2. B \in Text(S) /\ a \in Text(S) /\ <<>> \in Text(S)
  <2>1. k = 0 \/ k \in 1..n
    BY <1>1
  <2> QED
    BY <1>1, <2>1, CatEmpty DEF Before
<1>3. f[k + 1] = Cat(B, a)
  <2>1. CASE k = 0
    BY <1>1, <2>1, <1>2, CatEmpty DEF Before, Joined
  <2>2. CASE k # 0
    <3>1. k + 1 \in 2..n /\ (k + 1) - 1 = k
      BY <1>1, <2>2
    <3> QED
      BY <2>2, <3>1 DEF Before, Joined
  <2> QED
    BY <2>1, <2>2
<1> HIDE DEF n, B, a
<1>4. Upto(k + 1)
  BY <1>2, <1>3, CatEmpty
<1>5. ASSUME NEW m \in k + 1..n, m # k + 1, Upto(m - 1)
      PROVE  Upto(m)
  <2>1. PICK r \in Text(S) : f[m - 1] = Cat(B, Cat(a, r))
    BY <1>5
  <2>2. m \in 2..n /\ s[m] \in Text(S)
    BY <1>1, <1>5
  <2>3. f[m] = Cat(f[m - 1], s[m])
    BY <2>2 DEF Joined, n
  <2>4. Cat(a, r) \in Text(S) /\ Cat(r, s[m]) \in Text(S)
    BY <1>2, <2>1, <2>2, CatText
  <2>5. f[m] = Cat(B, Cat(Cat(a, r), s[m]))
    BY <1>2, <2>1, <2>2, <2>3, <2>4, CatAssociative
  <2>6. Cat(Cat(a, r), s[m]) = Cat(a, Cat(r, s[m]))
    BY <1>2, <2>1, <2>2, CatAssociative
  <2> QED
    BY <2>4, <2>5, <2>6
<1> HIDE DEF Upto
<1>6. T = {}
  <2>1. ASSUME NEW m \in T
        PROVE  \E i \in T : i < m
    <3>1. m \in k + 1..n /\ ~Upto(m)
      OBVIOUS
    <3>2. m # k + 1
      BY <1>4, <3>1
    <3>3. m - 1 \in k + 1..n /\ m - 1 < m
      BY <1>1, <3>1, <3>2
    <3>4. ~Upto(m - 1)
      BY <1>5, <3>1, <3>2
    <3> QED
      BY <3>3, <3>4
  <2>2. T \subseteq Nat
    BY <1>1
  <2> HIDE DEF T
  <2> QED
    BY <2>1, <2>2, NoLeast
<1>7. n \in k + 1..n
  BY <1>1
<1>8. Upto(n)
  BY <1>6, <1>7
<1> QED
  BY <1>2, <1>3, <1>8 DEF Upto, Splits, n, B, a

\* A code: a set of texts none of which begins another.
Code(C, S) ==
    /\ C \subseteq Text(S) \ {<<>>}
    /\ \A a, b \in C : \A u, v \in Text(S) : Cat(a, u) = Cat(b, v) => a = b

\* A joined list that begins another one has its elements.
LEMMA CodePrefix ==
    ASSUME NEW S, NEW C, Code(C, S), NEW s \in Seq(C), NEW t \in Seq(C), s # <<>>, t # <<>>,
           FlattenSeq(s) = FlattenSeq(t)
    PROVE  Len(s) <= Len(t) /\ \A i \in 1..Len(s) : s[i] = t[i]
<1> DEFINE n == Len(s)
           m == Len(t)
<1>1. /\ s \in Seq(Text(S)) /\ t \in Seq(Text(S))
      /\ n \in Nat \ {0} /\ m \in Nat \ {0}
      /\ \A i \in 1..n : s[i] \in C
      /\ \A i \in 1..m : t[i] \in C
  BY DEF Code
<1>2. PICK f : Joined(f, s, S) /\ FlattenSeq(s) = f[n]
  BY <1>1, JoinedExists
<1>3. PICK g : Joined(g, t, S) /\ FlattenSeq(t) = g[m]
  BY <1>1, JoinedExists
<1> DEFINE Same(k) == k \in 1..m /\ s[k] = t[k] /\ f[k] = g[k]
           T == {k \in 1..n : ~Same(k)}
<1>4. ASSUME NEW k \in 0..n - 1, k # 0 => Same(k)
      PROVE  Same(k + 1)
  <2>1. /\ Before(f, k) \in Text(S) /\ s[k + 1] \in Text(S)
        /\ f[k + 1] = Cat(Before(f, k), s[k + 1])
        /\ \E r \in Text(S) : f[n] = Cat(Before(f, k), Cat(s[k + 1], r))
    <3>1. k \in 0..Len(s) - 1
      OBVIOUS
    <3>2. Splits(f, s, S, k)
      BY <1>2, <3>1, JoinSplits
    <3> QED
      BY <3>2 DEF Splits
  <2>2. PICK r \in Text(S) : f[n] = Cat(Before(f, k), Cat(s[k + 1], r))
    BY <2>1
  <2>3. Before(g, k) = Before(f, k)
    BY <1>4 DEF Before
  <2>4. k \in 0..m /\ k + 1 \in 1..n /\ k \in Nat
    BY <1>1, <1>4
  <2>5. k # m
    <3>1. SUFFICES ASSUME k = m PROVE FALSE
      OBVIOUS
    <3>2. g[m] = Before(f, k)
      BY <1>1, <2>3, <3>1 DEF Before
    <3>3. Cat(s[k + 1], r) = <<>>
      <4>1. Before(f, k) = Cat(Before(f, k), Cat(s[k + 1], r)) /\ Cat(s[k + 1], r) \in Text(S)
        BY <1>2, <1>3, <2>1, <2>2, <3>2, CatText
      <4> QED
        BY <2>1, <4>1, CatAll
    <3>4. s[k + 1] = <<>>
      BY <2>1, <3>3, CatNothing
    <3> QED
      BY <1>1, <2>4, <3>4 DEF Code
  <2>6. k \in 0..m - 1
    BY <1>1, <2>4, <2>5
  <2>7. /\ t[k + 1] \in Text(S)
        /\ g[k + 1] = Cat(Before(f, k), t[k + 1])
        /\ \E q \in Text(S) : g[m] = Cat(Before(f, k), Cat(t[k + 1], q))
    <3>1. k \in 0..Len(t) - 1
      BY <2>6
    <3>2. Splits(g, t, S, k)
      BY <1>3, <3>1, JoinSplits
    <3> QED
      BY <2>3, <3>2 DEF Splits
  <2>8. PICK q \in Text(S) : g[m] = Cat(Before(f, k), Cat(t[k + 1], q))
    BY <2>7
  <2>9. Cat(s[k + 1], r) = Cat(t[k + 1], q)
    <3>1. /\ Cat(s[k + 1], r) \in Text(S) /\ Cat(t[k + 1], q) \in Text(S)
          /\ Cat(Before(f, k), Cat(s[k + 1], r)) = Cat(Before(f, k), Cat(t[k + 1], q))
      BY <1>2, <1>3, <2>1, <2>2, <2>7, <2>8, CatText
    <3> QED
      BY <2>1, <3>1, CatCancel
  <2>10. k + 1 \in 1..m
    BY <1>1, <2>6
  <2>11. s[k + 1] = t[k + 1]
    BY <1>1, <2>4, <2>9, <2>10 DEF Code
  <2> QED
    BY <2>1, <2>7, <2>10, <2>11
<1> HIDE DEF Same, n, m
<1>5. T = {}
  <2>1. ASSUME NEW k \in T
        PROVE  \E i \in T : i < k
    <3>1. k \in 1..n /\ ~Same(k)
      OBVIOUS
    <3>2. k - 1 \in 0..n - 1 /\ (k - 1) + 1 = k /\ k - 1 < k
      BY <1>1, <3>1
    <3>3. k - 1 # 0 /\ ~Same(k - 1)
      BY <1>4, <3>1, <3>2
    <3>4. k - 1 \in 1..n
      BY <1>1, <3>2, <3>3
    <3> QED
      BY <3>2, <3>3, <3>4
  <2>2. T \subseteq Nat
    BY <1>1
  <2> HIDE DEF T
  <2> QED
    BY <2>1, <2>2, NoLeast
<1>6. \A k \in 1..n : Same(k)
  BY <1>5
<1>7. n \in 1..n
  BY <1>1
<1> QED
  BY <1>1, <1>6, <1>7 DEF Same, n, m

\* What is written in a code is read back.
LEMMA CodeIsRead ==
    ASSUME NEW S, NEW C, Code(C, S), NEW s \in Seq(C), NEW t \in Seq(C),
           FlattenSeq(s) = FlattenSeq(t)
    PROVE  s = t
<1>1. ASSUME NEW u \in Seq(C), u # <<>>
      PROVE  FlattenSeq(u) # <<>>
  <2>1. u \in Seq(Text(S)) /\ Len(u) \in Nat \ {0}
    BY <1>1 DEF Code
  <2>2. PICK f : Joined(f, u, S) /\ FlattenSeq(u) = f[Len(u)]
    BY <1>1, <2>1, JoinedExists
  <2> DEFINE k == Len(u) - 1
  <2>3. k \in 0..Len(u) - 1 /\ k + 1 = Len(u) /\ Len(u) \in 1..Len(u)
    BY <2>1
  <2>4. /\ Before(f, k) \in Text(S) /\ u[Len(u)] \in Text(S)
        /\ f[Len(u)] = Cat(Before(f, k), u[Len(u)])
    <3>1. Splits(f, u, S, k)
      BY <2>2, <2>3, JoinSplits
    <3> QED
      BY <2>3, <3>1 DEF Splits
  <2>5. u[Len(u)] # <<>>
    BY <2>3 DEF Code
  <2> QED
    BY <2>2, <2>4, <2>5, CatNothing
<1>2. FlattenSeq(<<>>) = <<>>
  BY DEF FlattenSeq
<1>3. CASE s = <<>> \/ t = <<>>
  BY <1>1, <1>2, <1>3
<1>4. CASE s # <<>> /\ t # <<>>
  <2>1. Len(s) = Len(t) /\ \A i \in 1..Len(s) : s[i] = t[i]
    <3>1. Len(s) \in Nat /\ Len(t) \in Nat
      OBVIOUS
    <3> QED
      BY <1>4, <3>1, CodePrefix
  <2> QED
    BY <2>1
<1> QED
  BY <1>3, <1>4

\* The join of a longer list goes on from the join of the shorter.
LEMMA FlattenAppend ==
    ASSUME NEW S, NEW s \in Seq(Text(S)), NEW x \in Text(S)
    PROVE  /\ FlattenSeq(s) \in Text(S)
           /\ FlattenSeq(Append(s, x)) = Cat(FlattenSeq(s), x)
<1> DEFINE t == Append(s, x)
           n == Len(s)
<1>1. /\ t \in Seq(Text(S)) /\ t # <<>> /\ n \in Nat /\ Len(t) = n + 1
      /\ t[n + 1] = x /\ \A i \in 1..n : t[i] = s[i]
  OBVIOUS
<1> HIDE DEF t
<1>2. PICK g : Joined(g, t, S) /\ FlattenSeq(t) = g[n + 1]
  BY <1>1, JoinedExists
<1>3. CASE s = <<>>
  <2>1. n = 0 /\ FlattenSeq(s) = <<>>
    BY <1>3 DEF FlattenSeq
  <2>2. FlattenSeq(t) = x
    BY <1>1, <1>2, <2>1 DEF Joined
  <2> QED
    BY <2>1, <2>2, CatEmpty DEF t
<1>4. CASE s # <<>>
  <2>1. PICK f : Joined(f, s, S) /\ FlattenSeq(s) = f[n]
    BY <1>4, JoinedExists
  <2>2. n \in 1..n
    BY <1>1, <1>4
  <2> DEFINE D == {i \in 1..n : f[i] # g[i]}
  <2>3. D = {}
    <3>1. ASSUME NEW k \in D
          PROVE  \E i \in D : i < k
      <4>1. k \in 1..n /\ f[k] # g[k]
        OBVIOUS
      <4>2. f[1] = g[1]
        BY <1>1, <1>2, <2>1, <2>2 DEF Joined
      <4>3. k # 1
        BY <4>1, <4>2
      <4>4. k \in 2..n /\ k \in 2..n + 1 /\ k - 1 \in 1..n /\ k - 1 < k
        BY <1>1, <4>1, <4>3
      <4>5. f[k] = Cat(f[k - 1], s[k]) /\ g[k] = Cat(g[k - 1], t[k]) /\ t[k] = s[k]
        BY <1>1, <1>2, <2>1, <4>1, <4>4 DEF Joined
      <4>6. f[k - 1] # g[k - 1]
        BY <4>1, <4>5
      <4> QED
        BY <4>4, <4>6
    <3>2. D \subseteq Nat
      BY <1>1
    <3> HIDE DEF D
    <3> QED
      BY <3>1, <3>2, NoLeast
  <2>4. f[n] = g[n]
    BY <2>2, <2>3
  <2>5. n + 1 \in 2..n + 1 /\ (n + 1) - 1 = n
    BY <1>1, <2>2
  <2>6. g[n + 1] = Cat(g[n], x)
    BY <1>1, <1>2, <2>5 DEF Joined
  <2>7. f[n] \in Text(S)
    BY <2>1, <2>2 DEF Joined
  <2> QED
    BY <1>2, <2>1, <2>4, <2>6, <2>7 DEF t
<1> QED
  BY <1>3, <1>4


\* A text without the mark m is told by the first m behind it.
LEMMA MarkTells ==
    ASSUME NEW P, NEW m, m \notin P, NEW S, S = P \cup {m},
           NEW a \in Text(P), NEW b \in Text(P), NEW u \in Text(S), NEW v \in Text(S),
           Cat(Cat(a, <<m>>), u) = Cat(Cat(b, <<m>>), v)
    PROVE  a = b /\ u = v
<1> DEFINE x == (a \o <<m>>) \o u
           y == (b \o <<m>>) \o v
<1>0. a \in Seq(P) /\ b \in Seq(P) /\ u \in Seq(S) /\ v \in Seq(S)
  BY DEF Text
<1>1. /\ Len(x) = Len(a) + 1 + Len(u)
      /\ \A i \in 1..Len(a) : x[i] = a[i]
      /\ x[Len(a) + 1] = m
      /\ \A i \in 1..Len(u) : x[Len(a) + 1 + i] = u[i]
  BY <1>0
<1>2. /\ Len(y) = Len(b) + 1 + Len(v)
      /\ \A i \in 1..Len(b) : y[i] = b[i]
      /\ y[Len(b) + 1] = m
      /\ \A i \in 1..Len(v) : y[Len(b) + 1 + i] = v[i]
  BY <1>0
<1>3. x = y
  BY DEF Cat
<1>4. /\ Len(a) \in Nat /\ Len(b) \in Nat /\ Len(u) \in Nat /\ Len(v) \in Nat
      /\ \A i \in 1..Len(a) : a[i] \in P
      /\ \A i \in 1..Len(b) : b[i] \in P
  BY <1>0
<1> HIDE DEF x, y
<1>5. ~(Len(a) < Len(b))
  <2>1. SUFFICES ASSUME Len(a) < Len(b) PROVE FALSE
    OBVIOUS
  <2>2. Len(a) + 1 \in 1..Len(b)
    BY <1>4, <2>1
  <2> QED
    BY <1>1, <1>2, <1>3, <1>4, <2>2
<1>6. ~(Len(b) < Len(a))
  <2>1. SUFFICES ASSUME Len(b) < Len(a) PROVE FALSE
    OBVIOUS
  <2>2. Len(b) + 1 \in 1..Len(a)
    BY <1>4, <2>1
  <2> QED
    BY <1>1, <1>2, <1>3, <1>4, <2>2
<1>7. Len(a) = Len(b) /\ Len(u) = Len(v)
  BY <1>1, <1>2, <1>3, <1>4, <1>5, <1>6
<1>8. \A i \in 1..Len(a) : a[i] = b[i]
  BY <1>1, <1>2, <1>3, <1>7
<1>9. \A i \in 1..Len(u) : u[i] = v[i]
  BY <1>1, <1>2, <1>3, <1>7
<1>10. a = b
  BY <1>0, <1>7, <1>8, SeqSame
<1>11. u = v
  BY <1>0, <1>7, <1>9, SeqSame
<1> QED
  BY <1>10, <1>11

\* Texts closed by a mark that is not in them are a code.
LEMMA MarkedCode ==
    ASSUME NEW P, NEW m, m \notin P, NEW S, S = P \cup {m}
    PROVE  Code({Cat(a, <<m>>) : a \in Text(P)}, S)
<1> DEFINE C == {Cat(a, <<m>>) : a \in Text(P)}
<1>1. ASSUME NEW a \in Text(P)
      PROVE  Cat(a, <<m>>) \in Text(S) /\ Cat(a, <<m>>) # <<>>
  <2>1. a \in Seq(S) /\ <<m>> \in Seq(S) /\ <<m>> # <<>>
    BY DEF Text
  <2>2. a \o <<m>> \in Seq(S) /\ a \o <<m>> # <<>>
    BY <2>1
  <2> QED
    BY <2>2 DEF Text, Cat
<1>2. C \subseteq Text(S) \ {<<>>}
  BY <1>1
<1>3. ASSUME NEW x \in C, NEW y \in C, NEW u \in Text(S), NEW v \in Text(S), Cat(x, u) = Cat(y, v)
      PROVE  x = y
  <2>1. PICK a \in Text(P), b \in Text(P) : x = Cat(a, <<m>>) /\ y = Cat(b, <<m>>)
    BY <1>3
  <2>2. a = b
    BY <1>3, <2>1, MarkTells
  <2> QED
    BY <2>1, <2>2
<1> HIDE DEF C
<1>4. Code(C, S)
  BY <1>2, <1>3 DEF Code
<1> QED
  BY <1>4 DEF C

-----------------------------------------------------------------------------
(* Escapes *)

Marks == {"%", "/", "#"}
Alphabet(S) ==
    {"%", "/", "#", "F", "0", "1", "2", "3", "4", "5", "6", "7", "8", "9"} \subseteq S

\* What is left of an alphabet in a segment, and in an id inside one.
Segment(S) == S \ {"/"}
Plain(S) == S \ {"/", "#"}

\* An escaped character holds neither mark.
LEMMA EscapedPlain ==
    ASSUME NEW S, Alphabet(S), NEW c \in S
    PROVE  escaped(c) \in Text(Plain(S)) /\ escaped(c) \in Text(S) /\ escaped(c) # <<>>
<1>1. \/ c = "%" /\ escaped(c) = <<"%", "2", "5">>
      \/ c = "/" /\ escaped(c) = <<"%", "2", "F">>
      \/ c = "#" /\ escaped(c) = <<"%", "2", "3">>
      \/ c \notin Marks /\ escaped(c) = <<c>>
  BY DEF escaped, Marks
<1>2. {"%", "2", "5", "F", "3"} \subseteq Plain(S) /\ Plain(S) \subseteq S
  BY DEF Alphabet, Plain
<1>3. c \notin Marks => c \in Plain(S)
  BY DEF Marks, Plain
<1>4. ASSUME NEW P, {"%", "2", "5", "F", "3"} \subseteq P, c \notin Marks => c \in P
      PROVE  escaped(c) \in Seq(P) /\ escaped(c) # <<>>
  <2>1. <<"%", "2", "5">> \in Seq(P) /\ <<"%", "2", "F">> \in Seq(P) /\ <<"%", "2", "3">> \in Seq(P)
    BY <1>4
  <2>2. c \notin Marks => <<c>> \in Seq(P)
    BY <1>4
  <2>3. /\ <<"%", "2", "5">> # <<>> /\ <<"%", "2", "F">> # <<>> /\ <<"%", "2", "3">> # <<>>
        /\ <<c>> # <<>>
    OBVIOUS
  <2> QED
    BY <1>1, <2>1, <2>2, <2>3
<1> QED
  BY <1>2, <1>3, <1>4 DEF Text

\* The first characters of a text tell which character was escaped there.
LEMMA EscapedTells ==
    ASSUME NEW S, Alphabet(S), NEW a \in S, NEW b \in S, NEW u \in Text(S), NEW v \in Text(S),
           Cat(escaped(a), u) = Cat(escaped(b), v)
    PROVE  a = b
<1> DEFINE x == escaped(a) \o u
           y == escaped(b) \o v
<1>1. u \in Seq(S) /\ v \in Seq(S)
  BY DEF Text
<1>2. /\ a = "%" => x[1] = "%" /\ x[3] = "5"
      /\ a = "/" => x[1] = "%" /\ x[3] = "F"
      /\ a = "#" => x[1] = "%" /\ x[3] = "3"
      /\ a \notin Marks => x[1] = a
  BY <1>1 DEF escaped, Marks
<1>3. /\ b = "%" => y[1] = "%" /\ y[3] = "5"
      /\ b = "/" => y[1] = "%" /\ y[3] = "F"
      /\ b = "#" => y[1] = "%" /\ y[3] = "3"
      /\ b \notin Marks => y[1] = b
  BY <1>1 DEF escaped, Marks
<1>4. x = y
  BY DEF Cat
<1> HIDE DEF x, y
<1> QED
  BY <1>2, <1>3, <1>4 DEF Marks

Escapes(S) == {escaped(c) : c \in S}

\* The escapes are a code.
LEMMA EscapesAreACode ==
    ASSUME NEW S, Alphabet(S)
    PROVE  Code(Escapes(S), S)
<1>1. Escapes(S) \subseteq Text(S) \ {<<>>}
  BY EscapedPlain DEF Escapes
<1>2. ASSUME NEW x \in Escapes(S), NEW y \in Escapes(S), NEW u \in Text(S), NEW v \in Text(S),
             Cat(x, u) = Cat(y, v)
      PROVE  x = y
  <2>1. PICK a \in S, b \in S : x = escaped(a) /\ y = escaped(b)
    BY DEF Escapes
  <2>2. a = b
    BY <1>2, <2>1, EscapedTells
  <2> QED
    BY <2>1, <2>2
<1> QED
  BY <1>1, <1>2 DEF Code

LEMMA FlattenText ==
    ASSUME NEW S, NEW s \in Seq(Text(S))
    PROVE  FlattenSeq(s) \in Text(S)
<1>1. <<>> \in Text(S)
  BY DEF Text
<1>2. CASE s = <<>>
  BY <1>1, <1>2 DEF FlattenSeq
<1>3. CASE s # <<>>
  <2>1. PICK f : Joined(f, s, S) /\ FlattenSeq(s) = f[Len(s)]
    BY <1>3, JoinedExists
  <2>2. Len(s) \in 1..Len(s)
    BY <1>3
  <2> QED
    BY <2>1, <2>2 DEF Joined
<1> QED
  BY <1>2, <1>3

\* An escaped id holds neither mark, and is the id's alone.
LEMMA EscapeIsPlain ==
    ASSUME NEW S, Alphabet(S), NEW value \in Seq(S)
    PROVE  escape_segment(value) \in Text(Plain(S))
<1> DEFINE e == [i \in DOMAIN value |-> escaped(value[i])]
<1>1. DOMAIN value = 1..Len(value) /\ Len(value) \in Nat /\ \A i \in 1..Len(value) : value[i] \in S
  OBVIOUS
<1>2. \A i \in 1..Len(value) : escaped(value[i]) \in Text(Plain(S))
  BY <1>1, EscapedPlain
<1>3. e \in Seq(Text(Plain(S)))
  BY <1>1, <1>2
<1>4. FlattenSeq(e) \in Text(Plain(S))
  BY <1>3, FlattenText
<1> QED
  BY <1>4 DEF escape_segment

LEMMA EscapeTells ==
    ASSUME NEW S, Alphabet(S), NEW a \in Seq(S), NEW b \in Seq(S), escape_segment(a) = escape_segment(b)
    PROVE  a = b
<1> DEFINE E(value) == [i \in DOMAIN value |-> escaped(value[i])]
<1>1. ASSUME NEW value \in Seq(S)
      PROVE  E(value) \in Seq(Escapes(S)) /\ Len(E(value)) = Len(value)
  <2>1. DOMAIN value = 1..Len(value) /\ Len(value) \in Nat /\ \A i \in 1..Len(value) : value[i] \in S
    OBVIOUS
  <2>2. \A i \in 1..Len(value) : escaped(value[i]) \in Escapes(S)
    BY <2>1 DEF Escapes
  <2> QED
    BY <2>1, <2>2
<1>2. ASSUME NEW value \in Seq(S), NEW i \in 1..Len(value)
      PROVE  E(value)[i] = escaped(value[i]) /\ value[i] \in S
  OBVIOUS
<1>3. FlattenSeq(E(a)) = FlattenSeq(E(b))
  BY DEF escape_segment
<1> HIDE DEF E
<1>4. E(a) = E(b)
  BY <1>1, <1>3, EscapesAreACode, CodeIsRead
<1>5. Len(a) = Len(b)
  BY <1>1, <1>4
<1>6. ASSUME NEW i \in 1..Len(a)
      PROVE  a[i] = b[i]
  <2>1. escaped(a[i]) = escaped(b[i]) /\ a[i] \in S /\ b[i] \in S
    BY <1>2, <1>4, <1>5
  <2>2. <<>> \in Text(S)
    BY DEF Text
  <2> QED
    BY <2>1, <2>2, EscapedTells
<1> QED
  BY <1>5, <1>6, SeqSame

-----------------------------------------------------------------------------
(* Numbers *)

\* One step of the recursion of decimal, over any function.
Written(g, n) == (IF n < 10 THEN <<>> ELSE g[n \div 10]) \o <<digits[(n % 10) + 1]>>

LEMMA Tenth ==
    /\ \A n \in Nat : ~(n < 10) => n \div 10 \in Nat /\ n \div 10 < n
    /\ \A n \in Nat : n % 10 \in 0..9
    /\ \A m, n \in Nat : m % 10 = n % 10 /\ m \div 10 = n \div 10 => m = n
    /\ \A m, n \in Nat : m < 10 /\ n < 10 /\ m % 10 = n % 10 => m = n
OBVIOUS

\* Two solutions agree as far as both go.
LEMMA WrittenTogether ==
    ASSUME NEW g, NEW h, NEW M \in Nat, NEW N \in Nat,
           \A i \in 0..M : g[i] = Written(g, i),
           \A i \in 0..N : h[i] = Written(h, i)
    PROVE  \A i \in 0..M : i \in 0..N => g[i] = h[i]
<1> DEFINE D == {i \in 0..M : i \in 0..N /\ g[i] # h[i]}
<1>1. ASSUME NEW n \in D
      PROVE  \E i \in D : i < n
  <2>1. n \in 0..M /\ n \in 0..N /\ g[n] # h[n] /\ n \in Nat
    OBVIOUS
  <2>2. g[n] = Written(g, n) /\ h[n] = Written(h, n)
    BY <2>1
  <2>3. ~(n < 10)
    BY <2>1, <2>2 DEF Written
  <2>4. g[n \div 10] # h[n \div 10]
    BY <2>1, <2>2, <2>3 DEF Written
  <2>5. n \div 10 \in 0..M /\ n \div 10 \in 0..N /\ n \div 10 < n
    BY <2>1, <2>3, Tenth
  <2> QED
    BY <2>4, <2>5
<1>2. D \subseteq Nat
  OBVIOUS
<1> HIDE DEF D
<1>3. D = {}
  BY <1>1, <1>2, NoLeast
<1> QED
  BY <1>3 DEF D

\* decimal is the solution of its recursion: the solutions up to a number agree, and
\* there is one for every number.
LEMMA DecimalSolves == \A n \in Nat : decimal[n] = Written(decimal, n)
<1> DEFINE Solves(g, n) == DOMAIN g = 0..n /\ \A i \in 0..n : g[i] = Written(g, i)
           T == {n \in Nat : ~\E g : Solves(g, n)}
<1>1. ASSUME NEW n \in Nat, n # 0, NEW g, Solves(g, n - 1)
      PROVE  \E h : Solves(h, n)
  <2> DEFINE h == [i \in 0..n |-> IF i < n THEN g[i] ELSE Written(g, n)]
  <2>1. ASSUME NEW i \in 0..n
        PROVE  h[i] = Written(h, i)
    <3>1. ~(i < 10) => i \div 10 \in 0..n /\ i \div 10 < n
      BY Tenth
    <3>2. ~(i < 10) => h[i \div 10] = g[i \div 10]
      BY <3>1
    <3>3. Written(h, i) = Written(g, i)
      BY <3>2 DEF Written
    <3>4. h[i] = Written(g, i)
      <4>1. CASE i < n
        <5>1. i \in 0..n - 1
          BY <4>1
        <5> QED
          BY <1>1, <4>1, <5>1
      <4>2. CASE i = n
        BY <4>2
      <4> QED
        BY <4>1, <4>2
    <3> QED
      BY <3>3, <3>4
  <2>2. DOMAIN h = 0..n
    OBVIOUS
  <2> HIDE DEF h
  <2> QED
    BY <2>1, <2>2
<1>2. \E g : Solves(g, 0)
  <2> DEFINE g == [i \in 0..0 |-> <<>> \o <<digits[(i % 10) + 1]>>]
  <2>1. DOMAIN g = 0..0 /\ \A i \in 0..0 : g[i] = Written(g, i)
    BY DEF Written
  <2> HIDE DEF g
  <2> QED
    BY <2>1
<1>3. T = {}
  <2>1. ASSUME NEW n \in T
        PROVE  \E i \in T : i < n
    <3>1. n \in Nat /\ ~\E g : Solves(g, n)
      OBVIOUS
    <3> HIDE DEF Solves
    <3>2. n # 0
      BY <1>2, <3>1
    <3>3. n - 1 \in Nat /\ n - 1 < n
      BY <3>1, <3>2
    <3>4. ~\E g : Solves(g, n - 1)
      BY <1>1, <3>1, <3>2
    <3> QED
      BY <3>3, <3>4
  <2>2. T \subseteq Nat
    OBVIOUS
  <2> HIDE DEF T
  <2> QED
    BY <2>1, <2>2, NoLeast
<1> DEFINE G(n) == CHOOSE g : Solves(g, n)
           d == [n \in Nat |-> G(n)[n]]
<1>4. \A n \in Nat : Solves(G(n), n)
  <2> HIDE DEF Solves
  <2> QED
    BY <1>3
<1>5. ASSUME NEW n \in Nat
      PROVE  d[n] = Written(d, n)
  <2>1. G(n)[n] = Written(G(n), n)
    <3>1. n \in 0..n
      OBVIOUS
    <3> HIDE DEF G
    <3> QED
      BY <1>4, <3>1
  <2>2. ASSUME ~(n < 10)
        PROVE  G(n)[n \div 10] = d[n \div 10]
    <3>1. n \div 10 \in Nat /\ n \div 10 < n
      BY <2>2, Tenth
    <3> DEFINE m == n \div 10
    <3> HIDE DEF m
    <3>2. m \in Nat /\ m \in 0..n /\ m \in 0..m
      BY <3>1 DEF m
    <3>3. /\ \A i \in 0..n : G(n)[i] = Written(G(n), i)
          /\ \A i \in 0..m : G(m)[i] = Written(G(m), i)
      <4> HIDE DEF G
      <4> QED
        BY <1>4, <3>2
    <3>4. G(n)[m] = G(m)[m]
      <4> HIDE DEF G
      <4> QED
        BY <3>2, <3>3, WrittenTogether
    <3>5. d[m] = G(m)[m]
      <4> HIDE DEF G
      <4> QED
        BY <3>2
    <3> QED
      BY <3>4, <3>5 DEF m
  <2>3. d[n] = G(n)[n]
    <3> HIDE DEF G
    <3> QED
      OBVIOUS
  <2> HIDE DEF d, G
  <2>4. Written(G(n), n) = Written(d, n)
    BY <2>2 DEF Written
  <2> QED
    BY <2>1, <2>3, <2>4
<1>6. d = [n \in Nat |-> Written(d, n)]
  <2>1. DOMAIN d = Nat
    OBVIOUS
  <2>2. d = [n \in Nat |-> d[n]]
    <3> HIDE DEF G
    <3> QED
      OBVIOUS
  <2> HIDE DEF d
  <2> QED
    BY <1>5, <2>2
<1>7. decimal = CHOOSE f : f = [n \in Nat |-> Written(f, n)]
  BY DEF decimal, Written
<1> HIDE DEF d
<1>8. decimal = [n \in Nat |-> Written(decimal, n)]
  BY <1>6, <1>7
<1> QED
  BY <1>8

Digit(S) == \A i \in 0..9 : digits[i + 1] \in S

LEMMA DigitsTell ==
    /\ \A i, j \in 0..9 : digits[i + 1] = digits[j + 1] => i = j
    /\ \A S : Alphabet(S) => Digit(Plain(S))
<1>1. \A i \in 0..9 : i = 0 \/ i = 1 \/ i = 2 \/ i = 3 \/ i = 4 \/ i = 5 \/ i = 6 \/ i = 7 \/ i = 8 \/ i = 9
  OBVIOUS
<1>2. /\ digits[0 + 1] = "0" /\ digits[1 + 1] = "1" /\ digits[2 + 1] = "2" /\ digits[3 + 1] = "3"
      /\ digits[4 + 1] = "4" /\ digits[5 + 1] = "5" /\ digits[6 + 1] = "6" /\ digits[7 + 1] = "7"
      /\ digits[8 + 1] = "8" /\ digits[9 + 1] = "9"
  BY DEF digits
<1>3. ASSUME NEW i \in 0..9, NEW j \in 0..9, digits[i + 1] = digits[j + 1]
      PROVE  i = j
  BY <1>1, <1>2, <1>3
<1>4. ASSUME NEW S, Alphabet(S), NEW i \in 0..9
      PROVE  digits[i + 1] \in Plain(S)
  BY <1>1, <1>2, <1>4 DEF Alphabet, Plain
<1> QED
  BY <1>3, <1>4 DEF Digit

\* A number's text is made of digits.
LEMMA DecimalIsPlain ==
    ASSUME NEW S, Digit(S), NEW n \in Nat
    PROVE  decimal[n] \in Text(S) /\ decimal[n] # <<>>
<1> DEFINE T == {k \in Nat : decimal[k] \notin Text(S)}
<1>1. ASSUME NEW k \in Nat
      PROVE  <<digits[(k % 10) + 1]>> \in Seq(S)
  <2>1. digits[(k % 10) + 1] \in S
    BY Tenth DEF Digit
  <2> QED
    BY <2>1
<1>2. ASSUME NEW k \in T
      PROVE  \E i \in T : i < k
  <2>1. k \in Nat /\ decimal[k] \notin Text(S)
    OBVIOUS
  <2>2. decimal[k] = (IF k < 10 THEN <<>> ELSE decimal[k \div 10]) \o <<digits[(k % 10) + 1]>>
    BY <2>1, DecimalSolves DEF Written
  <2>3. <<>> \in Text(S) /\ <<digits[(k % 10) + 1]>> \in Text(S)
    BY <1>1, <2>1 DEF Text
  <2>4. ~(k < 10)
    BY <2>1, <2>2, <2>3, CatText DEF Cat
  <2>5. decimal[k \div 10] \notin Text(S)
    BY <2>1, <2>2, <2>3, <2>4, CatText DEF Cat
  <2> QED
    BY <2>1, <2>4, <2>5, Tenth
<1>3. T \subseteq Nat
  OBVIOUS
<1> HIDE DEF T
<1>4. T = {}
  BY <1>2, <1>3, NoLeast
<1>5. \A k \in Nat : decimal[k] \in Text(S)
  BY <1>4 DEF T
<1>6. decimal[n] # <<>>
  <2> DEFINE a == IF n < 10 THEN <<>> ELSE decimal[n \div 10]
             e == <<digits[(n % 10) + 1]>>
  <2>1. decimal[n] = Cat(a, e)
    BY DecimalSolves DEF Written, Cat
  <2>2. e \in Text(S) /\ e # <<>>
    BY <1>1 DEF Text
  <2>3. a \in Text(S)
    <3>1. <<>> \in Text(S)
      BY DEF Text
    <3> QED
      BY <1>5, <3>1, Tenth
  <2> HIDE DEF a, e
  <2> QED
    BY <2>1, <2>2, <2>3, CatNothing
<1> QED
  BY <1>5, <1>6

\* A text and its last character tell each other.
LEMMA LastTells ==
    ASSUME NEW S, NEW a \in Text(S), NEW b \in Text(S), NEW c, NEW d,
           Cat(a, <<c>>) = Cat(b, <<d>>)
    PROVE  a = b /\ c = d
<1>1. a \in Seq(S) /\ b \in Seq(S)
  BY DEF Text
<1> DEFINE x == a \o <<c>>
           y == b \o <<d>>
<1>2. /\ Len(x) = Len(a) + 1 /\ Len(a) \in Nat
      /\ \A i \in 1..Len(a) : x[i] = a[i]
      /\ x[Len(a) + 1] = c
  BY <1>1
<1>3. /\ Len(y) = Len(b) + 1 /\ Len(b) \in Nat
      /\ \A i \in 1..Len(b) : y[i] = b[i]
      /\ y[Len(b) + 1] = d
  BY <1>1
<1>4. x = y
  BY DEF Cat
<1> HIDE DEF x, y
<1>5. Len(a) = Len(b) /\ c = d
  BY <1>2, <1>3, <1>4
<1>6. \A i \in 1..Len(a) : a[i] = b[i]
  BY <1>2, <1>3, <1>4, <1>5
<1> QED
  BY <1>1, <1>5, <1>6, SeqSame

\* A number's text is its own.
LEMMA DecimalTells ==
    ASSUME NEW m \in Nat, NEW n \in Nat, decimal[m] = decimal[n]
    PROVE  m = n
<1> DEFINE S == ToSet(digits)
           T == {k \in Nat : \E i \in Nat : i # k /\ decimal[i] = decimal[k]}
<1>1. Digit(S)
  BY DEF Digit, digits, ToSet
<1> HIDE DEF S
<1>2. ASSUME NEW k \in T
      PROVE  \E i \in T : i < k
  <2>1. k \in Nat
    OBVIOUS
  <2>2. PICK j \in Nat : j # k /\ decimal[j] = decimal[k]
    OBVIOUS
  <2> DEFINE Rest(i) == IF i < 10 THEN <<>> ELSE decimal[i \div 10]
  <2>3. ASSUME NEW i \in Nat
        PROVE  /\ decimal[i] = Cat(Rest(i), <<digits[(i % 10) + 1]>>)
               /\ Rest(i) \in Text(S)
               /\ ~(i < 10) => Rest(i) = decimal[i \div 10] /\ Rest(i) # <<>>
               /\ i < 10 => Rest(i) = <<>>
    <3>1. <<>> \in Text(S)
      BY DEF Text
    <3>2. ~(i < 10) => decimal[i \div 10] \in Text(S) /\ decimal[i \div 10] # <<>>
      BY <1>1, DecimalIsPlain, Tenth
    <3> QED
      BY <3>1, <3>2, DecimalSolves DEF Written, Cat
  <2> HIDE DEF Rest
  <2>4. Rest(j) = Rest(k) /\ digits[(j % 10) + 1] = digits[(k % 10) + 1]
    <3>1. /\ Rest(j) \in Text(S) /\ Rest(k) \in Text(S)
          /\ Cat(Rest(j), <<digits[(j % 10) + 1]>>) = Cat(Rest(k), <<digits[(k % 10) + 1]>>)
      BY <2>1, <2>2, <2>3
    <3> QED
      BY <3>1, LastTells
  <2>5. j % 10 = k % 10
    BY <2>1, <2>2, <2>4, DigitsTell, Tenth
  <2>6. ~(k < 10) /\ ~(j < 10)
    BY <2>1, <2>2, <2>3, <2>4, <2>5, Tenth
  <2>7. decimal[j \div 10] = decimal[k \div 10]
    BY <2>1, <2>2, <2>3, <2>4, <2>6
  <2>8. j \div 10 # k \div 10
    BY <2>1, <2>2, <2>5, Tenth
  <2>9. k \div 10 \in Nat /\ k \div 10 < k /\ j \div 10 \in Nat
    BY <2>1, <2>2, <2>6, Tenth
  <2>10. k \div 10 \in T
    BY <2>7, <2>8, <2>9
  <2> QED
    BY <2>9, <2>10
<1>3. T \subseteq Nat
  OBVIOUS
<1> HIDE DEF T
<1>4. T = {}
  BY <1>2, <1>3, NoLeast
<1> QED
  BY <1>4 DEF T

-----------------------------------------------------------------------------
(* Keys *)

IsOccurrence(o) == o = {} \/ \E n \in Nat : o = {n}

\* A text without a mark is none with it.
LEMMA MarkIsSeen ==
    ASSUME NEW P, NEW m, m \notin P, NEW S, P \subseteq S,
           NEW a \in Text(P), NEW b \in Text(P), NEW u \in Text(S)
    PROVE  a # Cat(Cat(b, <<m>>), u)
<1>1. a \in Seq(P) /\ b \in Seq(P) /\ u \in Seq(S)
  BY DEF Text
<1>2. SUFFICES ASSUME a = (b \o <<m>>) \o u PROVE FALSE
  BY DEF Cat
<1> DEFINE x == (b \o <<m>>) \o u
<1>3. Len(x) = Len(b) + 1 + Len(u) /\ x[Len(b) + 1] = m /\ Len(b) \in Nat /\ Len(u) \in Nat
  BY <1>1
<1>4. \A i \in 1..Len(a) : a[i] \in P
  BY <1>1
<1>5. x = a
  BY <1>2
<1> HIDE DEF x
<1>6. Len(b) + 1 \in 1..Len(a)
  BY <1>3, <1>5
<1> QED
  BY <1>3, <1>4, <1>5, <1>6

\* A segment is an escaped id, or one with a number behind the mark.
LEMMA RenderReads ==
    ASSUME NEW S, Alphabet(S), NEW a \in Seq(S), NEW o, IsOccurrence(o)
    PROVE  /\ escape_segment(a) \in Text(Plain(S))
           /\ \/ o = {} /\ render(a, o) = escape_segment(a)
              \/ \E n \in Nat : /\ o = {n}
                                /\ render(a, o) = Cat(Cat(escape_segment(a), <<"#">>), decimal[n])
                                /\ decimal[n] \in Text(Plain(S))
<1>1. escape_segment(a) \in Text(Plain(S))
  BY EscapeIsPlain
<1>2. CASE o = {}
  <2>1. render(a, o) = Cat(escape_segment(a), <<>>)
    BY <1>2 DEF render, Cat
  <2>2. render(a, o) = escape_segment(a)
    BY <1>1, <2>1, CatEmpty
  <2> QED
    BY <1>1, <1>2, <2>2
<1>3. ASSUME NEW n \in Nat, o = {n}
      PROVE  render(a, o) = Cat(Cat(escape_segment(a), <<"#">>), decimal[n]) /\ decimal[n] \in Text(Plain(S))
  <2>1. o # {} /\ (CHOOSE k \in o : TRUE) = n
    BY <1>3
  <2>2. render(a, o) = Cat(escape_segment(a), Cat(<<"#">>, decimal[n]))
    BY <2>1 DEF render, Cat
  <2>3. decimal[n] \in Text(Plain(S))
    BY DecimalIsPlain, DigitsTell
  <2>4. /\ escape_segment(a) \in Text(Plain(S) \cup {"#"}) /\ decimal[n] \in Text(Plain(S) \cup {"#"})
        /\ <<"#">> \in Text(Plain(S) \cup {"#"})
    <3>1. \A x \in Seq(Plain(S)) : x \in Seq(Plain(S) \cup {"#"})
      OBVIOUS
    <3>2. <<"#">> \in Seq(Plain(S) \cup {"#"})
      OBVIOUS
    <3> QED
      BY <1>1, <2>3, <3>1, <3>2 DEF Text
  <2> QED
    BY <2>2, <2>3, <2>4, CatAssociative
<1> QED
  BY <1>1, <1>2, <1>3 DEF IsOccurrence

LEMMA PlainMore ==
    ASSUME NEW S, Alphabet(S)
    PROVE  /\ "#" \notin Plain(S) /\ "/" \notin Segment(S)
           /\ Segment(S) = Plain(S) \cup {"#"} /\ S = Segment(S) \cup {"/"}
           /\ \A x \in Text(Plain(S)) : x \in Text(Segment(S))
           /\ \A x \in Text(Segment(S)) : x \in Text(S)
           /\ <<"#">> \in Text(Segment(S))
<1>1. /\ "#" \notin Plain(S) /\ "/" \notin Segment(S)
      /\ Segment(S) = Plain(S) \cup {"#"} /\ S = Segment(S) \cup {"/"}
      /\ Plain(S) \subseteq Segment(S) /\ Segment(S) \subseteq S /\ "#" \in Segment(S)
  BY DEF Alphabet, Plain, Segment
<1>2. ASSUME NEW A, NEW B, A \subseteq B, NEW x \in Text(A)
      PROVE  x \in Text(B)
  <2>1. x \in Seq(A)
    BY DEF Text
  <2>2. x \in Seq(B)
    BY <1>2, <2>1
  <2> QED
    BY <2>2 DEF Text
<1>3. <<"#">> \in Text(Segment(S))
  BY <1>1 DEF Text
<1>4. (\A x \in Text(Plain(S)) : x \in Text(Segment(S))) /\ (\A x \in Text(Segment(S)) : x \in Text(S))
  BY <1>1, <1>2
<1> QED
  BY <1>1, <1>3, <1>4

\* A segment tells the node and the occurrence, and holds no "/".
LEMMA RenderTells ==
    ASSUME NEW S, Alphabet(S), NEW a \in Seq(S), NEW b \in Seq(S), NEW o, NEW p,
           IsOccurrence(o), IsOccurrence(p), render(a, o) = render(b, p)
    PROVE  a = b /\ o = p
<1> DEFINE x == escape_segment(a)
           y == escape_segment(b)
           P == Plain(S)
           Q == Segment(S)
           Told(r, e, i) == \/ i = {} /\ r = e
                            \/ \E n \in Nat : /\ i = {n} /\ r = Cat(Cat(e, <<"#">>), decimal[n])
                                              /\ decimal[n] \in Text(P)
<1>1. x \in Text(P) /\ Told(render(a, o), x, o)
  BY RenderReads
<1>2. y \in Text(P) /\ Told(render(b, p), y, p)
  BY RenderReads
<1>3. "#" \notin P /\ Q = P \cup {"#"} /\ P \subseteq Q /\ \A t \in Text(P) : t \in Text(Q)
  BY PlainMore
<1>4. x = y => a = b
  BY EscapeTells
<1> HIDE DEF x, y, P, Q
<1>5. CASE o = {} /\ p = {}
  BY <1>1, <1>2, <1>4, <1>5
<1>6. ASSUME NEW n \in Nat, o = {n}, NEW m \in Nat, p = {m}
      PROVE  a = b /\ o = p
  <2>1. /\ decimal[n] \in Text(Q) /\ decimal[m] \in Text(Q)
        /\ Cat(Cat(x, <<"#">>), decimal[n]) = Cat(Cat(y, <<"#">>), decimal[m])
    BY <1>1, <1>2, <1>3, <1>6
  <2>2. x = y /\ decimal[n] = decimal[m]
    BY <1>1, <1>2, <1>3, <2>1, MarkTells
  <2>3. n = m
    BY <2>2, DecimalTells
  <2> QED
    BY <1>4, <1>6, <2>2, <2>3
<1>7. ASSUME o = {}, NEW m \in Nat, p = {m}
      PROVE  FALSE
  <2>1. decimal[m] \in Text(Q) /\ x = Cat(Cat(y, <<"#">>), decimal[m])
    BY <1>1, <1>2, <1>3, <1>7
  <2> QED
    BY <1>1, <1>2, <1>3, <2>1, MarkIsSeen
<1>8. ASSUME p = {}, NEW n \in Nat, o = {n}
      PROVE  FALSE
  <2>1. decimal[n] \in Text(Q) /\ y = Cat(Cat(x, <<"#">>), decimal[n])
    BY <1>1, <1>2, <1>3, <1>8
  <2> QED
    BY <1>1, <1>2, <1>3, <2>1, MarkIsSeen
<1> QED
  BY <1>5, <1>6, <1>7, <1>8 DEF IsOccurrence

LEMMA RenderIsSegment ==
    ASSUME NEW S, Alphabet(S), NEW a \in Seq(S), NEW o, IsOccurrence(o)
    PROVE  render(a, o) \in Text(Segment(S))
<1> DEFINE x == escape_segment(a)
<1>1. x \in Text(Segment(S)) /\ <<"#">> \in Text(Segment(S))
  BY EscapeIsPlain, PlainMore
<1>2. Cat(x, <<"#">>) \in Text(Segment(S))
  BY <1>1, CatText
<1>3. CASE o = {}
  BY <1>1, <1>3, RenderReads
<1>4. ASSUME NEW n \in Nat, o = {n}
      PROVE  render(a, o) \in Text(Segment(S))
  <2>1. render(a, o) = Cat(Cat(x, <<"#">>), decimal[n]) /\ decimal[n] \in Text(Segment(S))
    <3>1. PICK k \in Nat : /\ o = {k} /\ render(a, o) = Cat(Cat(x, <<"#">>), decimal[k])
                           /\ decimal[k] \in Text(Plain(S))
      <4>1. o # {}
        BY <1>4
      <4> QED
        BY <4>1, RenderReads
    <3>2. k = n
      BY <1>4, <3>1
    <3> QED
      BY <3>1, <3>2, PlainMore
  <2> QED
    BY <1>2, <2>1, CatText
<1> QED
  BY <1>3, <1>4 DEF IsOccurrence

LEMMA AppendTells ==
    ASSUME NEW C, NEW u \in Seq(C), NEW v \in Seq(C), NEW a \in C, NEW b \in C, Append(u, a) = Append(v, b)
    PROVE  u = v /\ a = b
<1> DEFINE x == Append(u, a)
           y == Append(v, b)
<1>1. /\ Len(x) = Len(u) + 1 /\ Len(u) \in Nat
      /\ \A i \in 1..Len(u) : x[i] = u[i]
      /\ x[Len(u) + 1] = a
  OBVIOUS
<1>2. /\ Len(y) = Len(v) + 1 /\ Len(v) \in Nat
      /\ \A i \in 1..Len(v) : y[i] = v[i]
      /\ y[Len(v) + 1] = b
  OBVIOUS
<1>3. x = y
  OBVIOUS
<1> HIDE DEF x, y
<1>4. Len(u) = Len(v) /\ a = b
  BY <1>1, <1>2, <1>3
<1>5. \A i \in 1..Len(u) : u[i] = v[i]
  BY <1>1, <1>2, <1>3, <1>4
<1> QED
  BY <1>4, <1>5, SeqSame

\* A key tells the walk and the node.
LEMMA StepKeyTells ==
    ASSUME NEW S, Alphabet(S), NEW p \in Seq(Text(Segment(S))), NEW q \in Seq(Text(Segment(S))),
           NEW a \in Seq(S), NEW b \in Seq(S), step_key(p, a) = step_key(q, b)
    PROVE  p = q /\ a = b
<1> DEFINE R == Segment(S)
           C == {Cat(t, <<"/">>) : t \in Text(R)}
           W(path) == [i \in DOMAIN path |-> Cat(path[i], <<"/">>)]
           x(id) == Cat(render(id, {}), <<"/">>)
<1>1. "/" \notin R /\ S = R \cup {"/"} /\ \A t \in Text(R) : t \in Text(S)
  BY PlainMore
<1>2. <<"/">> \in Text(S)
  BY <1>1 DEF Text
<1>3. \A id \in Seq(S) : render(id, {}) \in Text(R)
  BY RenderIsSegment DEF IsOccurrence
<1>4. Code(C, S)
  BY <1>1, MarkedCode
<1>5. ASSUME NEW path \in Seq(Text(R))
      PROVE  /\ W(path) \in Seq(C) /\ Len(W(path)) = Len(path)
             /\ \A i \in 1..Len(path) : W(path)[i] = Cat(path[i], <<"/">>)
             /\ W(path) \in Seq(Text(S))
  <2>1. DOMAIN path = 1..Len(path) /\ Len(path) \in Nat /\ \A i \in 1..Len(path) : path[i] \in Text(R)
    OBVIOUS
  <2>2. \A i \in 1..Len(path) : Cat(path[i], <<"/">>) \in C
    BY <2>1
  <2>3. \A i \in 1..Len(path) : Cat(path[i], <<"/">>) \in Text(S)
    BY <1>1, <1>2, <2>1, CatText
  <2> HIDE DEF C
  <2> QED
    BY <2>1, <2>2, <2>3
<1>6. \A id \in Seq(S) : x(id) \in C /\ x(id) \in Text(S) /\ render(id, {}) \in Text(S)
  BY <1>1, <1>2, <1>3, CatText
<1> HIDE DEF C
<1>7. ASSUME NEW path \in Seq(Text(R)), NEW id \in Seq(S)
      PROVE  /\ FlattenSeq(Append(W(path), x(id))) = Cat(step_key(path, id), <<"/">>)
             /\ Append(W(path), x(id)) \in Seq(C)
  <2>1. step_key(path, id) = Cat(FlattenSeq(W(path)), render(id, {}))
    BY DEF step_key, Cat
  <2>2. W(path) \in Seq(Text(S)) /\ x(id) \in Text(S) /\ W(path) \in Seq(C) /\ x(id) \in C
    BY <1>5, <1>6
  <2>3. render(id, {}) \in Text(S) /\ x(id) = Cat(render(id, {}), <<"/">>)
    BY <1>6
  <2> HIDE DEF W, x
  <2>4. /\ FlattenSeq(W(path)) \in Text(S)
        /\ FlattenSeq(Append(W(path), x(id))) = Cat(FlattenSeq(W(path)), x(id))
    BY <2>2, FlattenAppend
  <2>5. Append(W(path), x(id)) \in Seq(C)
    BY <2>2
  <2>6. Cat(FlattenSeq(W(path)), x(id)) = Cat(step_key(path, id), <<"/">>)
    BY <1>2, <2>1, <2>3, <2>4, CatAssociative
  <2> QED
    BY <2>4, <2>5, <2>6
<1> DEFINE u == W(p)
           v == W(q)
<1>8. u \in Seq(C) /\ v \in Seq(C) /\ x(a) \in C /\ x(b) \in C /\ Len(u) = Len(p) /\ Len(v) = Len(q)
  BY <1>5, <1>6
<1>9. Append(u, x(a)) = Append(v, x(b))
  <2>1. /\ FlattenSeq(Append(u, x(a))) = FlattenSeq(Append(v, x(b)))
        /\ Append(u, x(a)) \in Seq(C) /\ Append(v, x(b)) \in Seq(C)
    BY <1>7
  <2> HIDE DEF u, v, x
  <2> QED
    BY <1>4, <2>1, CodeIsRead
<1>10. u = v /\ x(a) = x(b)
  <2> HIDE DEF u, v, x
  <2> QED
    BY <1>8, <1>9, AppendTells
<1>11. Len(p) = Len(q)
  BY <1>8, <1>10
<1>12. ASSUME NEW i \in 1..Len(p)
       PROVE  p[i] = q[i]
  <2>1. Cat(p[i], <<"/">>) = Cat(q[i], <<"/">>)
    <3>1. u[i] = Cat(p[i], <<"/">>) /\ v[i] = Cat(q[i], <<"/">>)
      BY <1>5, <1>11
    <3> HIDE DEF u, v
    <3> QED
      BY <1>10, <3>1
  <2>2. p[i] \in Text(R) /\ q[i] \in Text(R)
    BY <1>11
  <2> QED
    BY <2>1, <2>2, LastTells
<1>13. p = q
  BY <1>11, <1>12, SeqSame
<1>14. render(a, {}) = render(b, {})
  BY <1>3, <1>10, LastTells
<1> QED
  BY <1>13, <1>14, RenderTells DEF IsOccurrence

-----------------------------------------------------------------------------
(* Places *)

Ids == {n.id : n \in UNION {ToSet(g) : g \in Graphs}}
Chars ==
    {"%", "/", "#", "F", "0", "1", "2", "3", "4", "5", "6", "7", "8", "9"} \cup UNION {ToSet(x) : x \in Ids}

Occurrences == {{}} \cup {{n} : n \in Nat}
Places == Nat \X Occurrences
Segments == Text(Segment(Chars))

\* The graphs a position leads through, from the root's.
Leads(gs, r, pos) ==
    /\ \A i \in 1..Len(pos) : gs[i] \in Graphs /\ pos[i][1] \in DOMAIN gs[i]
    /\ gs[1] = <<r>>
    /\ \A i \in 1..Len(pos) - 1 : gs[i + 1] = Workflows[gs[i][pos[i][1]].graph]

\* The node at the i-th place of a position.
There(gs, pos, i) == gs[i][pos[i][1]]

PathAt(gs, pos) == [i \in 1..Len(pos) - 1 |-> render(There(gs, pos, i).id, pos[i][2])]
KeyAt(gs, pos) == step_key(PathAt(gs, pos), There(gs, pos, Len(pos)).id)

IsPlace(pos) == pos \in Seq(Places) /\ pos # <<>> /\ pos[Len(pos)][2] = {}

LEMMA CharsAlphabet == Alphabet(Chars)
BY DEF Alphabet, Chars

\* The ids of the graphs are texts.
LEMMA IdsInChars ==
    ASSUME NEW g \in Graphs, NEW i \in DOMAIN g
    PROVE  g[i].id \in Seq(Chars)
<1>1. g[i].id \in Seq(ToSet(g[i].id))
  BY GraphsAssumption
<1>2. g[i].id \in Ids
  BY DEF Ids, ToSet
<1>3. ToSet(g[i].id) \subseteq Chars
  BY <1>2 DEF Chars
<1> DEFINE x == g[i].id
           A == ToSet(g[i].id)
<1>4. x \in Seq(A) /\ A \subseteq Chars
  BY <1>1, <1>3
<1> HIDE DEF x, A
<1>5. x \in Seq(Chars)
  BY <1>4
<1> QED
  BY <1>5 DEF x

LEMMA PlacesAre ==
    ASSUME NEW pos \in Seq(Places)
    PROVE  /\ Len(pos) \in Nat
           /\ \A i \in 1..Len(pos) : /\ pos[i] = <<pos[i][1], pos[i][2]>>
                                     /\ pos[i][1] \in Nat /\ IsOccurrence(pos[i][2])
<1>1. \A x \in Places : x = <<x[1], x[2]>> /\ x[1] \in Nat /\ IsOccurrence(x[2])
  BY DEF Places, Occurrences, IsOccurrence
<1>2. Len(pos) \in Nat /\ \A i \in 1..Len(pos) : pos[i] \in Places
  OBVIOUS
<1> QED
  BY <1>1, <1>2

\* A position leads through one list of graphs.
LEMMA LeadsOneWay ==
    ASSUME NEW r, NEW pos \in Seq(Places), pos # <<>>, NEW gs, NEW hs, Leads(gs, r, pos), Leads(hs, r, pos)
    PROVE  KeyAt(gs, pos) = KeyAt(hs, pos)
<1> DEFINE n == Len(pos)
           D == {i \in 1..n : gs[i] # hs[i]}
<1>1. n \in Nat \ {0}
  OBVIOUS
<1> HIDE DEF n
<1>2. ASSUME NEW i \in D
      PROVE  \E j \in D : j < i
  <2>1. i \in 1..n /\ gs[i] # hs[i]
    OBVIOUS
  <2>2. i # 1
    BY <2>1 DEF Leads
  <2>3. i - 1 \in 1..n - 1 /\ (i - 1) + 1 = i /\ i - 1 < i /\ i - 1 \in 1..n
    BY <1>1, <2>1, <2>2
  <2>4. /\ gs[i] = Workflows[gs[i - 1][pos[i - 1][1]].graph]
        /\ hs[i] = Workflows[hs[i - 1][pos[i - 1][1]].graph]
    <3>1. /\ gs[(i - 1) + 1] = Workflows[gs[i - 1][pos[i - 1][1]].graph]
          /\ hs[(i - 1) + 1] = Workflows[hs[i - 1][pos[i - 1][1]].graph]
      BY <2>3 DEF Leads, n
    <3> QED
      BY <2>3, <3>1
  <2>5. gs[i - 1] # hs[i - 1]
    BY <2>1, <2>4
  <2> QED
    BY <2>3, <2>5
<1>3. D \subseteq Nat
  BY <1>1
<1> HIDE DEF D
<1>4. D = {}
  BY <1>2, <1>3, NoLeast
<1>5. \A i \in 1..n : gs[i] = hs[i]
  BY <1>4 DEF D
<1>6. PathAt(gs, pos) = PathAt(hs, pos)
  <2>1. \A i \in 1..n - 1 : i \in 1..n
    BY <1>1
  <2> QED
    BY <1>5, <2>1 DEF PathAt, There, n
<1>7. n \in 1..n
  BY <1>1
<1> QED
  BY <1>5, <1>6, <1>7 DEF KeyAt, There, n

\* A key is that of one place.
LEMMA KeyOfOnePlace ==
    ASSUME NEW r, NEW p, NEW q, IsPlace(p), IsPlace(q), NEW gs, NEW hs, Leads(gs, r, p), Leads(hs, r, q),
           KeyAt(gs, p) = KeyAt(hs, q)
    PROVE  p = q
<1>1. ASSUME NEW pos, NEW fs, IsPlace(pos), Leads(fs, r, pos)
      PROVE  /\ PathAt(fs, pos) \in Seq(Segments)
             /\ Len(PathAt(fs, pos)) = Len(pos) - 1
             /\ There(fs, pos, Len(pos)).id \in Seq(Chars)
             /\ \A i \in 1..Len(pos) : There(fs, pos, i).id \in Seq(Chars) /\ IsOccurrence(pos[i][2])
             /\ Len(pos) \in Nat \ {0}
  <2>1. pos \in Seq(Places) /\ Len(pos) \in Nat \ {0} /\ Len(pos) \in 1..Len(pos)
    BY <1>1 DEF IsPlace
  <2>2. \A i \in 1..Len(pos) : There(fs, pos, i).id \in Seq(Chars) /\ IsOccurrence(pos[i][2])
    BY <1>1, <2>1, IdsInChars, PlacesAre DEF Leads, There
  <2>3. \A i \in 1..Len(pos) - 1 : render(There(fs, pos, i).id, pos[i][2]) \in Segments
    <3>1. \A i \in 1..Len(pos) - 1 : i \in 1..Len(pos)
      BY <2>1
    <3> QED
      BY <2>2, <3>1, CharsAlphabet, RenderIsSegment DEF Segments
  <2>4. Len(pos) - 1 \in Nat
    BY <2>1
  <2>5. PathAt(fs, pos) \in Seq(Segments) /\ Len(PathAt(fs, pos)) = Len(pos) - 1
    BY <2>3, <2>4 DEF PathAt
  <2> QED
    BY <2>1, <2>2, <2>5
<1> DEFINE n == Len(p)
<1>2. /\ PathAt(gs, p) = PathAt(hs, q)
      /\ There(gs, p, Len(p)).id = There(hs, q, Len(q)).id
  <2>1. /\ PathAt(gs, p) \in Seq(Text(Segment(Chars))) /\ PathAt(hs, q) \in Seq(Text(Segment(Chars)))
        /\ There(gs, p, Len(p)).id \in Seq(Chars) /\ There(hs, q, Len(q)).id \in Seq(Chars)
    BY <1>1 DEF Segments
  <2> QED
    BY <2>1, CharsAlphabet, StepKeyTells DEF KeyAt
<1>3. n = Len(q) /\ n \in Nat \ {0}
  BY <1>1, <1>2
<1> HIDE DEF n
<1>4. ASSUME NEW i \in 1..n
      PROVE  There(gs, p, i).id = There(hs, q, i).id /\ p[i][2] = q[i][2]
  <2>1. CASE i = n
    BY <1>2, <1>3, <2>1 DEF IsPlace, n
  <2>2. CASE i # n
    <3>1. i \in 1..n - 1
      BY <1>3, <2>2
    <3>2. render(There(gs, p, i).id, p[i][2]) = render(There(hs, q, i).id, q[i][2])
      <4>1. PathAt(gs, p)[i] = PathAt(hs, q)[i]
        BY <1>2
      <4> QED
        BY <1>3, <3>1, <4>1 DEF PathAt, n
    <3>3. /\ There(gs, p, i).id \in Seq(Chars) /\ IsOccurrence(p[i][2])
          /\ There(hs, q, i).id \in Seq(Chars) /\ IsOccurrence(q[i][2])
      BY <1>1, <1>3 DEF n
    <3> QED
      BY <3>2, <3>3, CharsAlphabet, RenderTells
  <2> QED
    BY <2>1, <2>2
<1>5. ASSUME NEW i \in 1..n, gs[i] = hs[i]
      PROVE  p[i] = q[i]
  <2>1. gs[i] \in Graphs /\ p[i][1] \in DOMAIN gs[i] /\ q[i][1] \in DOMAIN gs[i]
    BY <1>3, <1>5 DEF Leads, n
  <2>2. gs[i][p[i][1]].id = gs[i][q[i][1]].id
    BY <1>4, <1>5 DEF There
  <2>3. p[i][1] = q[i][1]
    BY <2>1, <2>2, GraphsAssumption
  <2>4. p[i] = <<p[i][1], p[i][2]>> /\ q[i] = <<q[i][1], q[i][2]>>
    BY <1>3, PlacesAre DEF IsPlace, n
  <2> QED
    BY <1>4, <2>3, <2>4
<1> DEFINE D == {i \in 1..n : gs[i] # hs[i]}
<1>6. ASSUME NEW i \in D
      PROVE  \E j \in D : j < i
  <2>1. i \in 1..n /\ gs[i] # hs[i]
    OBVIOUS
  <2>2. i # 1
    BY <2>1 DEF Leads
  <2>3. i - 1 \in 1..n - 1 /\ (i - 1) + 1 = i /\ i - 1 < i /\ i - 1 \in 1..n
    BY <1>3, <2>1, <2>2
  <2>4. /\ gs[i] = Workflows[gs[i - 1][p[i - 1][1]].graph]
        /\ hs[i] = Workflows[hs[i - 1][q[i - 1][1]].graph]
    <3>1. /\ gs[(i - 1) + 1] = Workflows[gs[i - 1][p[i - 1][1]].graph]
          /\ hs[(i - 1) + 1] = Workflows[hs[i - 1][q[i - 1][1]].graph]
      BY <1>3, <2>3 DEF Leads, n
    <3> QED
      BY <2>3, <3>1
  <2>5. gs[i - 1] # hs[i - 1]
    BY <1>5, <2>1, <2>3, <2>4
  <2> QED
    BY <2>3, <2>5
<1>7. D \subseteq Nat
  BY <1>3
<1> HIDE DEF D
<1>8. D = {}
  BY <1>6, <1>7, NoLeast
<1>9. \A i \in 1..n : p[i] = q[i]
  BY <1>5, <1>8 DEF D
<1> QED
  BY <1>3, <1>9, SeqSame DEF IsPlace, n

-----------------------------------------------------------------------------
(* Where the walks stand *)

Occ(f) == IF NodeAt(f).does = "for_each" THEN {f.item} ELSE {}

\* A walk's path and position are those of the walks around it.
Placed(s, i) ==
    /\ s[i].graph \in Graphs
    /\ s[i].position \in Seq(Places) /\ Len(s[i].position) = i - 1
    /\ s[i].path \in Seq(Segments)
    /\ \A j \in 1..i - 1 :
          /\ s[j].at \in DOMAIN s[j].graph
          /\ s[i].position[j] = <<s[j].at, Occ(s[j])>>
          /\ s[i].path[j] = render(NodeAt(s[j]).id, Occ(s[j]))
    /\ i > 1 => s[i].graph = Workflows[NodeAt(s[i - 1]).graph]

AllPlaced(s) == \A i \in DOMAIN s : Placed(s, i)

\* The walks have gone past a place, at some level, or just come back from it.
PastAt(pos, s, r, i) ==
    /\ i \in DOMAIN s /\ i <= Len(pos)
    /\ \A j \in 1..i - 1 : pos[j] = <<s[j].at, Occ(s[j])>>
    /\ \/ pos[i][1] < s[i].at
       \/ pos[i][1] = s[i].at /\ \E m \in 0..s[i].item - 1 : pos[i][2] = {m}
       \/ r # NoResult /\ i = Len(s) /\ pos[i] = <<s[i].at, Occ(s[i])>>

Behind(pos, s, r) == s # <<>> => \E i \in Nat \ {0} : PastAt(pos, s, r, i)

LEMMA PlacedStays ==
    ASSUME NEW s, NEW t, NEW i \in Nat \ {0}, Placed(s, i), \A j \in 1..i : t[j] = s[j]
    PROVE  Placed(t, i)
<1>1. t[i] = s[i]
  OBVIOUS
<1>2. i > 1 => t[i - 1] = s[i - 1]
  OBVIOUS
<1>3. \A j \in 1..i - 1 : t[j] = s[j]
  OBVIOUS
<1> QED
  BY <1>1, <1>2, <1>3 DEF Placed

LEMMA PlacedPop ==
    ASSUME NEW s, IsSeq(s), s # <<>>, AllPlaced(s)
    PROVE  AllPlaced(Front(s))
<1> DEFINE t == Front(s)
<1>1. /\ Len(s) \in Nat \ {0} /\ DOMAIN s = 1..Len(s)
      /\ DOMAIN t = 1..Len(s) - 1
      /\ \A i \in 1..Len(s) - 1 : t[i] = s[i]
  BY FrontSeq
<1> HIDE DEF t
<1>2. ASSUME NEW i \in DOMAIN t
      PROVE  Placed(t, i)
  <2>1. i \in DOMAIN s /\ i \in Nat \ {0} /\ \A j \in 1..i : t[j] = s[j]
    BY <1>1
  <2>2. Placed(s, i)
    BY <2>1 DEF AllPlaced
  <2> QED
    BY <2>1, <2>2, PlacedStays
<1> QED
  BY <1>2 DEF AllPlaced, t

LEMMA PlacedSwap ==
    ASSUME NEW s, NEW f, IsSeq(s), s # <<>>, AllPlaced(s),
           f.graph = s[Len(s)].graph, f.path = s[Len(s)].path, f.position = s[Len(s)].position
    PROVE  AllPlaced([s EXCEPT ![Len(s)] = f])
<1> DEFINE t == [s EXCEPT ![Len(s)] = f]
           n == Len(s)
<1>1. /\ n \in Nat \ {0} /\ DOMAIN s = 1..n
      /\ DOMAIN t = 1..n
      /\ \A i \in 1..n - 1 : t[i] = s[i]
      /\ t[n] = f
  BY LastSeq
<1>2. f.graph = s[n].graph /\ f.path = s[n].path /\ f.position = s[n].position
  OBVIOUS
<1> HIDE DEF t, n
<1>3. ASSUME NEW i \in 1..n - 1
      PROVE  Placed(t, i)
  <2>1. i \in DOMAIN s /\ i \in Nat \ {0} /\ \A j \in 1..i : t[j] = s[j]
    BY <1>1
  <2>2. Placed(s, i)
    BY <2>1 DEF AllPlaced
  <2> QED
    BY <2>1, <2>2, PlacedStays
<1>4. Placed(t, n)
  <2>1. Placed(s, n)
    BY <1>1 DEF AllPlaced
  <2>2. n > 1 => t[n - 1] = s[n - 1]
    BY <1>1
  <2> QED
    BY <1>1, <1>2, <2>1, <2>2 DEF Placed
<1>5. \A i \in DOMAIN t : i \in 1..n - 1 \/ i = n
  BY <1>1
<1>6. AllPlaced(t)
  BY <1>3, <1>4, <1>5 DEF AllPlaced
<1> QED
  BY <1>6 DEF t, n

\* The walk on top stands at a node of its graph.
LEMMA TopPlaced ==
    ASSUME Sound(stack, root), AllPlaced(stack), stack # <<>>, ~Ended(Top)
    PROVE  /\ Top = stack[Len(stack)] /\ Len(stack) \in Nat \ {0} /\ DOMAIN stack = 1..Len(stack)
           /\ Placed(stack, Len(stack))
           /\ Top.graph \in Graphs /\ Top.at \in DOMAIN Top.graph /\ Top.at \in Nat /\ Top.item \in Nat
           /\ Current.id \in Seq(Chars)
           /\ IsOccurrence(Occ(Top)) /\ <<Top.at, Occ(Top)>> \in Places /\ <<Top.at, {}>> \in Places
<1>1. /\ Top = stack[Len(stack)] /\ Len(stack) \in Nat \ {0} /\ DOMAIN stack = 1..Len(stack)
      /\ InStep(Top, Len(stack))
  BY TopSound
<1>2. Placed(stack, Len(stack))
  BY <1>1 DEF AllPlaced
<1>3. Top.graph \in Graphs
  BY <1>1, <1>2 DEF Placed
<1>4. Top.at \in Nat \ {0} /\ Top.item \in Nat
  BY <1>1 DEF InStep
<1>5. Top.at \in DOMAIN Top.graph
  <2> DEFINE g == Top.graph
  <2>1. g \in Seq(ToSet(g))
    BY <1>3, GraphsAssumption
  <2>2. ~(Top.at > Len(g))
    BY DEF Ended
  <2> HIDE DEF g
  <2>3. Top.at \in DOMAIN g
    BY <1>4, <2>1, <2>2
  <2> QED
    BY <2>3 DEF g
<1>6. Current.id \in Seq(Chars)
  BY <1>3, <1>5, IdsInChars DEF Current, NodeAt
<1>7. Occ(Top) \in Occurrences /\ {} \in Occurrences
  BY <1>4 DEF Occ, Occurrences
<1>8. IsOccurrence(Occ(Top))
  BY <1>4 DEF Occ, IsOccurrence
<1> QED
  BY <1>1, <1>2, <1>3, <1>4, <1>5, <1>6, <1>7, <1>8 DEF Places

\* A child is placed below the node that started it.
LEMMA PlacedPush ==
    ASSUME Sound(stack, root), AllPlaced(stack), stack # <<>>, ~Ended(Top), NEW executors,
           Current.does \in {"subflow", "subgraph", "for_each"}
    PROVE  AllPlaced(Append(stack, Child(Workflows[Current.graph], Occ(Top), executors)))
<1> DEFINE c == Child(Workflows[Current.graph], Occ(Top), executors)
           t == Append(stack, c)
           n == Len(stack)
<1>1. IsSeq(stack)
  BY DEF Sound
<1>2. /\ Top = stack[n] /\ n \in Nat \ {0} /\ DOMAIN stack = 1..n
      /\ Placed(stack, n)
      /\ Top.graph \in Graphs /\ Top.at \in DOMAIN Top.graph
      /\ Current.id \in Seq(Chars)
      /\ IsOccurrence(Occ(Top)) /\ <<Top.at, Occ(Top)>> \in Places
  BY TopPlaced
<1> HIDE DEF c
<1>3. /\ DOMAIN t = 1..n + 1
      /\ \A i \in 1..n : t[i] = stack[i]
      /\ t[n + 1] = c
  BY <1>1, <1>2, AppendSeq
<1> HIDE DEF t, n
<1>4. /\ c.graph = Workflows[Current.graph]
      /\ c.position = Append(Top.position, <<Top.at, Occ(Top)>>)
      /\ c.path = Append(Top.path, render(Current.id, Occ(Top)))
  BY DEF c, Child, Position, descend
<1>5. c.graph \in Graphs
  <2>1. Current.graph \in DOMAIN Workflows
    BY <1>2, GraphsAssumption DEF Current, NodeAt
  <2> QED
    BY <1>4, <2>1 DEF Graphs
<1>6. render(Current.id, Occ(Top)) \in Segments
  BY <1>2, CharsAlphabet, RenderIsSegment DEF Segments
<1>7. /\ Top.position \in Seq(Places) /\ Len(Top.position) = n - 1
      /\ Top.path \in Seq(Segments) /\ Len(Top.path) = n - 1
  BY <1>2, TopSound DEF Placed, InStep, n
<1> DEFINE p == Top.position
           w == Top.path
           x == <<Top.at, Occ(Top)>>
           y == render(Current.id, Occ(Top))
<1>8. /\ p \in Seq(Places) /\ Len(p) = n - 1 /\ x \in Places
      /\ w \in Seq(Segments) /\ Len(w) = n - 1 /\ y \in Segments
      /\ c.position = Append(p, x) /\ c.path = Append(w, y)
  BY <1>2, <1>4, <1>6, <1>7
<1> HIDE DEF p, w, x, y
<1>9. /\ c.position \in Seq(Places) /\ Len(c.position) = n
      /\ c.position[n] = x /\ \A j \in 1..n - 1 : c.position[j] = p[j]
  BY <1>2, <1>8
<1>10. /\ c.path \in Seq(Segments)
       /\ c.path[n] = y /\ \A j \in 1..n - 1 : c.path[j] = w[j]
  BY <1>2, <1>8
<1>11. ASSUME NEW j \in 1..n
       PROVE  /\ t[j].at \in DOMAIN t[j].graph
              /\ c.position[j] = <<t[j].at, Occ(t[j])>>
              /\ c.path[j] = render(NodeAt(t[j]).id, Occ(t[j]))
  <2>1. CASE j = n
    BY <1>2, <1>3, <1>9, <1>10, <2>1 DEF Current, x, y
  <2>2. CASE j # n
    <3>1. j \in 1..n - 1 /\ t[j] = stack[j]
      BY <1>2, <1>3, <2>2
    <3>2. /\ stack[j].at \in DOMAIN stack[j].graph
          /\ stack[n].position[j] = <<stack[j].at, Occ(stack[j])>>
          /\ stack[n].path[j] = render(NodeAt(stack[j]).id, Occ(stack[j]))
      BY <1>2, <3>1 DEF Placed
    <3> QED
      BY <1>2, <1>9, <1>10, <3>1, <3>2 DEF p, w
  <2> QED
    BY <2>1, <2>2
<1>12. Placed(t, n + 1)
  <2>1. (n + 1) - 1 = n /\ n \in 1..n
    BY <1>2
  <2>2. c.graph = Workflows[NodeAt(t[n]).graph]
    BY <1>2, <1>3, <1>4, <2>1 DEF Current
  <2> QED
    BY <1>3, <1>5, <1>9, <1>10, <1>11, <2>1, <2>2 DEF Placed
<1>13. ASSUME NEW i \in 1..n
       PROVE  Placed(t, i)
  <2>1. i \in DOMAIN stack /\ i \in Nat \ {0} /\ \A j \in 1..i : t[j] = stack[j]
    BY <1>2, <1>3
  <2>2. Placed(stack, i)
    BY <2>1 DEF AllPlaced
  <2> QED
    BY <2>1, <2>2, PlacedStays
<1>14. \A i \in DOMAIN t : i \in 1..n \/ i = n + 1
  BY <1>2, <1>3
<1>15. AllPlaced(t)
  BY <1>12, <1>13, <1>14 DEF AllPlaced
<1> QED
  BY <1>15 DEF t, c

\* What a walk is past stays behind when it ends.
LEMMA BehindPop ==
    ASSUME NEW s, IsSeq(s), s # <<>>, NEW pos \in Seq(Places), NEW r, Behind(pos, s, r), NEW o, o # NoResult
    PROVE  Behind(pos, Front(s), o)
<1> DEFINE t == Front(s)
           n == Len(s)
<1>1. /\ n \in Nat \ {0} /\ DOMAIN s = 1..n
      /\ DOMAIN t = 1..n - 1
      /\ \A i \in 1..n - 1 : t[i] = s[i]
      /\ t # <<>> => n > 1 /\ Len(t) = n - 1
  BY FrontSeq
<1>2. SUFFICES ASSUME t # <<>> PROVE \E i \in Nat \ {0} : PastAt(pos, t, o, i)
  BY DEF Behind
<1>3. PICK i \in Nat \ {0} : PastAt(pos, s, r, i)
  BY DEF Behind
<1> HIDE DEF t, n
<1>4. CASE i \in 1..n - 1
  <2>1. i # n /\ i \in DOMAIN t /\ t[i] = s[i] /\ \A j \in 1..i - 1 : t[j] = s[j]
    BY <1>1, <1>4
  <2>2. PastAt(pos, t, o, i)
    BY <1>3, <2>1 DEF PastAt, n
  <2> QED
    BY <2>2
<1>5. CASE i \notin 1..n - 1
  <2>1. i = n
    BY <1>1, <1>3, <1>5 DEF PastAt
  <2>2. n - 1 \in 1..n - 1 /\ Len(t) = n - 1 /\ n - 1 \in Nat \ {0} /\ n - 1 \in 1..i - 1
    BY <1>1, <1>2, <2>1
  <2>3. pos[n - 1] = <<t[n - 1].at, Occ(t[n - 1])>>
    BY <1>1, <1>3, <2>2 DEF PastAt
  <2>4. \A j \in 1..(n - 1) - 1 : pos[j] = <<t[j].at, Occ(t[j])>>
    <3>1. \A j \in 1..(n - 1) - 1 : j \in 1..i - 1 /\ t[j] = s[j]
      BY <1>1, <2>1
    <3> QED
      BY <1>3, <3>1 DEF PastAt
  <2>5. n - 1 <= Len(pos)
    <3>1. Len(pos) \in Nat /\ n <= Len(pos)
      BY <1>3, <2>1 DEF PastAt
    <3> QED
      BY <1>1, <3>1
  <2>6. PastAt(pos, t, o, n - 1)
    BY <1>1, <2>2, <2>3, <2>4, <2>5 DEF PastAt
  <2> QED
    BY <2>2, <2>6
<1> QED
  BY <1>4, <1>5

\* The walk on top goes past the place it is at.
LEMMA BehindOn ==
    ASSUME NEW s, IsSeq(s), s # <<>>, NEW f, NEW pos \in Seq(Places), NEW r, Behind(pos, s, r),
           s[Len(s)].at \in Nat, s[Len(s)].item \in Nat,
           \/ f.at = s[Len(s)].at + 1
           \/ /\ f.at = s[Len(s)].at /\ f.item = s[Len(s)].item + 1
              /\ Occ(s[Len(s)]) = {s[Len(s)].item}
    PROVE  Behind(pos, [s EXCEPT ![Len(s)] = f], NoResult)
<1> DEFINE t == [s EXCEPT ![Len(s)] = f]
           n == Len(s)
<1>1. /\ n \in Nat \ {0} /\ DOMAIN s = 1..n
      /\ DOMAIN t = 1..n /\ t # <<>>
      /\ \A i \in 1..n - 1 : t[i] = s[i]
      /\ t[n] = f
  BY LastSeq
<1>2. /\ s[n].at \in Nat /\ s[n].item \in Nat
      /\ \/ f.at = s[n].at + 1
         \/ /\ f.at = s[n].at /\ f.item = s[n].item + 1
            /\ Occ(s[n]) = {s[n].item}
  OBVIOUS
<1> HIDE DEF t, n
<1>3. PICK i \in Nat \ {0} : PastAt(pos, s, r, i)
  BY DEF Behind
<1>4. i \in 1..n /\ i <= Len(pos) /\ \A j \in 1..i - 1 : t[j] = s[j]
  BY <1>1, <1>3 DEF PastAt
<1>5. CASE i # n
  <2>1. t[i] = s[i] /\ i \in DOMAIN t
    BY <1>1, <1>4, <1>5
  <2> QED
    BY <1>1, <1>3, <1>4, <1>5, <2>1 DEF PastAt, Behind, t, n
<1>6. CASE i = n
  <2>1. i \in 1..Len(pos) /\ pos[i][1] \in Nat /\ pos[i] = <<pos[i][1], pos[i][2]>>
    BY <1>4, PlacesAre
  <2>2. \/ pos[i][1] < s[n].at
        \/ pos[i][1] = s[n].at /\ \E m \in 0..s[n].item - 1 : pos[i][2] = {m}
        \/ pos[i] = <<s[n].at, Occ(s[n])>>
    BY <1>3, <1>6 DEF PastAt
  <2>3. pos[i] = <<s[n].at, Occ(s[n])>> => pos[i][1] = s[n].at /\ pos[i][2] = Occ(s[n])
    BY <2>1
  <2>4. CASE f.at = s[n].at + 1
    <3>1. pos[i][1] < f.at
      BY <1>2, <2>1, <2>2, <2>3, <2>4
    <3>2. PastAt(pos, t, NoResult, i)
      BY <1>1, <1>3, <1>4, <1>6, <3>1 DEF PastAt
    <3> QED
      BY <3>2 DEF Behind, t, n
  <2>5. CASE f.at = s[n].at /\ f.item = s[n].item + 1 /\ Occ(s[n]) = {s[n].item}
    <3>1. \A m \in 0..s[n].item - 1 : m \in 0..f.item - 1
      BY <1>2, <2>5
    <3>2. s[n].item \in 0..f.item - 1
      BY <1>2, <2>5
    <3>3. \/ pos[i][1] < f.at
          \/ pos[i][1] = f.at /\ \E m \in 0..f.item - 1 : pos[i][2] = {m}
      BY <2>2, <2>3, <2>5, <3>1, <3>2
    <3>4. PastAt(pos, t, NoResult, i)
      BY <1>1, <1>3, <1>4, <1>6, <3>3 DEF PastAt
    <3> QED
      BY <3>4 DEF Behind, t, n
  <2> QED
    BY <1>2, <2>4, <2>5
<1> QED
  BY <1>5, <1>6

\* What a walk is past stays behind when it starts another.
LEMMA BehindPush ==
    ASSUME NEW s, IsSeq(s), s # <<>>, NEW c, NEW pos, Behind(pos, s, NoResult)
    PROVE  Behind(pos, Append(s, c), NoResult)
<1> DEFINE t == Append(s, c)
           n == Len(s)
<1>1. /\ n \in Nat /\ DOMAIN s = 1..n
      /\ DOMAIN t = 1..n + 1
      /\ \A i \in 1..n : t[i] = s[i]
  BY AppendSeq
<1> HIDE DEF t, n
<1>2. PICK i \in Nat \ {0} : PastAt(pos, s, NoResult, i)
  BY DEF Behind
<1>3. i \in 1..n /\ i \in 1..n + 1 /\ t[i] = s[i] /\ \A j \in 1..i - 1 : t[j] = s[j]
  BY <1>1, <1>2 DEF PastAt
<1>4. PastAt(pos, t, NoResult, i)
  BY <1>1, <1>2, <1>3 DEF PastAt
<1> QED
  BY <1>4 DEF Behind, t

\* What a leaf sends from is ahead until it sent.
LEMMA TopIsAhead ==
    ASSUME Sound(stack, root), AllPlaced(stack), stack # <<>>, ~Ended(Top)
    PROVE  /\ ~Behind(Position(Top, {}), stack, NoResult)
           /\ IsPlace(Position(Top, {})) /\ Len(Position(Top, {})) = Len(stack)
           /\ \A i \in 1..Len(stack) - 1 : Position(Top, {})[i] = <<stack[i].at, Occ(stack[i])>>
           /\ Position(Top, {})[Len(stack)] = <<Top.at, {}>>
<1> DEFINE n == Len(stack)
           p == Top.position
           x == <<Top.at, {}>>
           q == Append(p, x)
<1>1. /\ Top = stack[n] /\ n \in Nat \ {0} /\ DOMAIN stack = 1..n
      /\ Placed(stack, n) /\ x \in Places /\ Top.at \in Nat
  BY TopPlaced
<1>2. p \in Seq(Places) /\ Len(p) = n - 1 /\ \A i \in 1..n - 1 : p[i] = <<stack[i].at, Occ(stack[i])>>
  BY <1>1 DEF Placed
<1>3. x[2] = {} /\ x[1] = Top.at
  OBVIOUS
<1> HIDE DEF p, x, n
<1>4. /\ q \in Seq(Places) /\ Len(q) = n /\ q[n] = x /\ q # <<>>
      /\ \A i \in 1..n - 1 : q[i] = p[i]
  BY <1>1, <1>2
<1> HIDE DEF q
<1>5. ASSUME NEW i \in Nat \ {0}, PastAt(q, stack, NoResult, i)
      PROVE  FALSE
  <2>1. i \in 1..n
    BY <1>1, <1>5 DEF PastAt
  <2>2. \/ q[i][1] < stack[i].at
        \/ q[i][1] = stack[i].at /\ \E m \in 0..stack[i].item - 1 : q[i][2] = {m}
    BY <1>5 DEF PastAt
  <2>3. stack[i].at \in Nat /\ stack[i].item \in Nat
    BY <1>1, <2>1 DEF Sound, InStep
  <2>4. CASE i = n
    <3>1. q[i][1] = stack[i].at /\ q[i][2] = {}
      BY <1>1, <1>3, <1>4, <2>4
    <3>2. \A m \in 0..stack[i].item - 1 : {} # {m}
      OBVIOUS
    <3> QED
      BY <2>2, <2>3, <3>1, <3>2
  <2>5. CASE i # n
    <3>1. i \in 1..n - 1
      BY <1>1, <2>1, <2>5
    <3>2. q[i] = <<stack[i].at, Occ(stack[i])>>
      BY <1>2, <1>4, <3>1
    <3>3. q[i][1] = stack[i].at /\ q[i][2] = Occ(stack[i])
      BY <3>2
    <3>4. \A m \in 0..stack[i].item - 1 : Occ(stack[i]) # {m}
      BY <2>3 DEF Occ
    <3> QED
      BY <2>2, <2>3, <3>3, <3>4
  <2> QED
    BY <2>4, <2>5
<1>6. IsPlace(q)
  BY <1>3, <1>4 DEF IsPlace
<1>7. Position(Top, {}) = q
  BY DEF Position, q, p, x
<1> QED
  BY <1>2, <1>4, <1>5, <1>6, <1>7 DEF Behind, x, n

\* What a leaf sent from is behind once the walk goes on or ends.
LEMMA SentIsBehind ==
    ASSUME Sound(stack, root), AllPlaced(stack), stack # <<>>, ~Ended(Top)
    PROVE  /\ \A o : o # NoResult => Behind(Position(Top, {}), Front(stack), o)
           /\ \A f : f.at = Top.at + 1 =>
                 Behind(Position(Top, {}), [stack EXCEPT ![Len(stack)] = f], NoResult)
<1> DEFINE n == Len(stack)
           q == Position(Top, {})
<1>1. IsSeq(stack)
  BY DEF Sound
<1>2. Top = stack[n] /\ n \in Nat \ {0} /\ DOMAIN stack = 1..n /\ Top.at \in Nat
  BY TopPlaced
<1>3. /\ Len(q) = n /\ q[n] = <<Top.at, {}>>
      /\ \A i \in 1..n - 1 : q[i] = <<stack[i].at, Occ(stack[i])>>
  BY TopIsAhead
<1> HIDE DEF q
<1>4. ASSUME NEW o, o # NoResult
      PROVE  Behind(q, Front(stack), o)
  <2> DEFINE t == Front(stack)
  <2>1. /\ DOMAIN t = 1..n - 1 /\ Len(t) = n - 1
        /\ \A i \in 1..n - 1 : t[i] = stack[i]
        /\ t # <<>> => n > 1
    BY <1>1, FrontSeq
  <2> HIDE DEF t, n
  <2>2. ASSUME t # <<>>
        PROVE  PastAt(q, t, o, n - 1) /\ n - 1 \in Nat \ {0}
    <3>1. n - 1 \in 1..n - 1 /\ n - 1 \in Nat \ {0} /\ n - 1 <= n
      BY <1>2, <2>1, <2>2
    <3>2. \A j \in 1..(n - 1) - 1 : j \in 1..n - 1
      BY <1>2
    <3> QED
      BY <1>3, <1>4, <2>1, <3>1, <3>2 DEF PastAt
  <2> QED
    BY <2>2 DEF Behind, t
<1>5. ASSUME NEW f, f.at = Top.at + 1
      PROVE  Behind(q, [stack EXCEPT ![n] = f], NoResult)
  <2> DEFINE t == [stack EXCEPT ![n] = f]
  <2>1. DOMAIN t = 1..n /\ (\A i \in 1..n - 1 : t[i] = stack[i]) /\ t[n] = f
    BY <1>1, LastSeq
  <2> HIDE DEF t, n
  <2>2. q[n][1] < t[n].at
    BY <1>2, <1>3, <1>5, <2>1
  <2>3. PastAt(q, t, NoResult, n)
    BY <1>2, <1>3, <2>1, <2>2 DEF PastAt
  <2> QED
    BY <1>2, <2>3 DEF Behind, t
<1> QED
  BY <1>4, <1>5 DEF q

-----------------------------------------------------------------------------
(* What was sent *)

Known(u, r) ==
    /\ IsPlace(u[1])
    /\ \E gs : Leads(gs, r, u[1]) /\ u[2] = KeyAt(gs, u[1])

\* A step of the walks leaves what they are past behind them.
Kept ==
    /\ AllPlaced(stack')
    /\ stack' # <<>> => stack # <<>>
    /\ \A pos \in Seq(Places) : Behind(pos, stack, result) => Behind(pos, stack', result')

\* A key charged for since the last release.
Spent(k) == provider[k].times = 1 + releases

\* Every send is known by its place, no key was charged for twice since the last
\* release, what was is younger than the claim, and the first attempt has gone past
\* the places it was charged at.
Charged ==
    /\ window \in Windows
    /\ AllPlaced(stack)
    /\ \A u \in used : Known(u, root)
    /\ DOMAIN provider = {u[2] : u \in used}
    /\ \A k \in DOMAIN provider :
          /\ provider[k].times \in Nat /\ provider[k].times <= 1 + releases
          /\ provider[k].when \in Nat
          /\ Spent(k) => row.first <= provider[k].when
    /\ stack # <<>> => row.attempt # 0
    /\ row.attempt = 0 => \A k \in DOMAIN provider : ~Spent(k)
    /\ row.attempt = 1 => \A u \in used : Spent(u[2]) => Behind(u[1], stack, result)

\* Two known places have one key exactly if they are one place.
LEMMA KnownKeys ==
    ASSUME NEW r, NEW u, NEW v, Known(u, r), Known(v, r)
    PROVE  u[2] = v[2] <=> u[1] = v[1]
<1>1. PICK gs : Leads(gs, r, u[1]) /\ u[2] = KeyAt(gs, u[1])
  BY DEF Known
<1>2. PICK hs : Leads(hs, r, v[1]) /\ v[2] = KeyAt(hs, v[1])
  BY DEF Known
<1>3. IsPlace(u[1]) /\ IsPlace(v[1])
  BY DEF Known
<1>4. ASSUME u[1] = v[1]
      PROVE  u[2] = v[2]
  BY <1>1, <1>2, <1>3, <1>4, LeadsOneWay DEF IsPlace
<1>5. ASSUME u[2] = v[2]
      PROVE  u[1] = v[1]
  BY <1>1, <1>2, <1>3, <1>5, KeyOfOnePlace
<1> QED
  BY <1>4, <1>5

\* A step that sends nothing keeps what was sent.
LEMMA ChargedStep ==
    ASSUME Charged, Kept, UNCHANGED <<root, row, window, provider, used, releases>>
    PROVE  Charged'
<1>1. \A u \in used : u[1] \in Seq(Places)
  BY DEF Charged, Known, IsPlace
<1>2. row.attempt' = row.attempt /\ \A k : Spent(k)' <=> Spent(k)
  BY DEF Spent
<1> QED
  BY <1>1, <1>2 DEF Charged, Kept

LEMMA KeptEnd ==
    ASSUME Sound(stack, root), AllPlaced(stack), stack # <<>>,
           NEW outcome, outcome # NoResult, EndWith(outcome)
    PROVE  Kept
<1>1. IsSeq(stack) /\ stack' = Front(stack) /\ result' = outcome
  BY DEF Sound, EndWith
<1>2. AllPlaced(stack')
  BY <1>1, PlacedPop
<1>3. ASSUME NEW pos \in Seq(Places), Behind(pos, stack, result)
      PROVE  Behind(pos, stack', result')
  BY <1>1, <1>3, BehindPop
<1> QED
  BY <1>2, <1>3 DEF Kept

LEMMA KeptOn ==
    ASSUME Sound(stack, root), AllPlaced(stack), stack # <<>>, NEW f, Replace(f), result' = NoResult,
           f.graph = Top.graph, f.path = Top.path, f.position = Top.position,
           \/ f.at = Top.at + 1
           \/ f.at = Top.at /\ f.item = Top.item + 1 /\ Current.does = "for_each"
    PROVE  Kept
<1>1. IsSeq(stack) /\ stack' = [stack EXCEPT ![Len(stack)] = f]
  BY DEF Sound, Replace
<1>2. Top = stack[Len(stack)] /\ Top.at \in Nat /\ Top.item \in Nat
  BY TopSound DEF InStep
<1>3. AllPlaced(stack')
  BY <1>1, <1>2, PlacedSwap
<1>4. \/ f.at = stack[Len(stack)].at + 1
      \/ /\ f.at = stack[Len(stack)].at /\ f.item = stack[Len(stack)].item + 1
         /\ Occ(stack[Len(stack)]) = {stack[Len(stack)].item}
  BY <1>2 DEF Occ, Current
<1>5. ASSUME NEW pos \in Seq(Places), Behind(pos, stack, result)
      PROVE  Behind(pos, stack', result')
  BY <1>1, <1>2, <1>4, <1>5, BehindOn
<1> QED
  BY <1>3, <1>5 DEF Kept

LEMMA KeptProceed ==
    ASSUME Sound(stack, root), AllPlaced(stack), stack # <<>>, Replace(Proceed(Top)), result' = NoResult
    PROVE  Kept
<1> DEFINE f == Proceed(Top)
<1>1. InStep(Top, Len(stack))
  BY TopSound
<1>2. f.graph = Top.graph /\ f.path = Top.path /\ f.position = Top.position /\ f.at = Top.at + 1
  BY <1>1 DEF Proceed, InStep, IsWalk
<1> HIDE DEF f
<1>3. Replace(f)
  BY DEF f
<1> QED
  BY <1>2, <1>3, KeptOn

LEMMA KeptEnter ==
    ASSUME Sound(stack, root), AllPlaced(stack), Walking, ~Ended(Top),
           Current.does \in {"subflow", "subgraph", "for_each"},
           NEW occurrence, occurrence = Occ(Top), NEW executors,
           Enter(Workflows[Current.graph], occurrence, executors)
    PROVE  Kept
<1> DEFINE c == Child(Workflows[Current.graph], Occ(Top), executors)
<1>1. IsSeq(stack) /\ stack # <<>> /\ stack' = Append(stack, c) /\ result = NoResult /\ result' = NoResult
  BY DEF Sound, Walking, Enter
<1>2. AllPlaced(stack')
  BY <1>1, PlacedPush
<1> HIDE DEF c
<1>3. ASSUME NEW pos \in Seq(Places), Behind(pos, stack, result)
      PROVE  Behind(pos, stack', result')
  BY <1>1, <1>3, BehindPush
<1> QED
  BY <1>1, <1>2, <1>3 DEF Kept

LEMMA OutcomesAreResults ==
    Succeeds # NoResult /\ Fails # NoResult /\ \A id : Pauses(id) # NoResult
BY DEF Succeeds, Fails, Pauses, NoResult

LEMMA KeptGate ==
    ASSUME Inv, Charged, Gate
    PROVE  Kept
<1>1. Sound(stack, root) /\ AllPlaced(stack) /\ stack # <<>> /\ result = NoResult
  BY DEF Inv, Charged, Gate, Walking
<1>2. CASE Replace(Proceed(Top)) /\ UNCHANGED <<result, heard>>
  BY <1>1, <1>2, KeptProceed
<1>3. CASE EndWith(Pauses(Current.id))
  BY <1>1, <1>3, KeptEnd, OutcomesAreResults
<1> QED
  BY <1>2, <1>3 DEF Gate

LEMMA KeptSubflow ==
    ASSUME Inv, Charged, Subflow
    PROVE  Kept
<1>1. /\ Sound(stack, root) /\ AllPlaced(stack) /\ Walking /\ stack # <<>> /\ ~Ended(Top)
      /\ Current.does = "subflow"
  BY DEF Inv, Charged, Subflow, Walking
<1>2. {} = Occ(Top)
  BY <1>1 DEF Occ, Current
<1>3. CASE Raise
  BY <1>1, <1>3, KeptEnd, OutcomesAreResults DEF Raise
<1>4. CASE Enter(Workflows[Current.graph], {}, Top.executors)
  BY <1>1, <1>2, <1>4, KeptEnter
<1> QED
  BY <1>3, <1>4 DEF Subflow

LEMMA KeptSubgraph ==
    ASSUME Inv, Charged, Subgraph
    PROVE  Kept
<1>1. /\ Sound(stack, root) /\ AllPlaced(stack) /\ Walking /\ stack # <<>> /\ ~Ended(Top)
      /\ Current.does = "subgraph"
  BY DEF Inv, Charged, Subgraph, Walking
<1>2. {} = Occ(Top)
  BY <1>1 DEF Occ, Current
<1>3. CASE Raise
  BY <1>1, <1>3, KeptEnd, OutcomesAreResults DEF Raise
<1>4. CASE Enter(Workflows[Current.graph], {}, "builtin")
  BY <1>1, <1>2, <1>4, KeptEnter
<1> QED
  BY <1>3, <1>4 DEF Subgraph

LEMMA KeptForEach ==
    ASSUME Inv, Charged, ForEach
    PROVE  Kept
<1>1. /\ Sound(stack, root) /\ AllPlaced(stack) /\ Walking /\ stack # <<>> /\ ~Ended(Top)
      /\ Current.does = "for_each" /\ result = NoResult
  BY DEF Inv, Charged, ForEach, Walking
<1>2. {Top.item} = Occ(Top)
  BY <1>1 DEF Occ, Current
<1>3. CASE Raise
  BY <1>1, <1>3, KeptEnd, OutcomesAreResults DEF Raise
<1>4. CASE Enter(Workflows[Current.graph], {Top.item}, Top.executors)
  BY <1>1, <1>2, <1>4, KeptEnter
<1>5. CASE Replace(Proceed(Top)) /\ UNCHANGED <<result, provider, used, fenced, heard>>
  BY <1>1, <1>5, KeptProceed
<1> QED
  BY <1>3, <1>4, <1>5 DEF ForEach

LEMMA KeptFinish ==
    ASSUME Inv, Charged, End
    PROVE  Kept
BY KeptEnd, OutcomesAreResults DEF Inv, Charged, End, Walking

LEMMA KeptReturn ==
    ASSUME Inv, Charged, Return
    PROVE  Kept
<1>1. Sound(stack, root) /\ AllPlaced(stack) /\ stack # <<>> /\ result # NoResult
  BY DEF Inv, Charged, Return
<1>2. CASE SubflowReturns(result)
  BY <1>1, <1>2, KeptEnd, KeptProceed, OutcomesAreResults DEF SubflowReturns
<1>3. CASE SubgraphReturns(result)
  BY <1>1, <1>3, KeptProceed DEF SubgraphReturns
<1>4. CASE ItemReturns(result) /\ Current.does = "for_each"
  <2>1. CASE IsPause(result)
    BY <1>1, <1>4, <2>1, KeptEnd DEF ItemReturns
  <2>2. CASE ~IsPause(result)
    <3> DEFINE f == [Top EXCEPT !.item = @ + 1,
                                !.failures = IF result = Fails THEN @ \cup {Top.item} ELSE @]
    <3>1. Replace(f) /\ result' = NoResult
      BY <1>4, <2>2 DEF ItemReturns
    <3>2. InStep(Top, Len(stack))
      BY <1>1, TopSound
    <3>3. /\ f.graph = Top.graph /\ f.path = Top.path /\ f.position = Top.position
          /\ f.at = Top.at /\ f.item = Top.item + 1
      BY <3>2 DEF InStep, IsWalk
    <3> HIDE DEF f
    <3> QED
      BY <1>1, <1>4, <3>1, <3>3, KeptOn
  <2> QED
    BY <2>1, <2>2
<1> QED
  BY <1>2, <1>3, <1>4 DEF Return

\* The place a leaf sends from has the leaf's key.
LEMMA LeafIsKnown ==
    ASSUME Inv, Charged, stack # <<>>, ~Ended(Top)
    PROVE  Known(<<Position(Top, {}), Key(Top, Current.id)>>, root)
<1> DEFINE n == Len(stack)
           p == Position(Top, {})
           gs == [i \in 1..n |-> stack[i].graph]
<1>1. Sound(stack, root) /\ AllPlaced(stack)
  BY DEF Inv, Charged
<1>2. /\ Top = stack[n] /\ n \in Nat \ {0} /\ DOMAIN stack = 1..n
      /\ Placed(stack, n) /\ Top.at \in DOMAIN Top.graph
  BY <1>1, TopPlaced
<1>3. /\ IsPlace(p) /\ Len(p) = n /\ p[n] = <<Top.at, {}>>
      /\ \A i \in 1..n - 1 : p[i] = <<stack[i].at, Occ(stack[i])>>
  BY <1>1, TopIsAhead
<1>4. Len(Top.path) = n - 1
  BY <1>1, TopSound DEF InStep
<1> HIDE DEF n, p
<1>5. /\ p[n][1] = Top.at
      /\ \A i \in 1..n - 1 : p[i][1] = stack[i].at /\ p[i][2] = Occ(stack[i])
  BY <1>3
<1>6. Leads(gs, root, p)
  <2>1. ASSUME NEW i \in 1..n
        PROVE  gs[i] \in Graphs /\ p[i][1] \in DOMAIN gs[i]
    <3>1. gs[i] = stack[i].graph /\ Placed(stack, i)
      BY <1>1, <1>2 DEF AllPlaced
    <3>2. CASE i = n
      BY <1>2, <1>5, <3>1, <3>2 DEF Placed
    <3>3. CASE i # n
      <4>1. i \in 1..n - 1
        BY <1>2, <3>3
      <4> QED
        BY <1>2, <1>5, <3>1, <4>1 DEF Placed
    <3> QED
      BY <3>2, <3>3
  <2>2. gs[1] = <<root>>
    <3>1. 1 \in 1..n
      BY <1>2
    <3>2. InPlace(stack, root, 1)
      BY <1>1, <1>2, <3>1 DEF Sound
    <3> QED
      BY <3>1, <3>2 DEF InPlace
  <2>3. ASSUME NEW i \in 1..n - 1
        PROVE  gs[i + 1] = Workflows[gs[i][p[i][1]].graph]
    <3>1. i \in 1..n /\ i + 1 \in 1..n /\ (i + 1) - 1 = i /\ i + 1 > 1
      BY <1>2
    <3>2. Placed(stack, i + 1)
      BY <1>1, <1>2, <3>1 DEF AllPlaced
    <3>3. stack[i + 1].graph = Workflows[NodeAt(stack[i]).graph]
      BY <3>1, <3>2 DEF Placed
    <3> QED
      BY <1>5, <3>1, <3>3 DEF NodeAt
  <2> HIDE DEF gs
  <2> QED
    BY <1>3, <2>1, <2>2, <2>3 DEF Leads
<1>7. There(gs, p, n) = Current
  <2>1. n \in 1..n
    BY <1>2
  <2> QED
    BY <1>2, <1>5, <2>1 DEF There, Current, NodeAt
<1>8. PathAt(gs, p) = Top.path
  <2> DEFINE w == Top.path
  <2>1. w \in Seq(Segments) /\ Len(w) = n - 1
    BY <1>2, <1>4 DEF Placed
  <2>2. ASSUME NEW i \in 1..n - 1
        PROVE  w[i] = render(There(gs, p, i).id, p[i][2])
    <3>1. i \in 1..n
      BY <1>2
    <3>2. w[i] = render(NodeAt(stack[i]).id, Occ(stack[i]))
      BY <1>2 DEF Placed
    <3> QED
      BY <1>5, <3>1, <3>2 DEF There, NodeAt
  <2> HIDE DEF w, gs
  <2>3. w = [i \in 1..n - 1 |-> w[i]]
    BY <1>2, <2>1
  <2>4. w = PathAt(gs, p)
    BY <1>3, <2>2, <2>3 DEF PathAt
  <2> QED
    BY <2>4 DEF w
<1> HIDE DEF gs
<1>9. Key(Top, Current.id) = KeyAt(gs, p)
  BY <1>3, <1>7, <1>8 DEF Key, KeyAt
<1> QED
  BY <1>3, <1>6, <1>9 DEF Known, p

\* A leaf that may send has a key not charged for since the last release, or one the
\* provider remembers.
LEMMA SafeIsRemembered ==
    ASSUME Inv, Charged, Walking, ~Ended(Top),
           is_replay_safe(window, row.attempt, now - row.first),
           Key(Top, Current.id) \in DOMAIN provider, Spent(Key(Top, Current.id))
    PROVE  Remembers(Key(Top, Current.id))
<1> DEFINE key == Key(Top, Current.id)
           p == Position(Top, {})
<1>1. stack # <<>> /\ result = NoResult /\ Sound(stack, root) /\ AllPlaced(stack)
  BY DEF Walking, Inv, Charged
<1>2. PICK u \in used : u[2] = key
  BY DEF Charged
<1>3. u[1] = p
  <2>1. Known(u, root) /\ Known(<<p, key>>, root)
    BY <1>1, LeafIsKnown DEF Charged
  <2> QED
    BY <1>2, <2>1, KnownKeys
<1>4. /\ row.attempt \in Nat /\ row.first \in Nat /\ now \in Nat
      /\ provider[key].when \in Nat /\ row.first <= provider[key].when
  <2>1. row.attempt \in 0..MaxAttempts /\ row.first \in 0..now /\ now \in 0..MaxTime
    BY DEF Inv
  <2>2. row.attempt \in Nat /\ row.first \in Nat /\ now \in Nat
    BY <2>1, NestedAssumption
  <2> QED
    BY <2>2 DEF Charged
<1> HIDE DEF key
<1>5. row.attempt > 1
  <2>1. row.attempt # 0
    BY <1>1 DEF Charged
  <2>2. row.attempt # 1
    BY <1>1, <1>2, <1>3, TopIsAhead DEF Charged, key
  <2> QED
    BY <1>4, <2>1, <2>2
<1>6. window = {} \/ \E w \in window : w > 0 /\ now - row.first <= w
  BY <1>4, <1>5 DEF is_replay_safe
<1>7. ASSUME NEW w \in window
      PROVE  now <= provider[key].when + w /\ w > 0
  <2>1. w \in Nat /\ \A m \in window : m = w
    BY NestedAssumption DEF Charged
  <2>2. w > 0 /\ now - row.first <= w
    BY <1>6, <2>1
  <2> QED
    BY <1>4, <2>1, <2>2
<1> QED
  BY <1>7 DEF Remembers, key

\* A send of a key that was not charged for, or of one that is remembered, is
\* charged for once.
LEMMA SendCharges ==
    ASSUME Inv, Charged, NEW key, Send(key),
           key \in DOMAIN provider /\ Spent(key) => Remembers(key)
    PROVE  /\ DOMAIN provider' = DOMAIN provider \cup {key}
           /\ \A k \in DOMAIN provider : k # key => provider'[k] = provider[k]
           /\ \A k \in DOMAIN provider' :
                 /\ provider'[k].times \in Nat /\ provider'[k].times <= 1 + releases
                 /\ provider'[k].when \in Nat
                 /\ provider'[k].times = 1 + releases => row.first <= provider'[k].when
<1>1. row.first \in Nat /\ now \in Nat /\ row.first <= now
  <2>1. row.first \in 0..now /\ now \in 0..MaxTime
    BY DEF Inv
  <2> QED
    BY <2>1, NestedAssumption
<1>2. CASE Remembers(key)
  <2>1. provider' = provider /\ key \in DOMAIN provider
    BY <1>2 DEF Send, Remembers
  <2> QED
    BY <2>1 DEF Charged, Spent
<1>3. CASE ~Remembers(key)
  <2> DEFINE before == IF key \in DOMAIN provider THEN provider[key].times ELSE 0
  <2>1. before \in Nat /\ before <= releases
    <3>1. releases \in Nat
      BY NestedAssumption DEF Inv
    <3>2. CASE key \in DOMAIN provider
      <4>1. provider[key].times \in Nat /\ provider[key].times <= 1 + releases
        BY <3>2 DEF Charged
      <4>2. provider[key].times # 1 + releases
        BY <1>3, <3>2 DEF Spent
      <4> QED
        BY <3>1, <3>2, <4>1, <4>2
    <3> QED
      BY <3>1, <3>2
  <2>2. provider' = [k \in DOMAIN provider \cup {key} |->
                       IF k # key THEN provider[k]
                       ELSE [when  |-> now,
                             times |-> (IF k \in DOMAIN provider THEN provider[k].times ELSE 0) + 1]]
    BY <1>3 DEF Send
  <2>3. DOMAIN provider' = DOMAIN provider \cup {key}
    BY <2>2
  <2>4. provider'[key] = [when |-> now, times |-> before + 1]
    BY <2>2
  <2>5. \A k \in DOMAIN provider : k # key => provider'[k] = provider[k]
    BY <2>2
  <2>6. provider'[key].times = before + 1 /\ provider'[key].when = now
    BY <2>4
  <2> HIDE DEF before
  <2>7. before + 1 \in Nat /\ before + 1 <= 1 + releases
    BY <2>1, NestedAssumption DEF Inv
  <2>8. ASSUME NEW k \in DOMAIN provider'
        PROVE  /\ provider'[k].times \in Nat /\ provider'[k].times <= 1 + releases
               /\ provider'[k].when \in Nat
               /\ provider'[k].times = 1 + releases => row.first <= provider'[k].when
    <3>1. CASE k = key
      BY <1>1, <2>6, <2>7, <3>1
    <3>2. CASE k # key
      <4>1. k \in DOMAIN provider /\ provider'[k] = provider[k]
        BY <2>3, <2>5, <3>2
      <4> QED
        BY <4>1 DEF Charged, Spent
    <3> QED
      BY <3>1, <3>2
  <2> QED
    BY <2>3, <2>5, <2>8
<1> QED
  BY <1>2, <1>3

LEMMA ChargedLeaf ==
    ASSUME Inv, Charged, Leaf
    PROVE  Charged'
<1> DEFINE key == Key(Top, Current.id)
           p == Position(Top, {})
<1>1. /\ Walking /\ stack # <<>> /\ result = NoResult /\ ~Ended(Top)
      /\ Sound(stack, root) /\ AllPlaced(stack) /\ UNCHANGED <<root, row, window, releases>>
  BY DEF Leaf, Walking, Inv, Charged
<1>2. Current.id \notin Top.bindings
  BY <1>1, NoFence
<1>3. CASE Raise
  BY <1>1, <1>3, KeptEnd, OutcomesAreResults, ChargedStep DEF Raise
<1>4. CASE /\ is_replay_safe(window, row.attempt, now - row.first)
           /\ Send(key) /\ used' = used \cup {<<p, key>>}
           /\ \/ Replace(Proceed(Top)) /\ UNCHANGED result
              \/ EndWith(Fails)
  <2>1. Kept
    BY <1>1, <1>4, KeptProceed, KeptEnd, OutcomesAreResults
  <2>2. Known(<<p, key>>, root)
    BY <1>1, LeafIsKnown
  <2>3. key \in DOMAIN provider /\ Spent(key) => Remembers(key)
    BY <1>1, <1>4, SafeIsRemembered
  <2>4. Behind(p, stack', result')
    <3>1. CASE EndWith(Fails)
      BY <1>1, <3>1, SentIsBehind, OutcomesAreResults DEF EndWith
    <3>2. CASE Replace(Proceed(Top)) /\ UNCHANGED result
      <4>1. Proceed(Top).at = Top.at + 1
        BY <1>1, TopSound DEF Proceed, InStep, IsWalk
      <4> QED
        BY <1>1, <3>2, <4>1, SentIsBehind DEF Replace
    <3> QED
      BY <1>4, <3>1, <3>2
  <2> HIDE DEF key, p
  <2>5. /\ DOMAIN provider' = DOMAIN provider \cup {key}
        /\ \A k \in DOMAIN provider : k # key => provider'[k] = provider[k]
        /\ \A k \in DOMAIN provider' :
              /\ provider'[k].times \in Nat /\ provider'[k].times <= 1 + releases
              /\ provider'[k].when \in Nat
              /\ provider'[k].times = 1 + releases => row.first <= provider'[k].when
    BY <1>4, <2>3, SendCharges
  <2>6. \A u \in used : u[1] \in Seq(Places) /\ Known(u, root)
    BY DEF Charged, Known, IsPlace
  <2>7. DOMAIN provider' = {u[2] : u \in used'}
    <3>1. <<p, key>>[2] = key /\ <<p, key>> \in used'
      BY <1>4
    <3>2. DOMAIN provider = {u[2] : u \in used}
      BY DEF Charged
    <3>3. ASSUME NEW k \in DOMAIN provider'
          PROVE  \E u \in used' : u[2] = k
      <4>1. CASE k \in DOMAIN provider
        BY <1>4, <3>2, <4>1
      <4>2. CASE k = key
        BY <3>1, <4>2
      <4> QED
        BY <2>5, <4>1, <4>2
    <3>4. ASSUME NEW u \in used'
          PROVE  u[2] \in DOMAIN provider'
      <4>1. CASE u \in used
        BY <2>5, <3>2, <4>1
      <4>2. CASE u = <<p, key>>
        BY <2>5, <3>1, <4>2
      <4> QED
        BY <1>4, <4>1, <4>2
    <3> QED
      BY <3>3, <3>4
  <2>8. \A u \in used' : Known(u, root)
    BY <1>4, <2>2, <2>6
  <2>9. ASSUME row.attempt = 1, NEW u \in used', provider'[u[2]].times = 1 + releases
        PROVE  Behind(u[1], stack', result')
    <3>1. Known(u, root) /\ (u[2] = key => u[1] = p)
      <4>1. Known(u, root) /\ Known(<<p, key>>, root)
        BY <2>2, <2>8
      <4> QED
        BY <4>1, KnownKeys
    <3>2. CASE u[2] = key
      BY <2>4, <3>1, <3>2
    <3>3. CASE u[2] # key
      <4>1. u \in used
        BY <1>4, <3>3
      <4>2. u[2] \in DOMAIN provider
        BY <4>1 DEF Charged
      <4>3. Spent(u[2])
        BY <2>5, <2>9, <3>3, <4>2 DEF Spent
      <4> QED
        BY <2>1, <2>6, <2>9, <4>1, <4>3 DEF Charged, Kept
    <3> QED
      BY <3>2, <3>3
  <2>10. row.attempt # 0
    BY <1>1 DEF Charged
  <2> QED
    BY <1>1, <2>1, <2>5, <2>7, <2>8, <2>9, <2>10 DEF Charged, Kept, Spent
<1> QED
  BY <1>2, <1>3, <1>4 DEF Leaf

LEMMA ChargedAttempt ==
    ASSUME Inv, Charged, Attempt
    PROVE  Charged'
<1>1. /\ stack = <<>> /\ row' = Claimed(row)
      /\ UNCHANGED <<root, result, window, provider, used, releases>>
  BY DEF Attempt
<1>2. row.attempt \in Nat /\ row'.attempt = row.attempt + 1
  <2>1. row.attempt \in 0..MaxAttempts
    BY DEF Inv
  <2> QED
    BY <1>1, <2>1, NestedAssumption DEF Claimed
<1>3. row.attempt # 0 => row'.first = row.first
  BY <1>1 DEF Claimed
<1>4. row.attempt = 0 => \A k \in DOMAIN provider : ~Spent(k)
  BY DEF Charged
<1>5. AllPlaced(stack')
  <2> DEFINE f == [graph |-> <<root>>, at |-> 1, item |-> 0, failures |-> {}, path |-> <<>>, depth |-> 0,
                   executors |-> "host", bindings |-> Siblings, position |-> <<>>]
  <2>1. stack' = <<f>>
    BY DEF Attempt
  <2>2. f.graph = <<root>> /\ f.position = <<>> /\ f.path = <<>>
    OBVIOUS
  <2>3. <<root>> \in Graphs
    BY DEF Inv, Graphs
  <2> HIDE DEF f
  <2>4. DOMAIN stack' = {1} /\ stack'[1] = f
    <3> DEFINE s == <<f>>
    <3>1. s \in Seq({f}) /\ Len(s) = 1 /\ s[1] = f
      OBVIOUS
    <3> HIDE DEF s
    <3>2. DOMAIN s = {1}
      BY <3>1
    <3> QED
      BY <2>1, <3>1, <3>2 DEF s
  <2>5. <<>> \in Seq(Places) /\ Len(<<>>) = 0 /\ <<>> \in Seq(Segments)
    OBVIOUS
  <2>6. Placed(stack', 1)
    <3>1. /\ stack'[1].graph \in Graphs
          /\ stack'[1].position \in Seq(Places) /\ Len(stack'[1].position) = 1 - 1
          /\ stack'[1].path \in Seq(Segments)
      <4>1. /\ stack'[1].graph = <<root>> /\ stack'[1].position = <<>> /\ stack'[1].path = <<>>
        BY <2>2, <2>4
      <4>2. Len(<<>>) = 1 - 1
        OBVIOUS
      <4>3. Len(stack'[1].position) = 1 - 1
        BY <4>1, <4>2
      <4> QED
        BY <2>3, <2>5, <4>1, <4>3
    <3>2. 1..1 - 1 = {} /\ ~(1 > 1)
      OBVIOUS
    <3> QED
      BY <3>1, <3>2 DEF Placed
  <2> QED
    BY <2>4, <2>6 DEF AllPlaced
<1>6. row'.attempt # 0 /\ (row'.attempt = 1 => \A u \in used : ~Spent(u[2]))
  BY <1>2, <1>4 DEF Charged
<1>7. \A k \in DOMAIN provider : Spent(k) => row'.first <= provider[k].when
  BY <1>3, <1>4 DEF Charged
<1> QED
  BY <1>1, <1>5, <1>6, <1>7 DEF Charged, Spent

LEMMA ChargedCrash ==
    ASSUME Inv, Charged, Crash
    PROVE  Charged'
<1>1. stack' = <<>> /\ UNCHANGED <<root, row, window, provider, used, releases>>
  BY DEF Crash
<1>2. AllPlaced(stack')
  BY <1>1 DEF AllPlaced
<1>3. Kept
  BY <1>1, <1>2 DEF Kept, Behind
<1> QED
  BY <1>1, <1>3, ChargedStep

LEMMA ChargedSettle ==
    ASSUME Inv, Charged, Settle
    PROVE  Charged'
<1>1. /\ stack = <<>> /\ row' = [row EXCEPT !.status = Verdict]
      /\ UNCHANGED <<root, stack, window, provider, used, releases>>
  BY DEF Settle
<1>2. row'.attempt = row.attempt /\ row'.first = row.first
  BY <1>1 DEF Inv
<1> QED
  BY <1>1, <1>2 DEF Charged, Spent, Behind

\* Whatever was charged for was so before the release.
LEMMA ChargedRelease ==
    ASSUME Inv, Charged, Release
    PROVE  Charged'
<1>1. /\ stack = <<>> /\ UNCHANGED <<root, stack, result, window, provider, used>>
      /\ row' = NoClaim /\ releases' = releases + 1
  BY DEF Release
<1>2. releases \in Nat
  BY NestedAssumption DEF Inv
<1>3. \A k \in DOMAIN provider :
         /\ provider[k].times \in Nat /\ provider[k].times <= 1 + releases' /\ provider[k].when \in Nat
         /\ provider[k].times # 1 + releases'
  BY <1>1, <1>2 DEF Charged
<1>4. row'.attempt = 0
  BY <1>1 DEF NoClaim
<1> QED
  BY <1>1, <1>3, <1>4 DEF Charged, Spent

LEMMA ChargedStutter ==
    ASSUME Charged, UNCHANGED <<root, row, stack, result, window, provider, used, releases>>
    PROVE  Charged'
BY DEF Charged, Spent

LEMMA ChargedWalk ==
    ASSUME Inv, Charged, Gate \/ Subflow \/ Subgraph \/ ForEach \/ End \/ Return
    PROVE  Charged'
<1>1. Kept
  BY KeptGate, KeptSubflow, KeptSubgraph, KeptForEach, KeptFinish, KeptReturn
<1>2. UNCHANGED <<root, row, window, provider, used, releases>>
  BY DEF Gate, Subflow, Subgraph, ForEach, End, Return, Raise, Enter
<1> QED
  BY <1>1, <1>2, ChargedStep

LEMMA ChargedNext ==
    ASSUME Inv, Charged, [Next]_vars
    PROVE  Charged'
<1>1. CASE Walk
  BY <1>1, ChargedLeaf, ChargedWalk, ChargedSettle DEF Walk
<1>2. CASE (\E id \in GateIds : Answer(id)) \/ Tick
  BY <1>2, ChargedStutter DEF Answer, Tick
<1>3. CASE UNCHANGED vars
  BY <1>3, ChargedStutter DEF vars
<1> QED
  BY <1>1, <1>2, <1>3, ChargedAttempt, ChargedCrash, ChargedRelease DEF Next

LEMMA ChargedInit ==
    ASSUME Init
    PROVE  Charged
<1>1. AllPlaced(stack)
  BY DEF Init, AllPlaced
<1>2. DOMAIN provider = {}
  BY DEF Init
<1> QED
  BY <1>1, <1>2 DEF Init, Charged

-----------------------------------------------------------------------------
(* Theorems *)

\* A child is a walk of its own, however deep the graphs go: one level further down
\* by every count and within its subflow's limit, on the registry of its place, met
\* by no fence of the replay, and its pause has nothing above it that would hold it
\* (Subflow, Subgraph and for_each of nodes/structural.py and nodes/logic.py).
THEOREM NestingHolds == Spec => []NestingIsSound
<1>1. Init => Inv
  BY InitSound
<1>2. Inv /\ [Next]_vars => Inv'
  BY StepInv
<1>3. Inv => NestingIsSound
  BY InvImplies
<1> QED
  BY <1>1, <1>2, <1>3, PTL DEF Spec

\* "A PAUSE IS NOT A FAILURE": once a gate asked somebody, every walk that ends in
\* that attempt ends as that pause (pause.py and the returns of structural nodes).
THEOREM PausesTravel == Spec => []PauseTravelsUp
<1>1. NestingIsSound => PauseTravelsUp
  BY DEF NestingIsSound, PauseIsOnItsWay, PauseTravelsUp
<1> QED
  BY <1>1, NestingHolds, PTL

\* "Stable across retries of that execution, distinct from every other execution of
\* the same node", whatever the graphs, the ids and the counts: two sends of a run
\* have one key exactly if they are one place in one invocation
\* (RunIdentity.step_key, RunIdentity.descend and escape_segment of identity.py).
THEOREM KeysHold == Spec => []KeysTellStepsApart
<1>1. Init => Inv /\ Charged
  BY InitSound, ChargedInit
<1>2. (Inv /\ Charged) /\ [Next]_vars => (Inv /\ Charged)'
  BY StepInv, ChargedNext
<1>3. Inv /\ Charged => KeysTellStepsApart
  BY KnownKeys DEF Charged, KeysTellStepsApart
<1> QED
  BY <1>1, <1>2, <1>3, PTL DEF Spec

\* A leaf that asks is_replay_safe before it sends has no key charged for twice by a
\* provider that keeps its window, through retries, pauses, crashes and nesting, as
\* long as the host keeps the claim: every release of it, which sets attempts and
\* clock back, may cost one charge more (RunIdentity.is_replay_safe, the attempt
\* counted by the claim, InMemoryClaimStore.release).
THEOREM NobodyIsChargedTwice == Spec => []ChargedOnce
<1>1. Init => Inv /\ Charged
  BY InitSound, ChargedInit
<1>2. (Inv /\ Charged) /\ [Next]_vars => (Inv /\ Charged)'
  BY StepInv, ChargedNext
<1>3. Inv /\ Charged => ChargedOnce
  BY DEF Charged, ChargedOnce
<1> QED
  BY <1>1, <1>2, <1>3, PTL DEF Spec
=============================================================================
