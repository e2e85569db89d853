--------------------------- MODULE TerminalsProofs ---------------------------
(***************************************************************************)
(* Theorems about Terminals, for all plans, lanes, hosts and processes,    *)
(* however what the processes print is cut into chunks.  First the lemmas  *)
(* about output and transcripts, then the three invariants.                *)
(***************************************************************************)
EXTENDS Terminals, TLAPS, SequenceTheorems, NaturalsInduction, WellFoundedInduction

-----------------------------------------------------------------------------
(* What Strip computes *)

\* Concatenation is associative.
LEMMA Associative ==
    \A x, y, z \in Seq(Character) : (x \o y) \o z = x \o (y \o z)
BY ConcatAssociative

\* A non-empty set of numbers has a least one.
LEMMA Least ==
    ASSUME NEW T \in SUBSET Nat, T # {}
    PROVE  \E k \in T : \A m \in T : k <= m
<1>1. \E k \in T : \A m \in T : ~(<<m, k>> \in OpToRel(<, Nat))
    BY NatLessThanWellFounded, WFMin
<1>2. \A k, m \in Nat : ~(<<m, k>> \in OpToRel(<, Nat)) => k <= m
    BY DEF OpToRel
<1> QED
    BY <1>1, <1>2

\* Min returns it.
LEMMA MinIsLeast ==
    ASSUME NEW T \in SUBSET Nat, T # {}
    PROVE  Min(T) \in T /\ \A m \in T : Min(T) <= m
BY Least DEF Min

\* An escape sequence ends behind its first character.
LEMMA EscapesEndInside ==
    ASSUME NEW s \in Seq(Character), NEW i \in 1..Len(s)
    PROVE  EscapeEnd(s, i) = 0 \/ EscapeEnd(s, i) \in i + 1..Len(s)
<1> DEFINE ends == <<CsiEnds(s, i), OscEnds(s, i), TwoEnds(s, i)>>
           matching == {a \in 1..3 : ends[a] # {}}
<1>1. \A a \in 1..3 : ends[a] \subseteq i + 1..Len(s)
    <2>1. Len(s) \in Nat /\ DOMAIN s = 1..Len(s)
        OBVIOUS
    <2>2. CsiEnds(s, i) \subseteq i + 1..Len(s)
        BY <2>1 DEF CsiEnds
    <2>3. OscEnds(s, i) \subseteq i + 1..Len(s)
        BY <2>1 DEF OscEnds
    <2>4. TwoEnds(s, i) \subseteq i + 1..Len(s)
        BY <2>1 DEF TwoEnds
    <2> QED
        BY <2>2, <2>3, <2>4
<1> HIDE DEF ends
<1>4. matching \in SUBSET Nat /\ \A a \in matching : a \in 1..3 /\ ends[a] # {}
    OBVIOUS
<1>5. EscapeEnd(s, i) = IF s[i] # ESC \/ matching = {} THEN 0 ELSE Min(ends[Min(matching)])
    BY DEF EscapeEnd, ends
<1> HIDE DEF matching
<1>2. CASE matching # {} /\ s[i] = ESC
    <2> DEFINE a == Min(matching)
    <2>1. a \in matching
        BY <1>2, <1>4, MinIsLeast
    <2> HIDE DEF a
    <2>2. ends[a] # {} /\ ends[a] \subseteq i + 1..Len(s)
        BY <1>1, <1>4, <2>1
    <2>3. ends[a] \in SUBSET Nat
        <3>1. i + 1..Len(s) \subseteq Nat
            OBVIOUS
        <3> QED
            BY <2>2, <3>1
    <2>4. Min(ends[a]) \in ends[a]
        BY <2>2, <2>3, MinIsLeast
    <2>5. EscapeEnd(s, i) = Min(ends[a])
        BY <1>2, <1>5 DEF a
    <2> QED
        BY <2>2, <2>4, <2>5
<1>3. CASE ~(matching # {} /\ s[i] = ESC)
    BY <1>3, <1>5
<1> QED
    BY <1>2, <1>3

\* f[i] is what is left of s from its i-th character on.
Leaves(s, f) ==
    /\ f \in [1..Len(s) + 1 -> Seq(Character)]
    /\ f[Len(s) + 1] = <<>>
    /\ \A i \in 1..Len(s) : EscapeEnd(s, i) = 0 => f[i] = <<s[i]>> \o f[i + 1]
    /\ \A i \in 1..Len(s) : EscapeEnd(s, i) # 0 => f[i] = f[EscapeEnd(s, i) + 1]

\* Strip computes what its recursion says.
LEMMA StripSolves ==
    ASSUME NEW s \in Seq(Character)
    PROVE  \E f : Leaves(s, f) /\ Strip(s) = f[1]
<1> DEFINE n == Len(s)
           Rule(f, i) == IF i > n THEN <<>>
                         ELSE IF EscapeEnd(s, i) = 0 THEN <<s[i]>> \o f[i + 1]
                         ELSE f[EscapeEnd(s, i) + 1]
           from == CHOOSE f : f = [i \in 1..n + 1 |-> Rule(f, i)]
           Upto(f, k) == \A i \in n + 1 - k..n + 1 : f[i] = Rule(f, i)
           T == {k \in 0..n : \A f \in [n + 1 - k..n + 1 -> Seq(Character)] : ~Upto(f, k)}
<1>1. n \in Nat /\ \A i \in 1..n : s[i] \in Character
    OBVIOUS
<1>2. Strip(s) = from[1]
    BY DEF Strip
<1>3. \A i \in 1..n : EscapeEnd(s, i) = 0 \/ EscapeEnd(s, i) \in i + 1..n
    BY EscapesEndInside
<1> HIDE DEF n, from
<1>4. \A i \in 1..n + 1 : \A f :
          (\A j \in i + 1..n + 1 : f[j] \in Seq(Character)) => Rule(f, i) \in Seq(Character)
    <2> SUFFICES ASSUME NEW i \in 1..n + 1, NEW f, \A j \in i + 1..n + 1 : f[j] \in Seq(Character)
                 PROVE  Rule(f, i) \in Seq(Character)
        OBVIOUS
    <2>1. CASE i > n
        BY <2>1
    <2>2. CASE ~(i > n)
        <3>1. i \in 1..n /\ i + 1 \in i + 1..n + 1
            BY <1>1, <2>2
        <3>2. CASE EscapeEnd(s, i) = 0
            <4>1. <<s[i]>> \in Seq(Character) /\ f[i + 1] \in Seq(Character)
                BY <1>1, <3>1
            <4> QED
                BY <2>2, <3>2, <4>1, ConcatProperties
        <3>3. CASE EscapeEnd(s, i) # 0
            <4>1. EscapeEnd(s, i) + 1 \in i + 1..n + 1
                BY <1>1, <1>3, <3>1, <3>3
            <4> QED
                BY <2>2, <3>3, <4>1
        <3> QED
            BY <3>2, <3>3
    <2> QED
        BY <2>1, <2>2
<1>5. \A i \in 1..n + 1 : \A f, g : (\A j \in i + 1..n + 1 : f[j] = g[j]) => Rule(f, i) = Rule(g, i)
    <2> SUFFICES ASSUME NEW i \in 1..n + 1, NEW f, NEW g, \A j \in i + 1..n + 1 : f[j] = g[j]
                 PROVE  Rule(f, i) = Rule(g, i)
        OBVIOUS
    <2>1. ~(i > n) => i \in 1..n /\ i + 1 \in i + 1..n + 1
        BY <1>1
    <2>2. ~(i > n) /\ EscapeEnd(s, i) # 0 => EscapeEnd(s, i) + 1 \in i + 1..n + 1
        BY <1>1, <1>3, <2>1
    <2> QED
        BY <2>1, <2>2
<1> HIDE DEF Rule
<1>6. ASSUME NEW k \in T, \A m \in T : k <= m
      PROVE  FALSE
    <2>0. k \in 0..n /\ k \in Nat /\ \A f \in [n + 1 - k..n + 1 -> Seq(Character)] : ~Upto(f, k)
        BY <1>1
    <2> DEFINE c == n + 1 - k
    <2>1. c \in 1..n + 1
        BY <1>1, <2>0
    <2>2. \E f \in [c + 1..n + 1 -> Seq(Character)] : \A i \in c + 1..n + 1 : f[i] = Rule(f, i)
        <3>1. CASE k = 0
            <4>1. c + 1..n + 1 = {}
                BY <1>1, <3>1
            <4> DEFINE e == [i \in {} |-> <<>>]
            <4>2. e \in [{} -> Seq(Character)] /\ \A i \in {} : e[i] = Rule(e, i)
                OBVIOUS
            <4> QED
                BY <4>1, <4>2
        <3>2. CASE k # 0
            <4>1. k - 1 \in 0..n /\ ~(k <= k - 1) /\ n + 1 - (k - 1) = c + 1
                BY <1>1, <2>0, <3>2
            <4>2. k - 1 \notin T
                <5> HIDE DEF T
                <5> QED
                    BY <1>6, <4>1
            <4> QED
                BY <4>1, <4>2
        <3> QED
            BY <3>1, <3>2
    <2>3. PICK f \in [c + 1..n + 1 -> Seq(Character)] : \A i \in c + 1..n + 1 : f[i] = Rule(f, i)
        BY <2>2
    <2> DEFINE h == [i \in c..n + 1 |-> IF i = c THEN Rule(f, c) ELSE f[i]]
    <2> HIDE DEF c
    <2>4. Rule(f, c) \in Seq(Character)
        BY <1>4, <2>1, <2>3
    <2>5. \A i \in c..n + 1 : i = c \/ i \in c + 1..n + 1
        BY <1>1, <2>1
    <2>6. \A i \in c + 1..n + 1 : i \in c..n + 1 /\ i # c
        BY <1>1, <2>1
    <2>7. c \in c..n + 1
        BY <1>1, <2>1
    <2>8. h \in [c..n + 1 -> Seq(Character)] /\ h[c] = Rule(f, c) /\ \A i \in c + 1..n + 1 : h[i] = f[i]
        BY <2>3, <2>4, <2>5, <2>6, <2>7
    <2> HIDE DEF h
    <2>9. ASSUME NEW i \in c..n + 1
          PROVE  h[i] = Rule(h, i)
        <3>1. \A j \in i + 1..n + 1 : j \in c + 1..n + 1
            BY <1>1, <2>1
        <3>2. i \in 1..n + 1
            BY <1>1, <2>1
        <3>3. Rule(h, i) = Rule(f, i)
            BY <1>5, <2>8, <3>1, <3>2
        <3> QED
            BY <2>3, <2>5, <2>8, <3>3
    <2> QED
        BY <2>0, <2>8, <2>9 DEF c
<1>7. T = {}
    <2>1. T \in SUBSET Nat
        BY <1>1
    <2> HIDE DEF T
    <2> QED
        BY <1>6, <2>1, Least
<1>8. PICK g : g = [i \in 1..n + 1 |-> Rule(g, i)]
    <2>1. n \in 0..n /\ n + 1 - n = 1
        BY <1>1
    <2>2. PICK g \in [1..n + 1 -> Seq(Character)] : \A i \in 1..n + 1 : g[i] = Rule(g, i)
        <3>1. n \notin T
            <4> HIDE DEF T
            <4> QED
                BY <1>7
        <3> QED
            BY <2>1, <3>1
    <2>3. g = [i \in 1..n + 1 |-> Rule(g, i)]
        BY <2>2
    <2> QED
        BY <2>3
<1>9. from = [i \in 1..n + 1 |-> Rule(from, i)]
    BY <1>8 DEF from
<1>10. \A i \in 1..n + 1 : from[i] = Rule(from, i)
    BY <1>9
<1>11. \A k \in 0..n : from[n + 1 - k] \in Seq(Character)
    <2> DEFINE W == {k \in 0..n : from[n + 1 - k] \notin Seq(Character)}
    <2>1. ASSUME NEW k \in W, \A m \in W : k <= m
          PROVE  FALSE
        <3>1. k \in 0..n /\ n + 1 - k \in 1..n + 1
            BY <1>1
        <3>2. ASSUME NEW j \in n + 1 - k + 1..n + 1
              PROVE  from[j] \in Seq(Character)
            <4>1. n + 1 - j \in 0..n /\ ~(k <= n + 1 - j) /\ n + 1 - (n + 1 - j) = j
                BY <1>1, <3>1
            <4>2. n + 1 - j \notin W
                <5> HIDE DEF W
                <5> QED
                    BY <2>1, <4>1
            <4> QED
                BY <4>1, <4>2
        <3>3. Rule(from, n + 1 - k) \in Seq(Character)
            BY <1>4, <3>1, <3>2
        <3> QED
            BY <1>10, <3>1, <3>3
    <2>2. W \in SUBSET Nat
        BY <1>1
    <2> HIDE DEF W
    <2>3. W = {}
        BY <2>1, <2>2, Least
    <2> QED
        BY <2>3 DEF W
<1>12. from \in [1..n + 1 -> Seq(Character)]
    <2>1. ASSUME NEW i \in 1..n + 1
          PROVE  from[i] \in Seq(Character)
        <3>1. n + 1 - i \in 0..n /\ n + 1 - (n + 1 - i) = i
            BY <1>1
        <3> QED
            BY <1>11, <3>1
    <2> QED
        BY <1>9, <2>1
<1>13. /\ from[n + 1] = <<>>
       /\ \A i \in 1..n : EscapeEnd(s, i) = 0 => from[i] = <<s[i]>> \o from[i + 1]
       /\ \A i \in 1..n : EscapeEnd(s, i) # 0 => from[i] = from[EscapeEnd(s, i) + 1]
    <2>1. n + 1 \in 1..n + 1 /\ n + 1 > n /\ \A i \in 1..n : i \in 1..n + 1 /\ ~(i > n)
        BY <1>1
    <2> QED
        BY <1>10, <2>1 DEF Rule
<1> QED
    BY <1>2, <1>12, <1>13 DEF Leaves, n

-----------------------------------------------------------------------------
(* Where escape sequences end *)

\* Neither the CSI sequences nor the two-character ones look beyond their end.
Ends(s, i) == CsiEnds(s, i) \cup TwoEnds(s, i)

NoOsc(s) == \A i \in DOMAIN s : s[i] = ESC /\ i < Len(s) => s[i + 1] # RBracket

\* Every alternative of _ANSI matches at least one character after the ESC.
LEMMA EndsInside ==
    ASSUME NEW s \in Seq(Character), NEW i \in 1..Len(s)
    PROVE  /\ CsiEnds(s, i) \subseteq i + 1..Len(s) /\ OscEnds(s, i) \subseteq i + 1..Len(s)
           /\ TwoEnds(s, i) \subseteq i + 1..Len(s)
<1>1. Len(s) \in Nat /\ DOMAIN s = 1..Len(s)
    OBVIOUS
<1> QED
    BY <1>1 DEF CsiEnds, OscEnds, TwoEnds

\* An escape sequence has one end.
LEMMA OneEnd ==
    ASSUME NEW s \in Seq(Character), NEW i \in 1..Len(s), NEW j \in Ends(s, i), NEW k \in Ends(s, i)
    PROVE  j = k
<1>1. Len(s) \in Nat /\ DOMAIN s = 1..Len(s)
    OBVIOUS
<1>2. ASSUME NEW x \in CsiEnds(s, i), NEW y \in CsiEnds(s, i), x < y
      PROVE  FALSE
    <2>1. x \in i + 2..y - 1
        BY <1>1, <1>2 DEF CsiEnds
    <2>2. Class(s[x]) = "final" /\ Class(s[x]) = "param"
        BY <2>1 DEF CsiEnds
    <2> QED
        BY <2>2
<1>3. \A x, y \in CsiEnds(s, i) : x = y
    <2>1. CsiEnds(s, i) \subseteq Nat
        BY <1>1 DEF CsiEnds
    <2>2. \A x, y \in Nat : x < y \/ x = y \/ y < x
        OBVIOUS
    <2> QED
        BY <1>2, <2>1, <2>2
<1>4. CsiEnds(s, i) # {} => TwoEnds(s, i) = {}
    <2>1. CsiEnds(s, i) # {} => s[i + 1] = LBracket
        BY DEF CsiEnds
    <2>2. LBracket # RBracket /\ LBracket # Backslash /\ Class(LBracket) # "upper"
        BY DEF LBracket, RBracket, Backslash, Class
    <2>3. TwoEnds(s, i) # {} => s[i + 1] \in {RBracket, Backslash} \/ Class(s[i + 1]) = "upper"
        BY DEF TwoEnds
    <2> QED
        BY <2>1, <2>2, <2>3
<1>5. \A x, y \in TwoEnds(s, i) : x = y
    BY DEF TwoEnds
<1> QED
    BY <1>3, <1>4, <1>5 DEF Ends

\* Without operating system commands, the two alternatives of _ANSI that are left
\* exclude each other, and where an escape ends is where either of them matches.
LEMMA EscapeIs ==
    ASSUME NEW s \in Seq(Character), NoOsc(s), NEW i \in 1..Len(s), s[i] = ESC
    PROVE  /\ EscapeEnd(s, i) \in Nat
           /\ \A j \in Nat : j # 0 => (EscapeEnd(s, i) = j <=> j \in Ends(s, i))
<1> DEFINE ends == <<CsiEnds(s, i), OscEnds(s, i), TwoEnds(s, i)>>
           matching == {a \in 1..3 : ends[a] # {}}
<1>1. ends[1] = CsiEnds(s, i) /\ ends[2] = OscEnds(s, i) /\ ends[3] = TwoEnds(s, i)
    OBVIOUS
<1>2. OscEnds(s, i) = {}
    <2>1. Len(s) \in Nat /\ DOMAIN s = 1..Len(s)
        OBVIOUS
    <2>3. \A j \in i + 2..Len(s) : i < Len(s)
        BY <2>1
    <2>4. i < Len(s) => s[i + 1] # RBracket
        BY <2>1 DEF NoOsc
    <2>2. \A j \in i + 2..Len(s) : s[i + 1] # RBracket
        BY <2>3, <2>4
    <2> QED
        BY <2>2 DEF OscEnds
<1>3. /\ CsiEnds(s, i) \in SUBSET Nat /\ TwoEnds(s, i) \in SUBSET Nat
      /\ 0 \notin CsiEnds(s, i) /\ 0 \notin TwoEnds(s, i)
    <2>1. i + 1..Len(s) \subseteq Nat \ {0}
        OBVIOUS
    <2> QED
        BY <2>1, EndsInside
<1>4. EscapeEnd(s, i) = IF matching = {} THEN 0 ELSE Min(ends[Min(matching)])
    BY DEF EscapeEnd
<1>5. matching \in SUBSET Nat /\ \A a \in matching : a \in 1..3 /\ ends[a] # {}
    OBVIOUS
<1>6. matching = {} => CsiEnds(s, i) = {} /\ TwoEnds(s, i) = {}
    BY <1>1
<1> HIDE DEF ends, matching
<1>7. CASE matching = {}
    <2>1. Ends(s, i) = {} /\ EscapeEnd(s, i) = 0
        BY <1>4, <1>6, <1>7 DEF Ends
    <2> QED
        BY <2>1
<1>8. CASE matching # {}
    <2> DEFINE a == Min(matching)
    <2>1. a \in matching
        BY <1>5, <1>8, MinIsLeast
    <2>2. EscapeEnd(s, i) = Min(ends[a])
        BY <1>4, <1>8
    <2> HIDE DEF a
    <2>3. a \in 1..3 /\ ends[a] # {}
        BY <1>5, <2>1
    <2>4. a = 1 \/ a = 3
        BY <1>1, <1>2, <2>3
    <2>5. ends[a] \in SUBSET Nat /\ ends[a] \subseteq Ends(s, i)
        BY <1>1, <1>3, <2>4 DEF Ends
    <2>6. EscapeEnd(s, i) \in ends[a]
        BY <2>2, <2>3, <2>5, MinIsLeast
    <2>7. EscapeEnd(s, i) \in Ends(s, i) /\ EscapeEnd(s, i) \in Nat
        BY <2>5, <2>6
    <2> QED
        BY <2>7, OneEnd
<1> QED
    BY <1>7, <1>8

\* No escape begins at a character that is not ESC.
LEMMA NoEscape ==
    ASSUME NEW s, NEW i, s[i] # ESC
    PROVE  EscapeEnd(s, i) = 0
BY DEF EscapeEnd

\* What a part of the output lacks at its end is decided by what comes after it;
\* all other escape sequences are the same.
LEMMA EscapesOfAPrefix ==
    ASSUME NEW a \in Seq(Character), NEW b \in Seq(Character), NoOsc(a \o b), NEW i \in 1..Len(a)
    PROVE  EscapeEnd(a, i) = IF EscapeEnd(a \o b, i) <= Len(a) THEN EscapeEnd(a \o b, i) ELSE 0
<1> DEFINE s == a \o b
<1>1. /\ Len(a) \in Nat /\ Len(b) \in Nat /\ DOMAIN a = 1..Len(a)
      /\ s \in Seq(Character) /\ Len(s) = Len(a) + Len(b) /\ DOMAIN s = 1..Len(s)
      /\ \A j \in 1..Len(a) : s[j] = a[j]
      /\ i \in 1..Len(s)
    OBVIOUS
<1> HIDE DEF s
<1>2. CASE s[i] # ESC
    <2>1. EscapeEnd(s, i) = 0 /\ EscapeEnd(a, i) = 0
        BY <1>1, <1>2, NoEscape
    <2> QED
        BY <1>1, <2>1 DEF s
<1>3. CASE s[i] = ESC
    <2>1. NoOsc(s) /\ NoOsc(a)
        <3>1. NoOsc(s)
            BY DEF s
        <3>2. \A j \in 1..Len(a) : j < Len(a) => j \in 1..Len(s) /\ j < Len(s) /\ j + 1 \in 1..Len(a)
            BY <1>1
        <3> QED
            BY <1>1, <3>1, <3>2 DEF NoOsc
    <2>2. a[i] = ESC
        BY <1>1, <1>3
    <2>3. /\ EscapeEnd(s, i) \in Nat
          /\ \A j \in Nat : j # 0 => (EscapeEnd(s, i) = j <=> j \in Ends(s, i))
        BY <1>1, <1>3, <2>1, EscapeIs
    <2>4. /\ EscapeEnd(a, i) \in Nat
          /\ \A j \in Nat : j # 0 => (EscapeEnd(a, i) = j <=> j \in Ends(a, i))
        BY <1>1, <2>1, <2>2, EscapeIs
    <2>5. \A j \in 1..Len(a) : j \in CsiEnds(a, i) <=> j \in CsiEnds(s, i)
        <3> SUFFICES ASSUME NEW j \in 1..Len(a)
                     PROVE  j \in CsiEnds(a, i) <=> j \in CsiEnds(s, i)
            OBVIOUS
        <3>1. j \in i + 2..Len(a) <=> j \in i + 2..Len(s)
            BY <1>1
        <3>2. j \in i + 2..Len(a) => i + 1 \in 1..Len(a) /\ \A k \in i + 2..j - 1 : k \in 1..Len(a)
            BY <1>1
        <3> QED
            BY <1>1, <3>1, <3>2 DEF CsiEnds
    <2>6. \A j \in 1..Len(a) : j \in TwoEnds(a, i) <=> j \in TwoEnds(s, i)
        BY <1>1 DEF TwoEnds
    <2>7. \A j \in Ends(a, i) : j \in 1..Len(a)
        <3>1. i + 1..Len(a) \subseteq 1..Len(a)
            BY <1>1
        <3> QED
            BY <1>1, <3>1, EndsInside DEF Ends
    <2>8. \A j \in Nat : j # 0 => (j \in Ends(a, i) <=> j <= Len(a) /\ j \in Ends(s, i))
        <3>1. \A j \in Nat : j # 0 /\ j <= Len(a) => j \in 1..Len(a)
            BY <1>1
        <3>2. \A j \in 1..Len(a) : j <= Len(a)
            BY <1>1
        <3> QED
            BY <2>5, <2>6, <2>7, <3>1, <3>2 DEF Ends
    <2> DEFINE e == EscapeEnd(s, i)
               d == EscapeEnd(a, i)
    <2>9. /\ e \in Nat /\ d \in Nat /\ Len(a) \in Nat
          /\ e # 0 => e \in Ends(s, i)
          /\ d # 0 => d \in Ends(a, i)
          /\ e # 0 /\ e \in Ends(a, i) => d = e
          /\ d # 0 /\ d \in Ends(s, i) => d = e
        BY <1>1, <2>3, <2>4
    <2> HIDE DEF e, d
    <2>10. d = IF e <= Len(a) THEN e ELSE 0
        BY <2>8, <2>9
    <2> QED
        BY <2>10 DEF e, d, s
<1> QED
    BY <1>2, <1>3

\* Escape sequences look at nothing before them.
LEMMA EscapesOfASuffix ==
    ASSUME NEW a \in Seq(Character), NEW b \in Seq(Character), NoOsc(a \o b), NEW i \in 1..Len(b)
    PROVE  EscapeEnd(a \o b, Len(a) + i) = IF EscapeEnd(b, i) = 0 THEN 0 ELSE Len(a) + EscapeEnd(b, i)
<1> DEFINE s == a \o b
           n == Len(a)
<1>1. /\ n \in Nat /\ Len(b) \in Nat /\ DOMAIN b = 1..Len(b)
      /\ s \in Seq(Character) /\ Len(s) = n + Len(b) /\ DOMAIN s = 1..Len(s)
      /\ \A j \in 1..Len(b) : s[n + j] = b[j]
      /\ n + i \in 1..Len(s)
    OBVIOUS
<1> HIDE DEF s, n
<1>2. CASE b[i] # ESC
    <2>1. EscapeEnd(s, n + i) = 0 /\ EscapeEnd(b, i) = 0
        BY <1>1, <1>2, NoEscape
    <2> QED
        BY <2>1 DEF s, n
<1>3. CASE b[i] = ESC
    <2>1. NoOsc(s) /\ NoOsc(b)
        <3>1. NoOsc(s)
            BY DEF s
        <3>2. \A j \in 1..Len(b) : j < Len(b) =>
                 n + j \in 1..Len(s) /\ n + j < Len(s) /\ j + 1 \in 1..Len(b) /\ n + j + 1 = n + (j + 1)
            BY <1>1
        <3>3. ASSUME NEW j \in 1..Len(b), b[j] = ESC, j < Len(b)
              PROVE  b[j + 1] # RBracket
            <4>1. n + j \in DOMAIN s /\ s[n + j] = ESC /\ n + j < Len(s)
                BY <1>1, <3>2, <3>3
            <4>2. s[(n + j) + 1] # RBracket
                BY <3>1, <4>1 DEF NoOsc
            <4>3. s[n + (j + 1)] = b[j + 1] /\ (n + j) + 1 = n + (j + 1)
                BY <1>1, <3>2, <3>3
            <4> QED
                BY <4>2, <4>3
        <3> QED
            BY <1>1, <3>1, <3>3 DEF NoOsc
    <2>2. s[n + i] = ESC
        BY <1>1, <1>3
    <2>3. /\ EscapeEnd(s, n + i) \in Nat
          /\ \A j \in Nat : j # 0 => (EscapeEnd(s, n + i) = j <=> j \in Ends(s, n + i))
        BY <1>1, <2>1, <2>2, EscapeIs
    <2>4. /\ EscapeEnd(b, i) \in Nat
          /\ \A j \in Nat : j # 0 => (EscapeEnd(b, i) = j <=> j \in Ends(b, i))
        BY <1>1, <1>3, <2>1, EscapeIs
    <2>5. \A j \in 1..Len(b) : j \in CsiEnds(b, i) => n + j \in CsiEnds(s, n + i)
        <3> SUFFICES ASSUME NEW j \in 1..Len(b), j \in CsiEnds(b, i)
                     PROVE  n + j \in CsiEnds(s, n + i)
            OBVIOUS
        <3>1. /\ j \in i + 2..Len(b) /\ b[i + 1] = LBracket /\ Class(b[j]) = "final"
              /\ \A k \in i + 2..j - 1 : Class(b[k]) = "param"
            BY DEF CsiEnds
        <3>5. j \in i + 2..Len(b) /\ n \in Nat /\ Len(b) \in Nat /\ Len(s) = n + Len(b)
            BY <1>1, <3>1
        <3>2. n + j \in (n + i) + 2..Len(s) /\ i + 1 \in 1..Len(b) /\ (n + i) + 1 = n + (i + 1)
            BY <3>5
        <3>3. s[(n + i) + 1] = LBracket /\ Class(s[n + j]) = "final"
            BY <1>1, <3>1, <3>2
        <3>4. ASSUME NEW k \in (n + i) + 2..(n + j) - 1
              PROVE  Class(s[k]) = "param"
            <4>1. k - n \in i + 2..j - 1 /\ k - n \in 1..Len(b) /\ n + (k - n) = k
                BY <1>1, <3>1
            <4> QED
                BY <1>1, <3>1, <4>1
        <3> QED
            BY <3>2, <3>3, <3>4 DEF CsiEnds
    <2>6. \A j \in 1..Len(b) : j \in TwoEnds(b, i) => n + j \in TwoEnds(s, n + i)
        <3> SUFFICES ASSUME NEW j \in 1..Len(b), j \in TwoEnds(b, i)
                     PROVE  n + j \in TwoEnds(s, n + i)
            OBVIOUS
        <3>1. j = i + 1 /\ (b[j] \in {RBracket, Backslash} \/ Class(b[j]) = "upper")
            BY DEF TwoEnds
        <3>2. n + j = (n + i) + 1
            <4>1. n \in Nat /\ i \in Nat
                BY <1>1
            <4> QED
                BY <3>1, <4>1
        <3>3. s[n + j] = b[j]
            BY <1>1
        <3>4. n + j \in {(n + i) + 1} \cap DOMAIN s
            <4>1. n \in Nat /\ Len(b) \in Nat /\ Len(s) = n + Len(b) /\ DOMAIN s = 1..Len(s)
                BY <1>1, LenProperties
            <4>2. n + j \in 1..Len(s)
                BY <4>1
            <4> QED
                BY <3>2, <4>1, <4>2
        <3> QED
            BY <3>1, <3>3, <3>4 DEF TwoEnds
    <2>7. ASSUME NEW j \in Ends(s, n + i)
          PROVE  j - n \in 1..Len(b) /\ j - n \in Ends(b, i)
        <3>1. j \in (n + i) + 1..Len(s)
            BY <1>1, EndsInside DEF Ends
        <3>2. j - n \in 1..Len(b) /\ n + (j - n) = j
            BY <1>1, <3>1
        <3>3. CASE j \in CsiEnds(s, n + i)
            <4>1. /\ j \in (n + i) + 2..Len(s) /\ s[(n + i) + 1] = LBracket /\ Class(s[j]) = "final"
                  /\ \A k \in (n + i) + 2..j - 1 : Class(s[k]) = "param"
                BY <3>3 DEF CsiEnds
            <4>2. j - n \in i + 2..Len(b) /\ i + 1 \in 1..Len(b) /\ (n + i) + 1 = n + (i + 1)
                BY <1>1, <4>1
            <4>3. b[i + 1] = LBracket /\ Class(b[j - n]) = "final"
                BY <1>1, <3>2, <4>1, <4>2
            <4>4. ASSUME NEW k \in i + 2..(j - n) - 1
                  PROVE  Class(b[k]) = "param"
                <5>1. n + k \in (n + i) + 2..j - 1 /\ k \in 1..Len(b)
                    BY <1>1, <3>2
                <5> QED
                    BY <1>1, <4>1, <5>1
            <4> QED
                BY <3>2, <4>2, <4>3, <4>4 DEF CsiEnds, Ends
        <3>4. CASE j \in TwoEnds(s, n + i)
            <4>1. j = (n + i) + 1 /\ (s[j] \in {RBracket, Backslash} \/ Class(s[j]) = "upper")
                BY <3>4 DEF TwoEnds
            <4>2. j - n = i + 1 /\ s[j] = b[j - n]
                BY <1>1, <3>2, <4>1
            <4> QED
                BY <1>1, <3>2, <4>1, <4>2 DEF TwoEnds, Ends
        <3> QED
            BY <3>3, <3>4 DEF Ends
    <2> DEFINE e == EscapeEnd(s, n + i)
               d == EscapeEnd(b, i)
    <2>8. /\ e \in Nat /\ d \in Nat
          /\ e # 0 => e \in Ends(s, n + i)
          /\ d # 0 => d \in Ends(b, i)
        BY <2>3, <2>4
    <2>9. \A j \in Nat : j # 0 /\ j \in Ends(s, n + i) => e = j
        BY <2>3
    <2>10. \A j \in Nat : j # 0 /\ j \in Ends(b, i) => d = j
        BY <2>4
    <2> HIDE DEF e, d
    <2>11. CASE d # 0
        <3>1. d \in 1..Len(b)
            <4>1. i + 1..Len(b) \subseteq 1..Len(b)
                BY <1>1
            <4> QED
                BY <2>8, <2>11, <4>1, EndsInside DEF Ends
        <3>2. n + d \in Ends(s, n + i)
            BY <2>5, <2>6, <2>8, <2>11, <3>1 DEF Ends
        <3>3. n + d \in Nat /\ n + d # 0
            BY <1>1, <3>1
        <3>4. e = n + d
            BY <2>9, <3>2, <3>3
        <3> QED
            BY <2>11, <3>4 DEF e, d, s, n
    <2>12. CASE d = 0
        <3>1. e = 0
            <4>1. SUFFICES ASSUME e # 0
                           PROVE  FALSE
                OBVIOUS
            <4>2. e - n \in 1..Len(b) /\ e - n \in Ends(b, i)
                BY <2>7, <2>8, <4>1
            <4>3. e - n \in Nat /\ e - n # 0
                BY <4>2
            <4> QED
                BY <2>10, <2>12, <4>2, <4>3
        <3> QED
            BY <2>12, <3>1 DEF e, d, s, n
    <2> QED
        BY <2>11, <2>12
<1> QED
    BY <1>2, <1>3

\* No escape sequence of s goes over the cut after its n-th character.
CleanCut(s, n) == \A i \in 1..n : EscapeEnd(s, i) <= n

\* Text can be stripped in pieces that are cut cleanly.
LEMMA StripSplits ==
    ASSUME NEW a \in Seq(Character), NEW b \in Seq(Character), NoOsc(a \o b), CleanCut(a \o b, Len(a))
    PROVE  Strip(a \o b) = Strip(a) \o Strip(b)
<1> DEFINE s == a \o b
           n == Len(a)
           m == Len(b)
<1>1. /\ n \in Nat /\ m \in Nat /\ s \in Seq(Character) /\ Len(s) = n + m
      /\ \A j \in 1..n : s[j] = a[j] /\ a[j] \in Character
      /\ \A j \in 1..m : s[n + j] = b[j]
    OBVIOUS
<1>2. PICK fs : Leaves(s, fs) /\ Strip(s) = fs[1]
    <2>1. s \in Seq(Character)
        BY <1>1
    <2> HIDE DEF s
    <2> QED
        BY <2>1, StripSolves
<1>3. PICK fa : Leaves(a, fa) /\ Strip(a) = fa[1]
    BY StripSolves
<1>4. PICK fb : Leaves(b, fb) /\ Strip(b) = fb[1]
    BY StripSolves
<1>5. \A i \in 1..n : EscapeEnd(a, i) = EscapeEnd(s, i)
    BY EscapesOfAPrefix DEF CleanCut
<1>6. \A i \in 1..m : EscapeEnd(s, n + i) = IF EscapeEnd(b, i) = 0 THEN 0 ELSE n + EscapeEnd(b, i)
    BY EscapesOfASuffix
<1>7. \A i \in 1..n : EscapeEnd(a, i) = 0 \/ EscapeEnd(a, i) \in i + 1..n
    BY EscapesEndInside
<1>8. \A i \in 1..m : EscapeEnd(b, i) = 0 \/ EscapeEnd(b, i) \in i + 1..m
    BY EscapesEndInside
<1> HIDE DEF s, n, m
<1>9. /\ fs[n + m + 1] = <<>>
      /\ \A i \in 1..n + m : EscapeEnd(s, i) = 0 => fs[i] = <<s[i]>> \o fs[i + 1]
      /\ \A i \in 1..n + m : EscapeEnd(s, i) # 0 => fs[i] = fs[EscapeEnd(s, i) + 1]
    BY <1>1, <1>2 DEF Leaves
<1>10. /\ fa \in [1..n + 1 -> Seq(Character)]
       /\ fa[n + 1] = <<>>
       /\ \A i \in 1..n : EscapeEnd(a, i) = 0 => fa[i] = <<a[i]>> \o fa[i + 1]
       /\ \A i \in 1..n : EscapeEnd(a, i) # 0 => fa[i] = fa[EscapeEnd(a, i) + 1]
    BY <1>3 DEF Leaves, n
<1>11. /\ fb \in [1..m + 1 -> Seq(Character)]
       /\ fb[m + 1] = <<>>
       /\ \A i \in 1..m : EscapeEnd(b, i) = 0 => fb[i] = <<b[i]>> \o fb[i + 1]
       /\ \A i \in 1..m : EscapeEnd(b, i) # 0 => fb[i] = fb[EscapeEnd(b, i) + 1]
    BY <1>4 DEF Leaves, m
<1>12. \A k \in 0..m : fs[n + (m + 1 - k)] = fb[m + 1 - k]
    <2> DEFINE T == {k \in 0..m : fs[n + (m + 1 - k)] # fb[m + 1 - k]}
    <2>1. ASSUME NEW k \in T, \A j \in T : k <= j
          PROVE  FALSE
        <3> DEFINE i == m + 1 - k
        <3>0. k \in 0..m /\ k \in Nat /\ fs[n + i] # fb[i]
            BY <1>1
        <3>1. k # 0
            <4>1. k = 0 => i = m + 1 /\ n + i = n + m + 1
                BY <1>1
            <4> QED
                BY <1>9, <1>11, <3>0, <4>1
        <3>2. i \in 1..m /\ n + i \in 1..n + m
            BY <1>1, <3>0, <3>1
        <3>3. \A x \in i + 1..m + 1 : fs[n + x] = fb[x]
            <4>1. ASSUME NEW x \in i + 1..m + 1
                  PROVE  m + 1 - x \in 0..m /\ ~(k <= m + 1 - x) /\ m + 1 - (m + 1 - x) = x
                BY <1>1, <3>0
            <4> HIDE DEF i
            <4>2. ASSUME NEW x \in i + 1..m + 1
                  PROVE  fs[n + x] = fb[x]
                <5>1. m + 1 - x \notin T
                    <6> HIDE DEF T
                    <6> QED
                        BY <2>1, <4>1
                <5> QED
                    BY <4>1, <5>1
            <4> QED
                BY <4>2
        <3> HIDE DEF i
        <3>4. CASE EscapeEnd(b, i) = 0
            <4>1. EscapeEnd(s, n + i) = 0
                BY <1>6, <3>2, <3>4
            <4>2. fs[n + i] = <<s[n + i]>> \o fs[(n + i) + 1]
                BY <1>9, <3>2, <4>1
            <4>3. fb[i] = <<b[i]>> \o fb[i + 1]
                BY <1>11, <3>2, <3>4
            <4>4. (n + i) + 1 = n + (i + 1) /\ i + 1 \in i + 1..m + 1
                BY <1>1, <3>2
            <4>5. fs[n + (i + 1)] = fb[i + 1]
                BY <3>3, <4>4
            <4> QED
                BY <1>1, <3>0, <3>2, <4>2, <4>3, <4>4, <4>5
        <3>5. CASE EscapeEnd(b, i) # 0
            <4> DEFINE e == EscapeEnd(b, i)
            <4>1. e \in i + 1..m
                BY <1>8, <3>2, <3>5
            <4>2. EscapeEnd(s, n + i) = n + e
                BY <1>6, <3>2, <3>5
            <4>3. fb[i] = fb[e + 1]
                BY <1>11, <3>2, <3>5
            <4> HIDE DEF e
            <4>4. n + e # 0 /\ (n + e) + 1 = n + (e + 1) /\ e + 1 \in i + 1..m + 1
                BY <1>1, <3>2, <4>1
            <4>5. fs[n + i] = fs[(n + e) + 1]
                BY <1>9, <3>2, <4>2, <4>4
            <4> QED
                BY <3>0, <3>3, <4>3, <4>4, <4>5
        <3> QED
            BY <3>4, <3>5
    <2>2. T \in SUBSET Nat
        BY <1>1
    <2> HIDE DEF T
    <2>3. T = {}
        BY <2>1, <2>2, Least
    <2> QED
        BY <2>3 DEF T
<1>13. fs[n + 1] = fb[1] /\ fb[1] \in Seq(Character)
    <2>1. m \in 0..m /\ m + 1 - m = 1 /\ 1 \in 1..m + 1
        BY <1>1
    <2> QED
        BY <1>11, <1>12, <2>1
<1>14. \A k \in 0..n : fs[n + 1 - k] = fa[n + 1 - k] \o fb[1]
    <2> DEFINE both(i) == fa[i] \o fb[1]
               T == {k \in 0..n : fs[n + 1 - k] # both(n + 1 - k)}
    <2> HIDE DEF both
    <2>1. ASSUME NEW k \in T, \A j \in T : k <= j
          PROVE  FALSE
        <3> DEFINE i == n + 1 - k
        <3>0. k \in 0..n /\ k \in Nat /\ fs[i] # both(i)
            BY <1>1
        <3>1. k # 0
            <4>1. k = 0 => i = n + 1
                BY <1>1
            <4>2. <<>> \o fb[1] = fb[1]
                BY <1>13, ConcatEmptySeq
            <4> QED
                BY <1>10, <1>13, <3>0, <4>1, <4>2 DEF both
        <3>2. i \in 1..n /\ i \in 1..n + m
            BY <1>1, <3>0, <3>1
        <3>3. \A x \in i + 1..n + 1 : fs[x] = both(x)
            <4>1. ASSUME NEW x \in i + 1..n + 1
                  PROVE  n + 1 - x \in 0..n /\ ~(k <= n + 1 - x) /\ n + 1 - (n + 1 - x) = x
                BY <1>1, <3>0
            <4> HIDE DEF i
            <4>2. ASSUME NEW x \in i + 1..n + 1
                  PROVE  fs[x] = both(x)
                <5>1. n + 1 - x \notin T
                    <6> HIDE DEF T
                    <6> QED
                        BY <2>1, <4>1
                <5> QED
                    BY <4>1, <5>1
            <4> QED
                BY <4>2
        <3> HIDE DEF i
        <3>4. CASE EscapeEnd(a, i) = 0
            <4>1. fs[i] = <<s[i]>> \o fs[i + 1]
                BY <1>5, <1>9, <3>2, <3>4
            <4>2. fa[i] = <<a[i]>> \o fa[i + 1]
                BY <1>10, <3>2, <3>4
            <4>3. i + 1 \in i + 1..n + 1 /\ i + 1 \in 1..n + 1
                BY <1>1, <3>2
            <4>4. fs[i + 1] = fa[i + 1] \o fb[1] /\ fa[i + 1] \in Seq(Character)
                BY <1>10, <3>3, <4>3 DEF both
            <4>5. s[i] = a[i] /\ <<a[i]>> \in Seq(Character)
                BY <1>1, <3>2
            <4> DEFINE x == <<a[i]>>
                       y == fa[i + 1]
                       z == fb[1]
            <4>7. x \in Seq(Character) /\ y \in Seq(Character) /\ z \in Seq(Character)
                BY <1>13, <4>4, <4>5
            <4> HIDE DEF x, y, z
            <4>8. (x \o y) \o z = x \o (y \o z)
                BY <4>7, Associative, Zenon
            <4>6. <<a[i]>> \o (fa[i + 1] \o fb[1]) = (<<a[i]>> \o fa[i + 1]) \o fb[1]
                BY <4>8 DEF x, y, z
            <4> QED
                BY <3>0, <4>1, <4>2, <4>4, <4>5, <4>6 DEF both
        <3>5. CASE EscapeEnd(a, i) # 0
            <4> DEFINE e == EscapeEnd(a, i)
            <4>1. e \in i + 1..n /\ e = EscapeEnd(s, i)
                BY <1>5, <1>7, <3>2, <3>5
            <4>2. fa[i] = fa[e + 1] /\ fs[i] = fs[e + 1]
                BY <1>9, <1>10, <3>2, <3>5, <4>1
            <4> HIDE DEF e
            <4>3. e + 1 \in i + 1..n + 1
                BY <1>1, <3>2, <4>1
            <4> QED
                BY <3>0, <3>3, <4>2, <4>3 DEF both
        <3> QED
            BY <3>4, <3>5
    <2>2. T \in SUBSET Nat
        BY <1>1
    <2> HIDE DEF T
    <2>3. T = {}
        BY <2>1, <2>2, Least
    <2> QED
        BY <2>3 DEF T, both
<1>15. fs[1] = fa[1] \o fb[1]
    <2>1. n \in 0..n /\ n + 1 - n = 1
        BY <1>1
    <2> QED
        BY <1>14, <2>1
<1> QED
    BY <1>2, <1>3, <1>4, <1>15 DEF s

\* What Strip leaves of a text.
LEMMA StripType ==
    ASSUME NEW s \in Seq(Character)
    PROVE  Strip(s) \in Seq(Character)
<1>1. 1 \in 1..Len(s) + 1
    OBVIOUS
<1>2. \E f \in [1..Len(s) + 1 -> Seq(Character)] : Strip(s) = f[1]
    BY StripSolves DEF Leaves
<1> QED
    BY <1>1, <1>2

\* Text without an escape sequence is left as it is.
LEMMA NothingToStrip ==
    ASSUME NEW s \in Seq(Character), \A i \in 1..Len(s) : EscapeEnd(s, i) = 0
    PROVE  Strip(s) = s
<1> DEFINE n == Len(s)
<1>1. n \in Nat
    OBVIOUS
<1>2. PICK f : Leaves(s, f) /\ Strip(s) = f[1]
    BY StripSolves
<1>3. /\ f[n + 1] = <<>>
      /\ \A i \in 1..n : f[i] = <<s[i]>> \o f[i + 1]
    BY <1>2 DEF Leaves
<1>4. \A i \in 1..n : SubSeq(s, i, n) = <<s[i]>> \o SubSeq(s, i + 1, n)
    <2>1. \A i \in 1..n : \A j \in i..n : SubSeq(s, i, j) = <<s[i]>> \o SubSeq(s, i + 1, j)
        BY SubSeqRecursiveFirst
    <2>2. \A i \in 1..n : n \in i..n
        BY <1>1
    <2> QED
        BY <2>1, <2>2
<1>5. SubSeq(s, n + 1, n) = <<>> /\ SubSeq(s, 1, n) = s
    BY SubSeqEmpty, SubSeqFull
<1> HIDE DEF n
<1> DEFINE T == {k \in 0..n : f[n + 1 - k] # SubSeq(s, n + 1 - k, n)}
<1>6. ASSUME NEW k \in T, \A j \in T : k <= j
      PROVE  FALSE
    <2>1. k \in 0..n /\ k \in Nat /\ f[n + 1 - k] # SubSeq(s, n + 1 - k, n)
        BY <1>1
    <2>2. k # 0
        <3>1. k = 0 => n + 1 - k = n + 1
            BY <1>1
        <3> QED
            BY <1>3, <1>5, <2>1, <3>1
    <2>3. n + 1 - k \in 1..n /\ k - 1 \in 0..n /\ ~(k <= k - 1) /\ n + 1 - (k - 1) = n + 1 - k + 1
        BY <1>1, <2>1, <2>2
    <2>4. k - 1 \notin T
        <3> HIDE DEF T
        <3> QED
            BY <1>6, <2>3
    <2>5. f[n + 1 - k + 1] = SubSeq(s, n + 1 - k + 1, n)
        BY <2>3, <2>4
    <2> QED
        BY <1>3, <1>4, <2>1, <2>3, <2>5
<1>7. T \in SUBSET Nat
    BY <1>1
<1>8. T = {}
    <2> HIDE DEF T
    <2> QED
        BY <1>6, <1>7, Least
<1>9. n \in 0..n /\ n + 1 - n = 1
    BY <1>1
<1>10. f[1] = SubSeq(s, 1, n)
    BY <1>8, <1>9
<1> QED
    BY <1>2, <1>5, <1>10

-----------------------------------------------------------------------------
(* Output that may be cut anywhere *)

\* A control sequence that ends in a part ends there in the whole.
LEMMA CsiOfAPrefix ==
    ASSUME NEW a \in Seq(Character), NEW b \in Seq(Character), NEW i \in 1..Len(a), NEW j \in CsiEnds(a, i)
    PROVE  j \in CsiEnds(a \o b, i) /\ j <= Len(a)
<1> DEFINE s == a \o b
<1>1. /\ Len(a) \in Nat /\ Len(b) \in Nat /\ Len(s) = Len(a) + Len(b)
      /\ \A k \in 1..Len(a) : s[k] = a[k]
    OBVIOUS
<1> HIDE DEF s
<1>2. /\ j \in i + 2..Len(a) /\ a[i + 1] = LBracket /\ Class(a[j]) = "final"
      /\ \A k \in i + 2..j - 1 : Class(a[k]) = "param"
    BY DEF CsiEnds
<1>3. j \in i + 2..Len(s) /\ i + 1 \in 1..Len(a) /\ j \in 1..Len(a) /\ j <= Len(a)
    BY <1>1, <1>2
<1>4. \A k \in i + 2..j - 1 : k \in 1..Len(a)
    BY <1>1, <1>2
<1>5. j \in CsiEnds(s, i)
    BY <1>1, <1>2, <1>3, <1>4 DEF CsiEnds
<1> QED
    BY <1>3, <1>5 DEF s

\* A control sequence after a cut is the same without what is before it.
LEMMA CsiOfASuffix ==
    ASSUME NEW a \in Seq(Character), NEW b \in Seq(Character), NEW i \in 1..Len(b), NEW j \in Nat
    PROVE  j \in CsiEnds(b, i) <=> Len(a) + j \in CsiEnds(a \o b, Len(a) + i)
<1> DEFINE s == a \o b
           n == Len(a)
<1>1. /\ n \in Nat /\ Len(b) \in Nat /\ Len(s) = n + Len(b)
      /\ \A k \in 1..Len(b) : s[n + k] = b[k]
    OBVIOUS
<1> HIDE DEF s, n
<1>2. ASSUME j \in i + 2..Len(b)
      PROVE  /\ s[(n + i) + 1] = b[i + 1] /\ s[n + j] = b[j]
             /\ \A k \in i + 2..j - 1 : s[n + k] = b[k] /\ n + k \in (n + i) + 2..(n + j) - 1
             /\ \A k \in (n + i) + 2..(n + j) - 1 : k - n \in i + 2..j - 1 /\ s[k] = b[k - n]
    <2>1. i + 1 \in 1..Len(b) /\ j \in 1..Len(b) /\ (n + i) + 1 = n + (i + 1)
        BY <1>1, <1>2
    <2>2. \A k \in i + 2..j - 1 : k \in 1..Len(b) /\ n + k \in (n + i) + 2..(n + j) - 1
        BY <1>1, <1>2
    <2>3. \A k \in (n + i) + 2..(n + j) - 1 : k - n \in i + 2..j - 1 /\ k - n \in 1..Len(b) /\ n + (k - n) = k
        BY <1>1, <1>2
    <2> QED
        BY <1>1, <2>1, <2>2, <2>3
<1>3. j \in i + 2..Len(b) <=> n + j \in (n + i) + 2..Len(s)
    BY <1>1
<1>4. ASSUME j \in CsiEnds(b, i)
      PROVE  n + j \in CsiEnds(s, n + i)
    BY <1>2, <1>3, <1>4 DEF CsiEnds
<1>5. ASSUME n + j \in CsiEnds(s, n + i)
      PROVE  j \in CsiEnds(b, i)
    <2>1. /\ n + j \in (n + i) + 2..Len(s) /\ s[(n + i) + 1] = LBracket /\ Class(s[n + j]) = "final"
          /\ \A k \in (n + i) + 2..(n + j) - 1 : Class(s[k]) = "param"
        BY <1>5 DEF CsiEnds
    <2> QED
        BY <1>2, <1>3, <2>1 DEF CsiEnds
<1> QED
    BY <1>4, <1>5 DEF s, n

\* Text that chunks may cut anywhere has no operating system command.
LEMMA CutSafelyHasNoOsc ==
    ASSUME NEW s \in Seq(Character), CutSafely(s)
    PROVE  NoOsc(s)
BY DEF CutSafely, NoOsc

\* Neither have the parts of a text that has none.
LEMMA PartsHaveNoOsc ==
    ASSUME NEW a \in Seq(Character), NEW b \in Seq(Character), NoOsc(a \o b)
    PROVE  NoOsc(a) /\ NoOsc(b)
<1> DEFINE s == a \o b
           n == Len(a)
<1>1. /\ n \in Nat /\ Len(b) \in Nat /\ Len(s) = n + Len(b) /\ DOMAIN s = 1..Len(s)
      /\ DOMAIN a = 1..n /\ DOMAIN b = 1..Len(b)
      /\ \A k \in 1..n : s[k] = a[k]
      /\ \A k \in 1..Len(b) : s[n + k] = b[k]
      /\ NoOsc(s)
    OBVIOUS
<1>2. NoOsc(a)
    <2> HIDE DEF s
    <2>1. \A j \in 1..n : j < n => j \in 1..Len(s) /\ j < Len(s) /\ j + 1 \in 1..n
        BY <1>1
    <2> QED
        BY <1>1, <2>1 DEF NoOsc, n
<1>3. NoOsc(b)
    <2> HIDE DEF s, n
    <2>1. ASSUME NEW j \in 1..Len(b), b[j] = ESC, j < Len(b)
          PROVE  b[j + 1] # RBracket
        <3>1. /\ n + j \in 1..Len(s) /\ n + j < Len(s) /\ j + 1 \in 1..Len(b)
              /\ (n + j) + 1 = n + (j + 1)
            BY <1>1, <2>1
        <3>2. s[n + j] = ESC /\ s[n + (j + 1)] = b[j + 1]
            BY <1>1, <2>1, <3>1
        <3>3. s[(n + j) + 1] # RBracket
            BY <1>1, <3>1, <3>2 DEF NoOsc
        <3> QED
            BY <3>1, <3>2, <3>3
    <2> QED
        BY <1>1, <2>1 DEF NoOsc
<1> QED
    BY <1>2, <1>3

\* What is printed after text that may be cut anywhere leaves it so.
LEMMA CutSafelyConcat ==
    ASSUME NEW a \in Seq(Character), NEW b \in Seq(Character), CutSafely(a), CutSafely(b)
    PROVE  CutSafely(a \o b)
<1> DEFINE s == a \o b
           n == Len(a)
<1>1. /\ n \in Nat /\ Len(b) \in Nat /\ Len(s) = n + Len(b) /\ DOMAIN s = 1..Len(s)
      /\ DOMAIN a = 1..n /\ DOMAIN b = 1..Len(b)
      /\ \A k \in 1..n : s[k] = a[k]
      /\ \A k \in 1..Len(b) : s[n + k] = b[k]
    OBVIOUS
<1>p. \A i \in 1..n : \A j \in CsiEnds(a, i) : j \in CsiEnds(s, i)
    BY CsiOfAPrefix
<1>q. \A i \in 1..Len(b) : \A j \in Nat : j \in CsiEnds(b, i) => n + j \in CsiEnds(s, n + i)
    BY CsiOfASuffix
<1>r. \A i \in 1..Len(b) : CsiEnds(b, i) \subseteq Nat
    <2>1. \A i \in 1..Len(b) : CsiEnds(b, i) \subseteq i + 1..Len(b)
        BY EndsInside
    <2>2. \A i \in 1..Len(b) : i + 1..Len(b) \subseteq Nat
        BY <1>1
    <2> QED
        BY <2>1, <2>2
<1>m. MaxPending \in Nat
    BY BoundsAssumption
<1> HIDE DEF s, n
<1>2. ASSUME NEW i \in DOMAIN s, s[i] = ESC
      PROVE  /\ i < Len(s) /\ s[i + 1] # RBracket
             /\ s[i + 1] = LBracket => \E j \in CsiEnds(s, i) : j - i <= MaxPending
    <2>1. CASE i <= n
        <3>1. i \in 1..n /\ a[i] = ESC
            BY <1>1, <1>2, <2>1
        <3>2. /\ i < n /\ a[i + 1] # RBracket
              /\ a[i + 1] = LBracket => \E j \in CsiEnds(a, i) : j - i <= MaxPending
            BY <1>1, <3>1 DEF CutSafely, n
        <3>3. i < Len(s) /\ s[i + 1] = a[i + 1]
            <4>1. i + 1 \in 1..n /\ i < Len(s)
                BY <1>1, <3>1, <3>2
            <4> QED
                BY <1>1, <4>1
        <3> QED
            BY <1>p, <3>1, <3>2, <3>3
    <2>2. CASE ~(i <= n)
        <3> DEFINE k == i - n
        <3>1. k \in 1..Len(b) /\ n + k = i
            BY <1>1, <2>2
        <3> HIDE DEF k
        <3>2. b[k] = ESC
            BY <1>1, <1>2, <3>1
        <3>3. /\ k < Len(b) /\ b[k + 1] # RBracket
              /\ b[k + 1] = LBracket => \E j \in CsiEnds(b, k) : j - k <= MaxPending
            BY <1>1, <3>1, <3>2 DEF CutSafely
        <3>4. i < Len(s) /\ s[i + 1] = b[k + 1]
            <4>1. k + 1 \in 1..Len(b) /\ i < Len(s) /\ i + 1 = n + (k + 1)
                BY <1>1, <3>1, <3>3
            <4> QED
                BY <1>1, <4>1
        <3>5. ASSUME NEW j \in CsiEnds(b, k), j - k <= MaxPending
              PROVE  n + j \in CsiEnds(s, i) /\ (n + j) - i <= MaxPending
            <4>1. j \in Nat
                BY <1>r, <3>1
            <4>2. n + j \in CsiEnds(s, i)
                BY <1>q, <3>1, <4>1
            <4>3. k \in Nat /\ n \in Nat /\ i = n + k
                BY <1>1, <3>1
            <4>4. (n + j) - i = j - k
                BY <4>1, <4>3
            <4> QED
                BY <3>5, <4>2, <4>4
        <3> QED
            BY <3>3, <3>4, <3>5
    <2> QED
        BY <2>1, <2>2, <1>1
<1> QED
    BY <1>2 DEF CutSafely, s

\* The rest of a text that may be cut anywhere may be cut anywhere too.
LEMMA CutSafelySuffix ==
    ASSUME NEW a \in Seq(Character), NEW b \in Seq(Character), CutSafely(a \o b)
    PROVE  CutSafely(b)
<1> DEFINE s == a \o b
           n == Len(a)
<1>1. /\ n \in Nat /\ Len(b) \in Nat /\ Len(s) = n + Len(b) /\ DOMAIN s = 1..Len(s)
      /\ DOMAIN b = 1..Len(b) /\ s \in Seq(Character)
      /\ \A k \in 1..Len(b) : s[n + k] = b[k]
      /\ CutSafely(s)
    OBVIOUS
<1>q. \A i \in 1..Len(b) : \A j \in Nat : n + j \in CsiEnds(s, n + i) => j \in CsiEnds(b, i)
    BY CsiOfASuffix
<1>m. MaxPending \in Nat
    BY BoundsAssumption
<1> HIDE DEF s, n
<1>r. \A i \in 1..Len(s) : CsiEnds(s, i) \subseteq i + 1..Len(s)
    BY <1>1, EndsInside
<1>2. ASSUME NEW i \in 1..Len(b), b[i] = ESC
      PROVE  /\ i < Len(b) /\ b[i + 1] # RBracket
             /\ b[i + 1] = LBracket => \E j \in CsiEnds(b, i) : j - i <= MaxPending
    <2>1. n + i \in 1..Len(s) /\ s[n + i] = ESC
        BY <1>1, <1>2
    <2>2. /\ n + i < Len(s) /\ s[(n + i) + 1] # RBracket
          /\ s[(n + i) + 1] = LBracket => \E j \in CsiEnds(s, n + i) : j - (n + i) <= MaxPending
        BY <1>1, <2>1 DEF CutSafely
    <2>3. i < Len(b) /\ i + 1 \in 1..Len(b) /\ (n + i) + 1 = n + (i + 1)
        BY <1>1, <2>2
    <2>4. s[(n + i) + 1] = b[i + 1]
        BY <1>1, <2>3
    <2>5. ASSUME NEW j \in CsiEnds(s, n + i), j - (n + i) <= MaxPending
          PROVE  j - n \in CsiEnds(b, i) /\ (j - n) - i <= MaxPending
        <3>1. j \in (n + i) + 1..Len(s)
            BY <1>r, <2>1
        <3>2. j - n \in Nat /\ n + (j - n) = j /\ (j - n) - i = j - (n + i)
            BY <1>1, <3>1
        <3> QED
            BY <1>q, <2>5, <3>2
    <2> QED
        BY <2>2, <2>3, <2>4, <2>5
<1> QED
    BY <1>1, <1>2 DEF CutSafely

\* What follows completes no escape sequence of such output.
LEMMA NothingCompletedLater ==
    ASSUME NEW u \in Seq(Character), NEW r \in Seq(Character), CutSafely(u), NoOsc(u \o r),
           NEW i \in 1..Len(u)
    PROVE  EscapeEnd(u \o r, i) <= Len(u)
<1> DEFINE s == u \o r
<1>1. /\ Len(u) \in Nat /\ Len(r) \in Nat /\ Len(s) = Len(u) + Len(r) /\ s \in Seq(Character)
      /\ DOMAIN u = 1..Len(u) /\ i \in 1..Len(s) /\ NoOsc(s)
      /\ \A k \in 1..Len(u) : s[k] = u[k]
    OBVIOUS
<1>p. \A j \in CsiEnds(u, i) : j \in CsiEnds(s, i) /\ j <= Len(u)
    BY CsiOfAPrefix
<1> HIDE DEF s
<1>2. CASE s[i] # ESC
    <2>1. EscapeEnd(s, i) = 0
        BY <1>2, NoEscape
    <2> QED
        BY <1>1, <2>1 DEF s
<1>3. CASE s[i] = ESC
    <2> DEFINE e == EscapeEnd(s, i)
    <2>1. e \in Nat /\ (e # 0 => e \in Ends(s, i))
        BY <1>1, <1>3, EscapeIs
    <2> HIDE DEF e
    <2>2. /\ i < Len(u)
          /\ u[i + 1] = LBracket => CsiEnds(u, i) # {}
        BY <1>1, <1>3 DEF CutSafely
    <2>3. i + 1 \in 1..Len(u) /\ s[i + 1] = u[i + 1]
        BY <1>1, <2>2
    <2>4. CASE e \in CsiEnds(s, i)
        <3>1. s[i + 1] = LBracket
            BY <2>4 DEF CsiEnds
        <3>2. PICK j : j \in CsiEnds(u, i)
            BY <2>2, <2>3, <3>1
        <3>3. j \in CsiEnds(s, i) /\ j <= Len(u)
            BY <1>p, <3>2
        <3>4. j \in Ends(s, i) /\ e \in Ends(s, i)
            BY <2>4, <3>3 DEF Ends
        <3>5. j = e
            BY <1>1, <3>4, OneEnd
        <3> QED
            BY <3>3, <3>5 DEF e, s
    <2>5. CASE e \in TwoEnds(s, i)
        <3>1. e = i + 1
            BY <2>5 DEF TwoEnds
        <3> QED
            BY <1>1, <2>3, <3>1 DEF e, s
    <2>6. CASE e = 0
        BY <1>1, <2>6 DEF e, s
    <2> QED
        BY <2>1, <2>4, <2>5, <2>6 DEF Ends
<1> QED
    BY <1>2, <1>3

\* No escape sequence has an ESC inside.
LEMMA EscapesAreApart ==
    ASSUME NEW s \in Seq(Character), NoOsc(s), NEW p \in 1..Len(s), s[p] = ESC, NEW i \in 1..p - 1
    PROVE  EscapeEnd(s, i) < p
<1>1. Len(s) \in Nat /\ DOMAIN s = 1..Len(s) /\ i \in 1..Len(s) /\ p \in Nat
    OBVIOUS
<1>2. CASE s[i] # ESC
    <2>1. EscapeEnd(s, i) = 0
        BY <1>2, NoEscape
    <2> QED
        BY <2>1
<1>3. CASE s[i] = ESC
    <2> DEFINE e == EscapeEnd(s, i)
    <2>1. e \in Nat /\ (e # 0 => e \in Ends(s, i))
        BY <1>1, <1>3, EscapeIs
    <2> HIDE DEF e
    <2>c. /\ Class(ESC) # "final" /\ Class(ESC) # "param" /\ Class(ESC) # "upper"
          /\ ESC # LBracket /\ ESC # RBracket /\ ESC # Backslash
        BY DEF ESC, LBracket, RBracket, Backslash, Class
    <2>2. CASE e \in CsiEnds(s, i)
        <3>1. /\ e \in i + 2..Len(s) /\ s[i + 1] = LBracket /\ Class(s[e]) = "final"
              /\ \A k \in i + 2..e - 1 : Class(s[k]) = "param"
            BY <2>2 DEF CsiEnds
        <3>2. p # e /\ p # i + 1 /\ p \notin i + 2..e - 1
            BY <2>c, <3>1
        <3>3. e < p
            BY <1>1, <3>1, <3>2
        <3> QED
            BY <3>3 DEF e
    <2>3. CASE e \in TwoEnds(s, i)
        <3>1. e = i + 1 /\ (s[e] \in {RBracket, Backslash} \/ Class(s[e]) = "upper")
            BY <2>3 DEF TwoEnds
        <3>2. p # e
            BY <2>c, <3>1
        <3>3. e < p
            BY <1>1, <3>1, <3>2
        <3> QED
            BY <3>3 DEF e
    <2>4. CASE e = 0
        <3>1. e < p
            BY <2>4
        <3> QED
            BY <3>1 DEF e
    <2> QED
        BY <2>1, <2>2, <2>3, <2>4 DEF Ends
<1> QED
    BY <1>2, <1>3

\* Max returns the greatest of a non-empty finite set of numbers.
LEMMA MaxIsGreatest ==
    ASSUME NEW n \in Nat, NEW T \in SUBSET (1..n), T # {}
    PROVE  Max(T) \in T /\ \A m \in T : m <= Max(T)
<1> DEFINE U == {k \in 0..n : n - k \in T}
<1>1. U \in SUBSET Nat /\ U # {}
    <2>1. PICK m : m \in T
        OBVIOUS
    <2>2. m \in 1..n
        BY <2>1
    <2>3. n - m \in 0..n /\ n - (n - m) = m
        BY <2>2
    <2>4. n - m \in U
        BY <2>1, <2>3
    <2> QED
        BY <2>4
<1>2. PICK k \in U : \A j \in U : k <= j
    <2> HIDE DEF U
    <2> QED
        BY <1>1, Least
<1>3. ASSUME NEW m \in T
      PROVE  n - k >= m
    <2>1. m \in 1..n /\ n - m \in 0..n /\ n - (n - m) = m
        OBVIOUS
    <2>2. n - m \in U /\ k \in 0..n
        BY <2>1
    <2>3. k <= n - m
        BY <1>2, <2>2
    <2> QED
        BY <2>1, <2>2, <2>3
<1>4. n - k \in T
    OBVIOUS
<1>5. \E x \in T : \A y \in T : x >= y
    BY <1>3, <1>4
<1>6. Max(T) \in T /\ \A y \in T : Max(T) >= y
    BY <1>5 DEF Max
<1>7. \A y \in T : Max(T) \in 1..n /\ y \in 1..n
    BY <1>6
<1> QED
    BY <1>6, <1>7

\* What append strips ends between escape sequences, and what it keeps for
\* later is short and has nothing to strip.
LEMMA SafeLengthIsSafe ==
    ASSUME NEW t \in Seq(Character), NEW b \in Seq(Character), CutSafely(t \o b)
    PROVE  /\ SafeLength(t) \in 0..Len(t)
           /\ CleanCut(t \o b, SafeLength(t))
           /\ Len(t) - SafeLength(t) <= MaxPending
           /\ \A i \in 1..Len(t) - SafeLength(t) :
                 EscapeEnd(SubSeq(t, SafeLength(t) + 1, Len(t)), i) = 0
<1> DEFINE v == t \o b
           n == Len(t)
           escapes == {i \in DOMAIN t : t[i] = ESC}
           last == Max(escapes)
           complete == EscapeEnd(t, last) # 0
           hopeless == n - (last - 1) > MaxPending
           safe == SafeLength(t)
<1>1. /\ n \in Nat /\ Len(b) \in Nat /\ Len(v) = n + Len(b) /\ v \in Seq(Character)
      /\ DOMAIN t = 1..n /\ DOMAIN v = 1..Len(v)
      /\ \A k \in 1..n : v[k] = t[k]
      /\ CutSafely(v)
    OBVIOUS
<1>2. NoOsc(v) /\ NoOsc(t)
    BY <1>1, CutSafelyHasNoOsc, PartsHaveNoOsc
<1>3. \A i \in 1..n : EscapeEnd(t, i) = IF EscapeEnd(v, i) <= n THEN EscapeEnd(v, i) ELSE 0
    BY <1>2, EscapesOfAPrefix
<1>4. safe = IF escapes = {} \/ complete \/ hopeless THEN n ELSE last - 1
    BY DEF SafeLength
<1>m. MaxPending \in Nat \ {0}
    BY BoundsAssumption
<1>5. \A i \in 1..n : i \notin escapes => EscapeEnd(v, i) = 0
    BY <1>1, NoEscape
<1>6. \A i \in 1..Len(v) : EscapeEnd(v, i) \in Nat
    <2>1. \A i \in 1..Len(v) : EscapeEnd(v, i) = 0 \/ EscapeEnd(v, i) \in i + 1..Len(v)
        BY <1>1, EscapesEndInside
    <2>2. \A i \in 1..Len(v) : i + 1..Len(v) \subseteq Nat
        BY <1>1
    <2> QED
        BY <2>1, <2>2
<1> HIDE DEF v, n, safe
<1>7. CASE escapes = {}
    <2>1. safe = n
        BY <1>4, <1>7
    <2>2. CleanCut(v, n)
        BY <1>1, <1>5, <1>7 DEF CleanCut
    <2>3. n - n = 0 /\ 1..0 = {} /\ 0 <= MaxPending /\ n \in 0..n
        BY <1>1, <1>m
    <2> QED
        BY <2>1, <2>2, <2>3 DEF v, n, safe
<1>8. CASE escapes # {}
    <2>1. last \in escapes /\ \A m \in escapes : m <= last
        <3>1. escapes \in SUBSET (1..n)
            BY <1>1
        <3> HIDE DEF escapes
        <3> QED
            BY <1>1, <1>8, <3>1, MaxIsGreatest
    <2>2. last \in 1..n /\ t[last] = ESC /\ v[last] = ESC /\ last \in 1..Len(v)
        BY <1>1, <2>1
    <2> HIDE DEF last
    <2>3. \A i \in 1..last - 1 : EscapeEnd(v, i) < last
        BY <1>1, <1>2, <2>2, EscapesAreApart
    <2>4. \A i \in last + 1..n : i \in 1..n /\ i \notin escapes
        <3>1. \A i \in last + 1..n : i \in 1..n /\ ~(i <= last)
            BY <2>2
        <3> QED
            BY <2>1, <3>1
    <2> HIDE DEF escapes
    <2>5. CASE complete \/ hopeless
        <3>1. safe = n
            BY <1>4, <2>5
        <3>2. EscapeEnd(v, last) <= n
            <4>1. CASE complete
                BY <1>3, <2>2, <4>1
            <4>2. CASE hopeless
                <5> DEFINE e == EscapeEnd(v, last)
                <5>0. MaxPending <= n - last /\ last + 1 <= n /\ last + 1 \in 1..n
                    BY <1>1, <1>m, <2>2, <4>2
                <5>1. e \in Nat /\ \A j \in Nat : j # 0 => (e = j <=> j \in Ends(v, last))
                    BY <1>1, <1>2, <2>2, EscapeIs
                <5> HIDE DEF e
                <5>2. CASE e \in CsiEnds(v, last)
                    <6>1. v[last + 1] = LBracket
                        BY <5>2 DEF CsiEnds
                    <6>2. PICK j \in CsiEnds(v, last) : j - last <= MaxPending
                        BY <1>1, <2>2, <6>1 DEF CutSafely
                    <6>3. j = e
                        BY <1>1, <2>2, <5>2, OneEnd DEF Ends
                    <6>4. j \in last + 1..Len(v)
                        BY <1>1, <2>2, EndsInside
                    <6>5. j <= n
                        BY <1>1, <1>m, <2>2, <5>0, <6>2, <6>4
                    <6> QED
                        BY <6>3, <6>5 DEF e
                <5>3. CASE e \in TwoEnds(v, last)
                    <6>1. e = last + 1
                        BY <5>3 DEF TwoEnds
                    <6> QED
                        BY <5>0, <6>1 DEF e
                <5>4. CASE e = 0
                    BY <1>1, <5>4 DEF e
                <5> QED
                    BY <5>1, <5>2, <5>3, <5>4 DEF Ends
            <4> QED
                BY <2>5, <4>1, <4>2
        <3>3. ASSUME NEW i \in 1..n
              PROVE  EscapeEnd(v, i) <= n
            <4>1. CASE i < last
                <5>1. i \in 1..last - 1 /\ i \in 1..Len(v)
                    BY <1>1, <2>2, <4>1
                <5>2. EscapeEnd(v, i) < last /\ EscapeEnd(v, i) \in Nat
                    BY <1>6, <2>3, <5>1
                <5> QED
                    BY <1>1, <2>2, <5>2
            <4>2. CASE i = last
                BY <3>2, <4>2
            <4>3. CASE i > last
                <5>1. i \in last + 1..n
                    BY <1>1, <2>2, <4>3
                <5>2. EscapeEnd(v, i) = 0
                    BY <1>5, <2>4, <5>1
                <5> QED
                    BY <1>1, <5>2
            <4>4. i < last \/ i = last \/ i > last
                BY <1>1, <2>2
            <4> QED
                BY <4>1, <4>2, <4>3, <4>4
        <3>4. n - n = 0 /\ 1..0 = {} /\ 0 <= MaxPending /\ n \in 0..n
            BY <1>1, <1>m
        <3>5. CleanCut(v, n)
            BY <3>3 DEF CleanCut
        <3> QED
            BY <3>1, <3>4, <3>5 DEF v, n, safe
    <2>6. CASE ~(complete \/ hopeless)
        <3>1. safe = last - 1
            BY <1>4, <1>8, <2>6
        <3>2. safe \in 0..n /\ safe \in Nat /\ safe + 1 = last /\ n - safe <= MaxPending
            BY <1>1, <1>m, <2>2, <2>6, <3>1
        <3>3. CleanCut(v, safe)
            <4>1. ASSUME NEW i \in 1..safe
                  PROVE  EscapeEnd(v, i) <= safe
                <5>1. i \in 1..last - 1 /\ i \in 1..Len(v)
                    BY <1>1, <2>2, <3>1
                <5>2. EscapeEnd(v, i) < last /\ EscapeEnd(v, i) \in Nat
                    BY <1>6, <2>3, <5>1
                <5> QED
                    BY <2>2, <3>2, <5>2
            <4> QED
                BY <4>1 DEF CleanCut
        <3> DEFINE rest == SubSeq(t, safe + 1, n)
                   front == SubSeq(t, 1, safe)
        <3>4. /\ rest \in Seq(Character) /\ Len(rest) = n - safe
              /\ front \in Seq(Character) /\ Len(front) = safe
              /\ \A i \in 1..n - safe : rest[i] = t[safe + i]
            <4>1. \A i \in 1..safe : t[i] \in Character
                BY <1>1, <3>2
            <4>2. \A i \in safe + 1..n : t[i] \in Character
                BY <1>1, <3>2
            <4>3. /\ rest \in Seq(Character)
                  /\ Len(rest) = IF safe + 1 <= n THEN n - (safe + 1) + 1 ELSE 0
                  /\ \A i \in 1..n - (safe + 1) + 1 : rest[i] = t[safe + 1 + i - 1]
                BY <3>2, <4>2, <1>1, SubSeqProperties
            <4>4. /\ front \in Seq(Character)
                  /\ Len(front) = IF 1 <= safe THEN safe - 1 + 1 ELSE 0
                BY <3>2, <4>1, <1>1, SubSeqProperties
            <4>5. n - (safe + 1) + 1 = n - safe /\ safe + 1 <= n
                BY <1>1, <2>2, <3>2
            <4>6. \A i \in 1..n - safe : safe + 1 + i - 1 = safe + i
                BY <3>2
            <4>7. (IF 1 <= safe THEN safe - 1 + 1 ELSE 0) = safe
                BY <3>2
            <4> HIDE DEF rest, front
            <4> QED
                BY <4>3, <4>4, <4>5, <4>6, <4>7
        <3>5. front \o rest = t
            <4>1. front \o rest = SubSeq(t, 1, n)
                <5>1. 1 \in 1..n + 1 /\ safe \in 1 - 1..n /\ n \in safe..n
                    BY <1>1, <3>2
                <5> QED
                    BY <5>1, <1>1, ConcatAdjacentSubSeq DEF n
            <4>2. SubSeq(t, 1, n) = t
                BY SubSeqFull DEF n
            <4> QED
                BY <4>1, <4>2
        <3> HIDE DEF rest, front
        <3>6. ASSUME NEW i \in 1..n - safe
              PROVE  EscapeEnd(rest, i) = 0
            <4>1. CASE i = 1
                <5>1. NoOsc(front \o rest)
                    BY <1>2, <3>5
                <5>2. i \in 1..Len(rest)
                    BY <3>4
                <5>3. EscapeEnd(t, safe + i)
                        = IF EscapeEnd(rest, i) = 0 THEN 0 ELSE safe + EscapeEnd(rest, i)
                    BY <3>4, <3>5, <5>1, <5>2, EscapesOfASuffix
                <5>4. EscapeEnd(t, safe + i) = 0
                    BY <2>6, <3>2, <4>1
                <5>5. EscapeEnd(rest, i) = 0 \/ EscapeEnd(rest, i) \in i + 1..Len(rest)
                    BY <3>4, <5>2, EscapesEndInside
                <5>6. EscapeEnd(rest, i) \in i + 1..Len(rest) => safe + EscapeEnd(rest, i) # 0
                    BY <3>2, <3>4
                <5> QED
                    BY <5>3, <5>4, <5>5, <5>6
            <4>2. CASE i # 1
                <5>1. safe + i \in last + 1..n
                    BY <1>1, <2>2, <3>2, <4>2
                <5>2. safe + i \notin escapes /\ safe + i \in 1..n
                    BY <2>4, <5>1
                <5>3. rest[i] # ESC
                    BY <1>1, <3>4, <5>2 DEF escapes
                <5> QED
                    BY <5>3, NoEscape
            <4> QED
                BY <4>1, <4>2
        <3> QED
            BY <3>2, <3>3, <3>6 DEF v, n, safe, rest
    <2> QED
        BY <2>5, <2>6
<1> QED
    BY <1>7, <1>8

-----------------------------------------------------------------------------
(* Dropping from the front of a sequence *)

\* What is left of a sequence without its first characters.
LEMMA DroppedIs ==
    ASSUME NEW S, NEW x \in Seq(S), NEW g \in 0..Len(x)
    PROVE  /\ SubSeq(x, g + 1, Len(x)) \in Seq(S)
           /\ Len(SubSeq(x, g + 1, Len(x))) = Len(x) - g
           /\ \A i \in 1..Len(x) - g : SubSeq(x, g + 1, Len(x))[i] = x[g + i]
<1> DEFINE n == Len(x)
<1>1. n \in Nat /\ \A i \in 1..n : x[i] \in S
    OBVIOUS
<1> HIDE DEF n
<1>2. g \in 0..n /\ g + 1 \in Int /\ n \in Int
    BY <1>1 DEF n
<1>3. \A i \in g + 1..n : x[i] \in S
    BY <1>1, <1>2
<1>4. /\ SubSeq(x, g + 1, n) \in Seq(S)
      /\ Len(SubSeq(x, g + 1, n)) = IF g + 1 <= n THEN n - (g + 1) + 1 ELSE 0
      /\ \A i \in 1..n - (g + 1) + 1 : SubSeq(x, g + 1, n)[i] = x[g + 1 + i - 1]
    BY <1>2, <1>3, SubSeqProperties
<1>5. n - (g + 1) + 1 = n - g /\ (IF g + 1 <= n THEN n - (g + 1) + 1 ELSE 0) = n - g
    BY <1>1, <1>2
<1>6. \A i \in 1..n - g : g + 1 + i - 1 = g + i
    BY <1>1, <1>2
<1> QED
    BY <1>4, <1>5, <1>6 DEF n

\* A front stays a front.
LEMMA FrontAndRest ==
    ASSUME NEW S, NEW x \in Seq(S), NEW g \in 0..Len(x)
    PROVE  /\ SubSeq(x, 1, g) \in Seq(S) /\ Len(SubSeq(x, 1, g)) = g
           /\ SubSeq(x, 1, g) \o SubSeq(x, g + 1, Len(x)) = x
<1> DEFINE n == Len(x)
<1>1. n \in Nat /\ \A i \in 1..n : x[i] \in S
    OBVIOUS
<1>2. SubSeq(x, 1, n) = x
    BY SubSeqFull
<1> HIDE DEF n
<1>3. g \in 0..n /\ g \in Int /\ 1 \in Int /\ \A i \in 1..g : x[i] \in S
    BY <1>1 DEF n
<1>4. /\ SubSeq(x, 1, g) \in Seq(S)
      /\ Len(SubSeq(x, 1, g)) = IF 1 <= g THEN g - 1 + 1 ELSE 0
    BY <1>3, SubSeqProperties
<1>5. (IF 1 <= g THEN g - 1 + 1 ELSE 0) = g
    BY <1>1, <1>3
<1>6. 1 \in 1..n + 1 /\ g \in 1 - 1..n /\ n \in g..n
    BY <1>1, <1>3
<1>7. SubSeq(x, 1, g) \o SubSeq(x, g + 1, n) = SubSeq(x, 1, n)
    BY <1>6, ConcatAdjacentSubSeq DEF n
<1> DEFINE front == SubSeq(x, 1, g)
<1>8. front \in Seq(S) /\ Len(front) = g
    <2>1. front \in Seq(S) /\ Len(front) = IF 1 <= g THEN g - 1 + 1 ELSE 0
        BY <1>4
    <2> HIDE DEF front
    <2> QED
        BY <1>5, <2>1
<1>9. front \o SubSeq(x, g + 1, n) = x
    BY <1>2, <1>7
<1> QED
    BY <1>8, <1>9 DEF n

\* Dropping from the front and appending at the end do not disturb each other.
LEMMA DropThenConcat ==
    ASSUME NEW S, NEW x \in Seq(S), NEW y \in Seq(S), NEW g \in 0..Len(x)
    PROVE  SubSeq(x, g + 1, Len(x)) \o y = SubSeq(x \o y, g + 1, Len(x \o y))
<1> DEFINE d == SubSeq(x, g + 1, Len(x))
           xy == x \o y
           e == SubSeq(xy, g + 1, Len(xy))
<1>1. d \in Seq(S) /\ Len(d) = Len(x) - g /\ \A i \in 1..Len(x) - g : d[i] = x[g + i]
    BY DroppedIs
<1>2. /\ xy \in Seq(S) /\ Len(xy) = Len(x) + Len(y) /\ Len(x) \in Nat /\ Len(y) \in Nat
      /\ \A i \in 1..Len(x) : xy[i] = x[i]
      /\ \A i \in 1..Len(y) : xy[Len(x) + i] = y[i]
    OBVIOUS
<1> HIDE DEF xy, d
<1>3. g \in 0..Len(xy) /\ g \in Nat /\ g <= Len(x)
    BY <1>2
<1>4. e \in Seq(S) /\ Len(e) = Len(xy) - g /\ \A i \in 1..Len(xy) - g : e[i] = xy[g + i]
    BY <1>2, <1>3, DroppedIs
<1>5. /\ d \o y \in Seq(S) /\ Len(d \o y) = Len(d) + Len(y)
      /\ \A i \in 1..Len(d) + Len(y) : (d \o y)[i] = IF i <= Len(d) THEN d[i] ELSE y[i - Len(d)]
    BY <1>1, ConcatProperties
<1> HIDE DEF e
<1> DEFINE dy == d \o y
<1>6. dy \in Seq(S) /\ Len(dy) = Len(e)
    BY <1>1, <1>2, <1>3, <1>4, <1>5
<1>7. ASSUME NEW i \in 1..Len(dy)
      PROVE  dy[i] = e[i]
    <2>1. i \in 1..Len(xy) - g /\ i \in 1..Len(d) + Len(y)
        BY <1>4, <1>5, <1>6
    <2>2. CASE i <= Len(d)
        <3>1. i \in 1..Len(x) - g /\ g + i \in 1..Len(x)
            BY <1>1, <1>2, <1>3, <2>1, <2>2
        <3> QED
            BY <1>1, <1>2, <1>4, <1>5, <2>1, <2>2, <3>1
    <2>3. CASE ~(i <= Len(d))
        <3>1. i - Len(d) \in 1..Len(y) /\ g + i = Len(x) + (i - Len(d))
            BY <1>1, <1>2, <1>3, <2>1, <2>3
        <3> QED
            BY <1>2, <1>4, <1>5, <2>1, <2>3, <3>1
    <2> QED
        BY <2>2, <2>3
<1>8. dy = e
    <2> HIDE DEF dy
    <2> QED
        BY <1>4, <1>6, <1>7, SeqEqual
<1> QED
    BY <1>8 DEF d, e, xy

\* Dropping twice is dropping once as many.
LEMMA DropTwice ==
    ASSUME NEW S, NEW x \in Seq(S), NEW g \in 0..Len(x), NEW h \in 0..Len(x) - g
    PROVE  LET d == SubSeq(x, g + 1, Len(x))
           IN  SubSeq(d, h + 1, Len(d)) = SubSeq(x, g + h + 1, Len(x))
<1> DEFINE d == SubSeq(x, g + 1, Len(x))
           e == SubSeq(d, h + 1, Len(d))
           f == SubSeq(x, (g + h) + 1, Len(x))
<1>1. d \in Seq(S) /\ Len(d) = Len(x) - g /\ \A i \in 1..Len(x) - g : d[i] = x[g + i]
    BY DroppedIs
<1>2. Len(x) \in Nat /\ g + h \in 0..Len(x) /\ g \in Nat /\ h \in Nat /\ h \in 0..Len(d)
    BY <1>1
<1> HIDE DEF d
<1>3. e \in Seq(S) /\ Len(e) = Len(d) - h /\ \A i \in 1..Len(d) - h : e[i] = d[h + i]
    BY <1>1, <1>2, DroppedIs
<1>4. f \in Seq(S) /\ Len(f) = Len(x) - (g + h) /\ \A i \in 1..Len(x) - (g + h) : f[i] = x[(g + h) + i]
    BY <1>2, DroppedIs
<1> HIDE DEF e, f
<1>5. Len(e) = Len(f)
    BY <1>1, <1>2, <1>3, <1>4
<1>6. ASSUME NEW i \in 1..Len(e)
      PROVE  e[i] = f[i]
    <2>1. i \in 1..Len(d) - h /\ h + i \in 1..Len(x) - g /\ i \in 1..Len(x) - (g + h) /\ g + (h + i) = (g + h) + i
        BY <1>1, <1>2, <1>3
    <2> QED
        BY <1>1, <1>3, <1>4, <2>1
<1>7. e = f
    BY <1>3, <1>4, <1>5, <1>6, SeqEqual
<1> QED
    BY <1>7 DEF d, e, f

-----------------------------------------------------------------------------
(* What a transcript holds *)

\* Of h, the part a has been stripped, and g characters of that are gone; r is
\* what the process will still print.
Accounts(a, h, r, t, g) ==
    /\ a \in Seq(Character) /\ h \in Seq(Character) /\ r \in Seq(Character)
    /\ t \in [text : Seq(Character), tail : Seq(Character)]
    /\ h = a \o t.tail
    /\ CutSafely(h \o r)
    /\ CleanCut(h \o r, Len(a))
    /\ Len(t.text) <= MaxBuffer
    /\ Len(t.tail) <= MaxPending
    /\ \A i \in 1..Len(t.tail) : EscapeEnd(t.tail, i) = 0
    /\ g \in 0..Len(Strip(a))
    /\ t.text = SubSeq(Strip(a), g + 1, Len(Strip(a)))

\* A transcript with an account has lost nothing: this is NothingLost for its lane.
LEMMA AccountsForAll ==
    ASSUME NEW a, NEW h, NEW r, NEW t, NEW g, Accounts(a, h, r, t, g)
    PROVE  t.text \o t.tail = SubSeq(Strip(h), g + 1, Len(Strip(h)))
<1> DEFINE w == t.tail
           V == Strip(a)
<1>1. /\ a \in Seq(Character) /\ w \in Seq(Character) /\ r \in Seq(Character) /\ h \in Seq(Character)
      /\ h = a \o w /\ CutSafely(h \o r) /\ CleanCut(h \o r, Len(a))
      /\ \A i \in 1..Len(w) : EscapeEnd(w, i) = 0
      /\ g \in 0..Len(V) /\ t.text = SubSeq(V, g + 1, Len(V))
    BY DEF Accounts
<1>2. V \in Seq(Character) /\ h \o r \in Seq(Character)
    BY <1>1, StripType, ConcatProperties
<1>3. NoOsc(h \o r) /\ NoOsc(h)
    <2>1. NoOsc(h \o r)
        BY <1>1, <1>2, CutSafelyHasNoOsc
    <2> QED
        BY <1>1, <2>1, PartsHaveNoOsc
<1> HIDE DEF w, V
<1>4. CleanCut(h, Len(a))
    <2>1. Len(a) \in Nat /\ Len(h) \in Nat /\ Len(a) <= Len(h)
        BY <1>1, ConcatProperties, LenProperties
    <2>2. \A i \in 1..Len(h) : EscapeEnd(h, i) = IF EscapeEnd(h \o r, i) <= Len(h) THEN EscapeEnd(h \o r, i) ELSE 0
        BY <1>1, <1>3, EscapesOfAPrefix
    <2>3. \A i \in 1..Len(a) : i \in 1..Len(h)
        BY <2>1
    <2>4. ASSUME NEW i \in 1..Len(a)
          PROVE  EscapeEnd(h, i) <= Len(a)
        <3>1. EscapeEnd(h \o r, i) <= Len(a)
            BY <1>1 DEF CleanCut
        <3>2. EscapeEnd(h, i) = EscapeEnd(h \o r, i) \/ EscapeEnd(h, i) = 0
            BY <2>2, <2>3
        <3>3. 0 <= Len(a)
            BY <2>1
        <3> QED
            BY <3>1, <3>2, <3>3
    <2> QED
        BY <2>4 DEF CleanCut
<1>5. Strip(w) = w
    BY <1>1, NothingToStrip
<1>6. Strip(h) = V \o w
    <2>1. NoOsc(a \o w) /\ CleanCut(a \o w, Len(a))
        BY <1>1, <1>3, <1>4
    <2> QED
        BY <1>1, <1>5, <2>1, StripSplits DEF V
<1>7. SubSeq(V, g + 1, Len(V)) \o w = SubSeq(V \o w, g + 1, Len(V \o w))
    BY <1>1, <1>2, DropThenConcat
<1> QED
    BY <1>1, <1>6, <1>7 DEF w

\* The transcript of a terminal that is opened.
LEMMA FirstAccount ==
    ASSUME NEW r \in Seq(Character), CutSafely(r)
    PROVE  Accounts(<<>>, <<>>, r, Empty, 0)
<1>1. /\ <<>> \in Seq(Character) /\ <<>> \o r = r /\ Len(<<>>) = 0
      /\ <<>> = <<>> \o <<>>
    BY ConcatEmptySeq
<1>2. MaxPending \in Nat /\ MaxBuffer \in Nat
    BY BoundsAssumption
<1>3. Strip(<<>>) = <<>>
    <2>1. \A i \in 1..Len(<<>>) : EscapeEnd(<<>>, i) = 0
        BY <1>1
    <2> QED
        BY <1>1, <2>1, NothingToStrip
<1>4. SubSeq(<<>>, 0 + 1, 0) = <<>>
    BY SubSeqEmpty
<1>5. CleanCut(<<>> \o r, Len(<<>>))
    BY <1>1 DEF CleanCut
<1> QED
    BY <1>1, <1>2, <1>3, <1>4, <1>5 DEF Accounts, Empty

\* Clearing a transcript starts its account anew.
LEMMA ClearedAccount ==
    ASSUME NEW a, NEW h, NEW r, NEW t, NEW g, Accounts(a, h, r, t, g)
    PROVE  Accounts(<<>>, <<>>, r, Empty, 0)
BY CutSafelySuffix, FirstAccount DEF Accounts

\* What is typed is answered in addition to what is still to be printed.
LEMMA AnsweredAccount ==
    ASSUME NEW a, NEW h, NEW r, NEW t, NEW g, Accounts(a, h, r, t, g),
           NEW x \in Seq(Character), CutSafely(x)
    PROVE  Accounts(a, h, r \o x, t, g)
<1> DEFINE u == h \o r
<1>1. /\ h \in Seq(Character) /\ r \in Seq(Character) /\ a \in Seq(Character)
      /\ CutSafely(u) /\ CleanCut(u, Len(a)) /\ h = a \o t.tail /\ t.tail \in Seq(Character)
    BY DEF Accounts
<1>2. u \in Seq(Character) /\ r \o x \in Seq(Character) /\ h \o (r \o x) = u \o x
    <2>1. u \in Seq(Character) /\ r \o x \in Seq(Character)
        BY <1>1, ConcatProperties
    <2>2. (h \o r) \o x = h \o (r \o x)
        <3>1. h \in Seq(Character) /\ r \in Seq(Character)
            BY <1>1
        <3> QED
            BY <3>1, Associative, Zenon
    <2> QED
        BY <2>1, <2>2
<1>3. Len(a) \in Nat /\ Len(u) \in Nat /\ Len(a) <= Len(u)
    BY <1>1, ConcatProperties, LenProperties
<1> HIDE DEF u
<1>4. CutSafely(u \o x)
    BY <1>1, <1>2, CutSafelyConcat
<1>5. u \o x \in Seq(Character)
    BY <1>2, ConcatProperties
<1>6. NoOsc(u \o x)
    BY <1>4, <1>5, CutSafelyHasNoOsc
<1>7. \A i \in 1..Len(u) : EscapeEnd(u \o x, i) <= Len(u)
    BY <1>1, <1>2, <1>6, NothingCompletedLater
<1>8. \A i \in 1..Len(u) :
         EscapeEnd(u, i) = IF EscapeEnd(u \o x, i) <= Len(u) THEN EscapeEnd(u \o x, i) ELSE 0
    BY <1>2, <1>6, EscapesOfAPrefix
<1>9. CleanCut(u \o x, Len(a))
    <2>1. \A i \in 1..Len(a) : i \in 1..Len(u)
        BY <1>3
    <2> QED
        BY <1>1, <1>7, <1>8, <2>1 DEF CleanCut
<1> QED
    BY <1>2, <1>4, <1>9 DEF Accounts

\* Dropping k more characters from the front of the text.
LEMMA DroppedAccount ==
    ASSUME NEW a, NEW h, NEW r, NEW t, NEW g, Accounts(a, h, r, t, g), NEW k \in 0..Len(t.text)
    PROVE  Accounts(a, h, r, [t EXCEPT !.text = SubSeq(@, k + 1, Len(@))], g + k)
<1> DEFINE V == Strip(a)
           w == SubSeq(t.text, k + 1, Len(t.text))
           t1 == [t EXCEPT !.text = SubSeq(@, k + 1, Len(@))]
<1>1. /\ t \in [text : Seq(Character), tail : Seq(Character)] /\ a \in Seq(Character)
      /\ g \in 0..Len(V) /\ t.text = SubSeq(V, g + 1, Len(V)) /\ Len(t.text) <= MaxBuffer
    BY DEF Accounts
<1>2. V \in Seq(Character)
    BY <1>1, StripType
<1>3. t1.text = w /\ t1.tail = t.tail /\ t1 = [text |-> w, tail |-> t.tail]
    <2>1. t1 = [t EXCEPT !.text = w]
        OBVIOUS
    <2> HIDE DEF w, t1
    <2>2. t = [text |-> t.text, tail |-> t.tail]
        BY <1>1
    <2> QED
        BY <2>1, <2>2
<1>4. t.text \in Seq(Character) /\ t.tail \in Seq(Character) /\ MaxBuffer \in Nat
    BY <1>1, BoundsAssumption
<1>5. w \in Seq(Character) /\ Len(w) = Len(t.text) - k
    BY <1>4, DroppedIs
<1> HIDE DEF V, t1
<1>6. Len(t.text) = Len(V) - g /\ Len(V) \in Nat
    BY <1>1, <1>2, DroppedIs
<1>7. w = SubSeq(V, g + k + 1, Len(V))
    <2>1. k \in 0..Len(V) - g
        BY <1>6
    <2> QED
        BY <1>1, <1>2, <2>1, DropTwice
<1>8. g + k \in 0..Len(V)
    BY <1>1, <1>6
<1>9. Len(w) <= MaxBuffer
    BY <1>1, <1>4, <1>5
<1> HIDE DEF w
<1>10. t1 \in [text : Seq(Character), tail : Seq(Character)]
    BY <1>3, <1>4, <1>5
<1> QED
    BY <1>3, <1>7, <1>8, <1>9, <1>10 DEF Accounts, V, t1

\* A chunk that arrives.
LEMMA FedAccount ==
    ASSUME NEW a, NEW h, NEW t, NEW g, NEW c \in Seq(Character), NEW r \in Seq(Character),
           Accounts(a, h, c \o r, t, g)
    PROVE  \E b : Accounts(b, h \o c, r, Feed(t, c), g + Excess(Stripped(t, c)))
<1> DEFINE w == t.tail
           full == w \o c
           n == Len(full)
           safe == SafeLength(full)
           front == SubSeq(full, 1, safe)
           rest == SubSeq(full, safe + 1, n)
           b == a \o front
           u == h \o (c \o r)
           V == Strip(a)
           P == Strip(front)
           text == Stripped(t, c)
           ex == Excess(text)
           kept == SubSeq(text, ex + 1, Len(text))
<1>1. /\ a \in Seq(Character) /\ w \in Seq(Character) /\ h \in Seq(Character)
      /\ h = a \o w /\ CutSafely(u) /\ CleanCut(u, Len(a))
      /\ g \in 0..Len(V) /\ t.text = SubSeq(V, g + 1, Len(V))
    BY DEF Accounts
<1>2. MaxPending \in Nat /\ MaxBuffer \in Nat
    BY BoundsAssumption
<1>3. text = t.text \o P
    BY DEF Stripped
<1>4. Feed(t, c) = [text |-> kept, tail |-> rest]
    BY DEF Feed
<1>5. ex = IF Len(text) > MaxBuffer THEN Len(text) - MaxBuffer ELSE 0
    BY DEF Excess
<1> HIDE DEF w, u, V, P, text, ex, kept
<1>6. full \in Seq(Character) /\ n \in Nat
    BY <1>1, ConcatProperties, LenProperties
<1>7. h \o c = a \o full /\ u = a \o (full \o r) /\ u = (h \o c) \o r
    <2>1. w \in Seq(Character) /\ a \in Seq(Character) /\ c \in Seq(Character) /\ r \in Seq(Character)
        BY <1>1
    <2>2. (a \o w) \o c = a \o (w \o c)
        BY <2>1, Associative, Zenon
    <2>3. /\ (a \o w) \o (c \o r) = a \o ((w \o c) \o r)
          /\ ((a \o w) \o c) \o r = (a \o w) \o (c \o r)
        <3>1. a \in Seq(Character)
            BY <2>1
        <3>2. w \in Seq(Character)
            BY <2>1
        <3> DEFINE wc == w \o c
                   cr == c \o r
                   aw == a \o w
        <3>3. wc \in Seq(Character) /\ cr \in Seq(Character) /\ aw \in Seq(Character)
            BY <3>1, <3>2, ConcatProperties
        <3>4. wc \o r = w \o cr
            BY <3>2, Associative, Zenon
        <3>5. aw \o cr = a \o (w \o cr)
            <4> HIDE DEF cr
            <4> QED
                BY <3>1, <3>2, <3>3, Associative, Zenon
        <3>6. (aw \o c) \o r = aw \o cr
            <4> HIDE DEF aw
            <4> QED
                BY <3>3, Associative, Zenon
        <3> QED
            BY <3>4, <3>5, <3>6
    <2> QED
        BY <1>1, <2>2, <2>3 DEF u
<1> HIDE DEF full
<1>8. full \o r \in Seq(Character) /\ u \in Seq(Character)
    BY <1>1, <1>6, <1>7, ConcatProperties
<1>9. CutSafely(full \o r)
    BY <1>1, <1>7, <1>8, CutSafelySuffix
<1>10. /\ safe \in 0..n
       /\ CleanCut(full \o r, safe)
       /\ n - safe <= MaxPending
       /\ \A i \in 1..n - safe : EscapeEnd(rest, i) = 0
    BY <1>6, <1>9, SafeLengthIsSafe
<1> HIDE DEF safe
<1>11. /\ front \in Seq(Character) /\ Len(front) = safe
       /\ front \o rest = full
    BY <1>6, <1>10, FrontAndRest
<1>12. rest \in Seq(Character) /\ Len(rest) = n - safe
    BY <1>6, <1>10, DroppedIs
<1> HIDE DEF front, rest
<1>13. b \in Seq(Character) /\ Len(b) = Len(a) + safe /\ Len(a) \in Nat /\ safe \in Nat
    <2>1. b \in Seq(Character) /\ Len(b) = Len(a) + Len(front)
        BY <1>1, <1>11, ConcatProperties
    <2>2. Len(a) \in Nat /\ safe \in Nat
        BY <1>1, <1>6, <1>10, LenProperties
    <2> QED
        BY <1>11, <2>1, <2>2
<1>14. h \o c = b \o rest /\ h \o c \in Seq(Character)
    <2>1. a \in Seq(Character) /\ front \in Seq(Character) /\ rest \in Seq(Character)
        BY <1>1, <1>11, <1>12
    <2>2. (a \o front) \o rest = a \o (front \o rest)
        BY <2>1, Associative, Zenon
    <2>3. h \o c = b \o rest
        BY <1>7, <1>11, <2>2
    <2>4. h \o c \in Seq(Character)
        BY <1>1, ConcatProperties
    <2> QED
        BY <2>3, <2>4
<1>15. NoOsc(u)
    BY <1>1, <1>8, CutSafelyHasNoOsc
<1>16. CleanCut(u, Len(b))
    <2> DEFINE v == full \o r
    <2>1. \A j \in 1..Len(v) : EscapeEnd(a \o v, Len(a) + j) = IF EscapeEnd(v, j) = 0 THEN 0 ELSE Len(a) + EscapeEnd(v, j)
        <3>1. v \in Seq(Character) /\ NoOsc(a \o v)
            BY <1>7, <1>8, <1>15
        <3> HIDE DEF v
        <3> QED
            BY <1>1, <3>1, EscapesOfASuffix
    <2>2. safe <= Len(v) /\ Len(v) \in Nat
        <3>1. Len(v) = n + Len(r) /\ Len(r) \in Nat
            BY <1>6, ConcatProperties, LenProperties
        <3> QED
            BY <1>6, <1>10, <3>1
    <2>3. \A j \in 1..safe : EscapeEnd(v, j) <= safe
        BY <1>10 DEF CleanCut
    <2>9. u = a \o v
        BY <1>7
    <2> HIDE DEF v
    <2>v. v \in Seq(Character)
        BY <1>8 DEF v
    <2>4. ASSUME NEW i \in 1..Len(b)
          PROVE  EscapeEnd(u, i) <= Len(b)
        <3>1. CASE i <= Len(a)
            <4>1. i \in 1..Len(a)
                BY <1>13, <3>1
            <4>2. EscapeEnd(u, i) <= Len(a)
                BY <1>1, <4>1 DEF CleanCut
            <4>3. i \in 1..Len(u)
                <5>1. Len(u) = Len(a) + Len(v)
                    BY <1>1, <2>9, <2>v, ConcatProperties
                <5> QED
                    BY <1>13, <2>2, <4>1, <5>1
            <4>4. EscapeEnd(u, i) = 0 \/ EscapeEnd(u, i) \in i + 1..Len(u)
                BY <1>8, <4>3, EscapesEndInside
            <4> DEFINE e == EscapeEnd(u, i)
            <4>5. e \in Int /\ e <= Len(a)
                <5>1. i + 1..Len(u) \subseteq Int
                    OBVIOUS
                <5> QED
                    BY <4>2, <4>4, <5>1
            <4> HIDE DEF e
            <4>6. e <= Len(b)
                BY <1>13, <4>5
            <4> QED
                BY <4>6 DEF e
        <3>2. CASE ~(i <= Len(a))
            <4> DEFINE j == i - Len(a)
            <4>1. j \in 1..safe /\ j \in 1..Len(v) /\ Len(a) + j = i
                BY <1>13, <2>2, <3>2
            <4> HIDE DEF j
            <4> DEFINE e == EscapeEnd(v, j)
            <4>2. EscapeEnd(u, i) = IF e = 0 THEN 0 ELSE Len(a) + e
                BY <2>1, <2>9, <4>1
            <4>3. e <= safe
                BY <2>3, <4>1
            <4>4. e \in Int
                <5>1. e = 0 \/ e \in j + 1..Len(v)
                    BY <2>v, <4>1, EscapesEndInside
                <5>2. j + 1..Len(v) \subseteq Int
                    OBVIOUS
                <5> QED
                    BY <5>1, <5>2
            <4> HIDE DEF e
            <4> QED
                BY <1>13, <4>2, <4>3, <4>4
        <3> QED
            BY <3>1, <3>2
    <2> QED
        BY <2>4 DEF CleanCut
<1>17. Strip(b) = V \o P
    <2>1. NoOsc(b) /\ CleanCut(b, Len(a))
        <3>1. u = b \o (rest \o r) /\ rest \o r \in Seq(Character)
            <4>1. b \in Seq(Character) /\ rest \in Seq(Character)
                BY <1>12, <1>13
            <4> HIDE DEF b
            <4>2. (b \o rest) \o r = b \o (rest \o r)
                BY <4>1, Associative, Zenon
            <4>3. u = b \o (rest \o r)
                BY <1>7, <1>14, <4>2
            <4>4. rest \o r \in Seq(Character)
                BY <4>1, ConcatProperties
            <4> QED
                BY <4>3, <4>4
        <3> DEFINE z == rest \o r
        <3> HIDE DEF z
        <3>2. z \in Seq(Character) /\ NoOsc(b \o z) /\ u = b \o z
            BY <1>15, <3>1 DEF z
        <3>3. NoOsc(b)
            BY <1>13, <3>2, PartsHaveNoOsc
        <3>4. \A i \in 1..Len(b) : EscapeEnd(b, i) = IF EscapeEnd(b \o z, i) <= Len(b) THEN EscapeEnd(b \o z, i) ELSE 0
            BY <1>13, <3>2, EscapesOfAPrefix
        <3>5. ASSUME NEW i \in 1..Len(a)
              PROVE  EscapeEnd(b, i) <= Len(a)
            <4>1. i \in 1..Len(b)
                BY <1>13
            <4>2. EscapeEnd(u, i) <= Len(a)
                BY <1>1 DEF CleanCut
            <4>3. EscapeEnd(b, i) = EscapeEnd(u, i) \/ EscapeEnd(b, i) = 0
                BY <3>2, <3>4, <4>1
            <4>4. 0 <= Len(a)
                BY <1>13
            <4> QED
                BY <4>2, <4>3, <4>4
        <3> QED
            BY <3>3, <3>5 DEF CleanCut
    <2> QED
        BY <1>1, <1>11, <2>1, StripSplits DEF V, P
<1>18. V \in Seq(Character) /\ P \in Seq(Character)
    BY <1>1, <1>11, StripType DEF V, P
<1> HIDE DEF b
<1> DEFINE VP == V \o P
<1>19. text = SubSeq(VP, g + 1, Len(VP))
    BY <1>1, <1>3, <1>18, DropThenConcat
<1>20. VP \in Seq(Character) /\ g \in 0..Len(VP) /\ Len(VP) \in Nat
    <2>1. VP \in Seq(Character) /\ Len(VP) = Len(V) + Len(P) /\ Len(V) \in Nat /\ Len(P) \in Nat
        BY <1>18, ConcatProperties, LenProperties
    <2> QED
        BY <1>1, <2>1
<1>v. Strip(b) = VP
    BY <1>17
<1> HIDE DEF VP
<1>21. text \in Seq(Character) /\ Len(text) = Len(VP) - g
    BY <1>19, <1>20, DroppedIs
<1>22. ex \in 0..Len(text) /\ Len(text) - ex <= MaxBuffer /\ Len(text) \in Nat
    BY <1>2, <1>5, <1>20, <1>21
<1>23. kept \in Seq(Character) /\ Len(kept) = Len(text) - ex
    BY <1>21, <1>22, DroppedIs DEF kept
<1>24. kept = SubSeq(VP, g + ex + 1, Len(VP))
    <2>1. ex \in 0..Len(VP) - g
        BY <1>21, <1>22
    <2> QED
        BY <1>19, <1>20, <2>1, DropTwice DEF kept
<1>25. g + ex \in 0..Len(VP)
    BY <1>20, <1>21, <1>22
<1> DEFINE F == [text |-> kept, tail |-> rest]
<1>26. /\ F \in [text : Seq(Character), tail : Seq(Character)] /\ F.text = kept /\ F.tail = rest
    BY <1>12, <1>23
<1> HIDE DEF F
<1>27. CutSafely((h \o c) \o r) /\ CleanCut((h \o c) \o r, Len(b))
    BY <1>1, <1>7, <1>16
<1>28. Len(kept) <= MaxBuffer /\ Len(rest) <= MaxPending
    BY <1>10, <1>12, <1>22, <1>23
<1>29. \A i \in 1..Len(rest) : EscapeEnd(rest, i) = 0
    BY <1>10, <1>12
<1>30. Accounts(b, h \o c, r, F, g + ex)
    BY <1>v, <1>13, <1>14, <1>24, <1>25, <1>26, <1>27, <1>28, <1>29 DEF Accounts
<1>31. Accounts(b, h \o c, r, Feed(t, c), g + Excess(Stripped(t, c)))
    BY <1>4, <1>30 DEF F, ex, text
<1> QED
    BY <1>31

\* A match is taken from the front of the text.
LEMMA TakenAccount ==
    ASSUME NEW a, NEW h, NEW r, NEW t, NEW g, Accounts(a, h, r, t, g),
           NEW pattern, Hits(t, pattern) # {}
    PROVE  Accounts(a, h, r, TakeMatch(t, pattern), g + Len(TextThrough(t, pattern)))
<1> DEFINE k == Min(Hits(t, pattern))
<1>1. t.text \in Seq(Character) /\ DOMAIN t.text = 1..Len(t.text) /\ Len(t.text) \in Nat
    <2>1. t.text \in Seq(Character)
        BY DEF Accounts
    <2> QED
        BY <2>1
<1>2. Hits(t, pattern) \in SUBSET Nat /\ Hits(t, pattern) \subseteq 1..Len(t.text)
    BY <1>1 DEF Hits
<1>3. k \in 1..Len(t.text)
    BY <1>2, MinIsLeast
<1>4. TakeMatch(t, pattern) = [t EXCEPT !.text = SubSeq(@, k + 1, Len(@))]
    BY DEF TakeMatch
<1>5. TextThrough(t, pattern) = SubSeq(t.text, 1, k)
    BY DEF TextThrough
<1> HIDE DEF k
<1>6. k \in 0..Len(t.text)
    BY <1>1, <1>3
<1>7. Len(SubSeq(t.text, 1, k)) = k
    BY <1>1, <1>6, FrontAndRest
<1>8. Accounts(a, h, r, [t EXCEPT !.text = SubSeq(@, k + 1, Len(@))], g + k)
    BY <1>6, DroppedAccount
<1> QED
    BY <1>4, <1>5, <1>7, <1>8

\* A wait that ends without a match takes all the text.
LEMMA EmptiedAccount ==
    ASSUME NEW a, NEW h, NEW r, NEW t, NEW g, Accounts(a, h, r, t, g)
    PROVE  Accounts(a, h, r, [t EXCEPT !.text = <<>>], g + Len(t.text))
<1>1. t.text \in Seq(Character) /\ Len(t.text) \in Nat
    BY DEF Accounts
<1>2. Len(t.text) \in 0..Len(t.text)
    BY <1>1
<1>3. SubSeq(t.text, Len(t.text) + 1, Len(t.text)) = <<>>
    BY <1>1, SubSeqEmpty
<1>4. Accounts(a, h, r, [t EXCEPT !.text = SubSeq(@, Len(t.text) + 1, Len(@))], g + Len(t.text))
    BY <1>2, DroppedAccount
<1> QED
    BY <1>3, <1>4

-----------------------------------------------------------------------------
(* Texts whose characters all come from another text *)

\* Each character of x is one of y's, no two of them the same one.
Within(x, y) ==
    \E e \in [1..Len(x) -> 1..Len(y)] :
        /\ \A i, j \in 1..Len(x) : e[i] = e[j] => i = j
        /\ \A i \in 1..Len(x) : x[i] = y[e[i]]

\* A text is within itself.
LEMMA WithinSelf ==
    ASSUME NEW x \in Seq(Character)
    PROVE  Within(x, x)
<1> DEFINE e == [i \in 1..Len(x) |-> i]
<1>1. e \in [1..Len(x) -> 1..Len(x)] /\ \A i \in 1..Len(x) : e[i] = i
    OBVIOUS
<1> HIDE DEF e
<1> QED
    BY <1>1 DEF Within

\* Nothing is within any text.
LEMMA NothingWithin ==
    ASSUME NEW y \in Seq(Character)
    PROVE  Within(<<>>, y)
<1> DEFINE e == [i \in 1..0 |-> i]
<1>1. Len(<<>>) = 0 /\ 1..0 = {}
    OBVIOUS
<1>2. e \in [1..0 -> 1..Len(y)]
    BY <1>1
<1> HIDE DEF e
<1> QED
    BY <1>1, <1>2 DEF Within

\* A text within a text that is within a third is within that.
LEMMA WithinTransitive ==
    ASSUME NEW x \in Seq(Character), NEW y \in Seq(Character), NEW z \in Seq(Character),
           Within(x, y), Within(y, z)
    PROVE  Within(x, z)
<1> DEFINE p == Len(x)
           q == Len(y)
           r == Len(z)
<1>1. PICK d \in [1..p -> 1..q] : /\ \A i, j \in 1..p : d[i] = d[j] => i = j
                                  /\ \A i \in 1..p : x[i] = y[d[i]]
    BY DEF Within
<1>2. PICK e \in [1..q -> 1..r] : /\ \A i, j \in 1..q : e[i] = e[j] => i = j
                                  /\ \A i \in 1..q : y[i] = z[e[i]]
    BY DEF Within
<1> HIDE DEF p, q, r
<1> DEFINE f == [i \in 1..p |-> e[d[i]]]
<1>3. f \in [1..p -> 1..r] /\ \A i \in 1..p : f[i] = e[d[i]]
    BY <1>1, <1>2
<1> HIDE DEF f
<1>4. \A i, j \in 1..p : f[i] = f[j] => i = j
    BY <1>1, <1>2, <1>3
<1>5. \A i \in 1..p : x[i] = z[f[i]]
    BY <1>1, <1>2, <1>3
<1> QED
    BY <1>3, <1>4, <1>5 DEF Within, p, q, r

\* What is left after dropping from the front is within the whole.
LEMMA RestWithin ==
    ASSUME NEW x \in Seq(Character), NEW g \in 0..Len(x)
    PROVE  Within(SubSeq(x, g + 1, Len(x)), x)
<1> DEFINE n == Len(x)
           d == SubSeq(x, g + 1, n)
           e == [i \in 1..n - g |-> g + i]
<1>1. d \in Seq(Character) /\ Len(d) = n - g /\ \A i \in 1..n - g : d[i] = x[g + i]
    BY DroppedIs
<1>2. n \in Nat /\ g \in Nat /\ g <= n
    OBVIOUS
<1> HIDE DEF n, d
<1>3. e \in [1..n - g -> 1..n] /\ \A i \in 1..n - g : e[i] = g + i
    BY <1>2
<1> HIDE DEF e
<1>4. \A i, j \in 1..n - g : e[i] = e[j] => i = j
    BY <1>2, <1>3
<1>5. \A i \in 1..n - g : d[i] = x[e[i]]
    BY <1>1, <1>3
<1>6. Within(d, x)
    <2>1. Len(d) = n - g /\ Len(x) = n
        BY <1>1 DEF n
    <2>2. /\ e \in [1..Len(d) -> 1..Len(x)]
          /\ \A i, j \in 1..Len(d) : e[i] = e[j] => i = j
          /\ \A i \in 1..Len(d) : d[i] = x[e[i]]
        BY <1>3, <1>4, <1>5, <2>1
    <2> QED
        BY <2>2 DEF Within
<1> QED
    BY <1>6 DEF d, n

\* Two texts one after the other are within the two they are within.
LEMMA ConcatWithin ==
    ASSUME NEW x \in Seq(Character), NEW y \in Seq(Character),
           NEW u \in Seq(Character), NEW v \in Seq(Character),
           Within(x, u), Within(y, v)
    PROVE  Within(x \o y, u \o v)
<1> DEFINE p == Len(x)
           q == Len(y)
           m == Len(u)
           n == Len(v)
           xy == x \o y
           uv == u \o v
<1>1. PICK d \in [1..p -> 1..m] : /\ \A i, j \in 1..p : d[i] = d[j] => i = j
                                  /\ \A i \in 1..p : x[i] = u[d[i]]
    BY DEF Within
<1>2. PICK e \in [1..q -> 1..n] : /\ \A i, j \in 1..q : e[i] = e[j] => i = j
                                  /\ \A i \in 1..q : y[i] = v[e[i]]
    BY DEF Within
<1>3. /\ p \in Nat /\ q \in Nat /\ m \in Nat /\ n \in Nat
      /\ Len(xy) = p + q /\ Len(uv) = m + n
      /\ \A i \in 1..p + q : xy[i] = IF i <= p THEN x[i] ELSE y[i - p]
      /\ \A i \in 1..m + n : uv[i] = IF i <= m THEN u[i] ELSE v[i - m]
    BY ConcatProperties, LenProperties
<1> HIDE DEF p, q, m, n, xy, uv
<1> DEFINE f == [i \in 1..p + q |-> IF i <= p THEN d[i] ELSE m + e[i - p]]
<1>4. \A i \in 1..p + q : i <= p => i \in 1..p
    BY <1>3
<1>5. \A i \in 1..p + q : ~(i <= p) => i - p \in 1..q
    BY <1>3
<1>6. \A i \in 1..p : d[i] \in 1..m + n /\ d[i] <= m
    BY <1>1, <1>3
<1>7. \A i \in 1..q : m + e[i] \in 1..m + n /\ ~(m + e[i] <= m) /\ (m + e[i]) - m = e[i]
    BY <1>2, <1>3
<1>8. f \in [1..p + q -> 1..m + n] /\ \A i \in 1..p + q : f[i] = IF i <= p THEN d[i] ELSE m + e[i - p]
    BY <1>4, <1>5, <1>6, <1>7
<1> HIDE DEF f
<1>9. ASSUME NEW i \in 1..p + q, NEW j \in 1..p + q, f[i] = f[j]
      PROVE  i = j
    <2>1. CASE i <= p /\ j <= p
        BY <1>1, <1>4, <1>8, <1>9, <2>1
    <2>2. CASE ~(i <= p) /\ ~(j <= p)
        <3>1. i - p \in 1..q /\ j - p \in 1..q
            BY <1>5, <2>2
        <3>2. m + e[i - p] = m + e[j - p]
            BY <1>8, <1>9, <2>2
        <3>3. e[i - p] = e[j - p]
            BY <1>7, <3>1, <3>2
        <3>4. i - p = j - p
            BY <1>2, <3>1, <3>3
        <3> QED
            BY <1>3, <3>4
    <2>3. CASE i <= p /\ ~(j <= p)
        BY <1>4, <1>5, <1>6, <1>7, <1>8, <1>9, <2>3
    <2>4. CASE ~(i <= p) /\ j <= p
        BY <1>4, <1>5, <1>6, <1>7, <1>8, <1>9, <2>4
    <2> QED
        BY <2>1, <2>2, <2>3, <2>4
<1>10. ASSUME NEW i \in 1..p + q
       PROVE  xy[i] = uv[f[i]]
    <2>1. CASE i <= p
        <3>1. i \in 1..p /\ f[i] = d[i] /\ d[i] \in 1..m + n /\ d[i] <= m
            BY <1>4, <1>6, <1>8, <2>1
        <3> QED
            BY <1>1, <1>3, <2>1, <3>1
    <2>2. CASE ~(i <= p)
        <3>1. i - p \in 1..q /\ f[i] = m + e[i - p]
            BY <1>5, <1>8, <2>2
        <3>2. f[i] \in 1..m + n /\ ~(f[i] <= m) /\ f[i] - m = e[i - p]
            BY <1>7, <3>1
        <3>3. xy[i] = y[i - p]
            BY <1>3, <2>2
        <3>4. uv[f[i]] = v[f[i] - m]
            BY <1>3, <3>2
        <3>5. y[i - p] = v[e[i - p]]
            BY <1>2, <3>1
        <3> QED
            BY <3>2, <3>3, <3>4, <3>5
    <2> QED
        BY <2>1, <2>2
<1>11. Within(xy, uv)
    <2>1. Len(xy) = p + q /\ Len(uv) = m + n
        BY <1>3
    <2>2. /\ f \in [1..Len(xy) -> 1..Len(uv)]
          /\ \A i, j \in 1..Len(xy) : f[i] = f[j] => i = j
          /\ \A i \in 1..Len(xy) : xy[i] = uv[f[i]]
        BY <1>8, <1>9, <1>10, <2>1
    <2> QED
        BY <2>2 DEF Within
<1> QED
    BY <1>11 DEF xy, uv

\* What a person reads was printed.
LEMMA StripWithin ==
    ASSUME NEW s \in Seq(Character)
    PROVE  Within(Strip(s), s)
<1> DEFINE n == Len(s)
           Left(i) == SubSeq(s, i, n)
<1>1. n \in Nat
    OBVIOUS
<1>2. PICK f : Leaves(s, f) /\ Strip(s) = f[1]
    BY StripSolves
<1>3. /\ f \in [1..n + 1 -> Seq(Character)]
      /\ f[n + 1] = <<>>
      /\ \A i \in 1..n : EscapeEnd(s, i) = 0 => f[i] = <<s[i]>> \o f[i + 1]
      /\ \A i \in 1..n : EscapeEnd(s, i) # 0 => f[i] = f[EscapeEnd(s, i) + 1]
    BY <1>2 DEF Leaves
<1>4. \A i \in 1..n : EscapeEnd(s, i) = 0 \/ EscapeEnd(s, i) \in i + 1..n
    BY EscapesEndInside
<1>5. \A i \in 1..n + 1 : Left(i) \in Seq(Character)
    <2>1. ASSUME NEW i \in 1..n + 1
          PROVE  Left(i) \in Seq(Character)
        <3>1. i - 1 \in 0..Len(s) /\ (i - 1) + 1 = i
            BY <1>1
        <3>2. SubSeq(s, (i - 1) + 1, Len(s)) \in Seq(Character)
            BY <3>1, DroppedIs
        <3> QED
            BY <3>1, <3>2
    <2> QED
        BY <2>1
<1>6. \A i \in 1..n : s[i] \in Character /\ Left(i) = <<s[i]>> \o Left(i + 1)
    <2>1. \A i \in 1..n : \A j \in i..n : SubSeq(s, i, j) = <<s[i]>> \o SubSeq(s, i + 1, j)
        BY SubSeqRecursiveFirst
    <2>2. \A i \in 1..n : n \in i..n
        BY <1>1
    <2> QED
        BY <2>1, <2>2
<1>7. ASSUME NEW i \in 1..n, NEW j \in i..n + 1
      PROVE  Within(Left(j), Left(i))
    <2> DEFINE g == i - 1
               h == j - i
               d == SubSeq(s, g + 1, Len(s))
    <2>1. g \in 0..Len(s) /\ h \in 0..Len(s) - g /\ g + 1 = i /\ g + h + 1 = j
        BY <1>1
    <2> HIDE DEF g, h
    <2>2. d \in Seq(Character) /\ Len(d) = Len(s) - g
        BY <2>1, DroppedIs
    <2>3. SubSeq(d, h + 1, Len(d)) = SubSeq(s, g + h + 1, Len(s))
        BY <2>1, DropTwice
    <2>5. d = Left(i) /\ SubSeq(s, g + h + 1, Len(s)) = Left(j)
        BY <2>1
    <2> HIDE DEF d
    <2>4. Within(SubSeq(d, h + 1, Len(d)), d)
        BY <2>1, <2>2, RestWithin
    <2> QED
        BY <2>3, <2>4, <2>5
<1>8. Left(1) = s
    BY SubSeqFull
<1> HIDE DEF n, Left
<1> DEFINE T == {k \in 0..n : ~Within(f[n + 1 - k], Left(n + 1 - k))}
<1>9. ASSUME NEW k \in T, \A j \in T : k <= j
      PROVE  FALSE
    <2> DEFINE i == n + 1 - k
    <2>0. k \in 0..n /\ k \in Nat /\ ~Within(f[i], Left(i))
        BY <1>1
    <2>1. k # 0
        <3>1. k = 0 => i = n + 1 /\ n + 1 \in 1..n + 1
            BY <1>1
        <3> QED
            BY <1>3, <1>5, <2>0, <3>1, NothingWithin
    <2>2. i \in 1..n
        BY <1>1, <2>0, <2>1
    <2>3. \A x \in i + 1..n + 1 : Within(f[x], Left(x))
        <3>1. ASSUME NEW x \in i + 1..n + 1
              PROVE  n + 1 - x \in 0..n /\ ~(k <= n + 1 - x) /\ n + 1 - (n + 1 - x) = x
            BY <1>1, <2>0
        <3> HIDE DEF i
        <3>2. ASSUME NEW x \in i + 1..n + 1
              PROVE  Within(f[x], Left(x))
            <4>1. n + 1 - x \notin T
                <5> HIDE DEF T
                <5> QED
                    BY <1>9, <3>1
            <4> QED
                BY <3>1, <4>1
        <3> QED
            BY <3>2
    <2> HIDE DEF i, T
    <2>4. CASE EscapeEnd(s, i) = 0
        <3>1. i + 1 \in i + 1..n + 1 /\ i + 1 \in 1..n + 1
            BY <1>1, <2>2
        <3>2. f[i] = <<s[i]>> \o f[i + 1] /\ Left(i) = <<s[i]>> \o Left(i + 1)
            BY <1>3, <1>6, <2>2, <2>4
        <3>3. <<s[i]>> \in Seq(Character) /\ f[i + 1] \in Seq(Character) /\ Left(i + 1) \in Seq(Character)
            <4>1. s[i] \in Character
                BY <1>6, <2>2
            <4>2. <<s[i]>> \in Seq(Character)
                BY <4>1
            <4>3. f[i + 1] \in Seq(Character)
                BY <1>3, <3>1
            <4>4. Left(i + 1) \in Seq(Character)
                BY <1>5, <3>1
            <4> QED
                BY <4>2, <4>3, <4>4
        <3>4. Within(<<s[i]>>, <<s[i]>>)
            BY <3>3, WithinSelf
        <3>5. Within(f[i + 1], Left(i + 1))
            BY <2>3, <3>1
        <3> DEFINE a == <<s[i]>>
                   b == f[i + 1]
                   c == Left(i + 1)
        <3>6. a \in Seq(Character) /\ b \in Seq(Character) /\ c \in Seq(Character) /\ Within(a, a) /\ Within(b, c)
            BY <3>3, <3>4, <3>5
        <3> HIDE DEF a, b, c
        <3>7. Within(a \o b, a \o c)
            BY <3>6, ConcatWithin
        <3> QED
            BY <2>0, <3>2, <3>7 DEF a, b, c
    <2>5. CASE EscapeEnd(s, i) # 0
        <3> DEFINE e == EscapeEnd(s, i)
        <3>1. e \in i + 1..n /\ f[i] = f[e + 1]
            BY <1>3, <1>4, <2>2, <2>5
        <3> HIDE DEF e
        <3>2. e + 1 \in i + 1..n + 1 /\ e + 1 \in i..n + 1 /\ e + 1 \in 1..n + 1 /\ i \in 1..n + 1
            BY <1>1, <2>2, <3>1
        <3>3. Within(f[e + 1], Left(e + 1)) /\ Within(Left(e + 1), Left(i))
            BY <1>7, <2>2, <2>3, <3>2
        <3>4. f[e + 1] \in Seq(Character) /\ Left(e + 1) \in Seq(Character) /\ Left(i) \in Seq(Character)
            BY <1>3, <1>5, <3>2
        <3> QED
            BY <2>0, <3>1, <3>3, <3>4, WithinTransitive
    <2> QED
        BY <2>4, <2>5
<1>10. T \in SUBSET Nat
    BY <1>1
<1>11. T = {}
    <2> HIDE DEF T
    <2> QED
        BY <1>9, <1>10, Least
<1>12. n \in 0..n /\ n + 1 - n = 1
    BY <1>1
<1>13. Within(f[1], Left(1))
    BY <1>11, <1>12
<1> QED
    BY <1>2, <1>8, <1>13

-----------------------------------------------------------------------------
(* Prompts *)

Has(s, c) == \E k \in 1..Len(s) : s[k] = c

\* No prompt is twice in s.
Once(s) == \A i, j \in 1..Len(s) : s[i] = s[j] /\ Class(s[i]) = "prompt" => i = j

Prompts(n) == {<<"prompt", m>> : m \in 0..n}

\* Every prompt in s is one of the first.
Upto(s, n) == \A k \in 1..Len(s) : Class(s[k]) = "prompt" => s[k] \in Prompts(n)

\* A text within another has no prompt the other has not, nor any more often.
LEMMA WithinKeeps ==
    ASSUME NEW x \in Seq(Character), NEW y \in Seq(Character), Within(x, y)
    PROVE  /\ Once(y) => Once(x)
           /\ \A c : Has(x, c) => Has(y, c)
           /\ \A n : Upto(y, n) => Upto(x, n)
<1> DEFINE p == Len(x)
           q == Len(y)
<1>1. PICK e \in [1..p -> 1..q] : /\ \A i, j \in 1..p : e[i] = e[j] => i = j
                                  /\ \A i \in 1..p : x[i] = y[e[i]]
    BY DEF Within
<1> HIDE DEF p, q
<1>2. \A i \in 1..p : e[i] \in 1..q /\ x[i] = y[e[i]]
    BY <1>1
<1>3. ASSUME Once(y)
      PROVE  Once(x)
    <2>1. \A i, j \in 1..q : y[i] = y[j] /\ Class(y[i]) = "prompt" => i = j
        BY <1>3 DEF Once, q
    <2>2. ASSUME NEW i \in 1..p, NEW j \in 1..p, x[i] = x[j], Class(x[i]) = "prompt"
          PROVE  i = j
        <3>1. y[e[i]] = y[e[j]] /\ Class(y[e[i]]) = "prompt" /\ e[i] \in 1..q /\ e[j] \in 1..q
            BY <1>2, <2>2
        <3>2. e[i] = e[j]
            BY <2>1, <3>1
        <3> QED
            BY <1>1, <3>2
    <2> QED
        BY <2>2 DEF Once, p
<1>4. ASSUME NEW c, Has(x, c)
      PROVE  Has(y, c)
    BY <1>2, <1>4 DEF Has, p, q
<1>5. ASSUME NEW n, Upto(y, n)
      PROVE  Upto(x, n)
    BY <1>2, <1>5 DEF Upto, p, q
<1> QED
    BY <1>3, <1>4, <1>5

\* A match is taken out of what a lane shows.
LEMMA TakenAnswer ==
    ASSUME NEW t \in [text : Seq(Character), tail : Seq(Character)], NEW r \in Seq(Character),
           NEW pattern, Hits(t, pattern) # {}
    PROVE  LET shown == (t.text \o t.tail) \o r
               taken == TakeMatch(t, pattern)
               after == (taken.text \o taken.tail) \o r
               found == t.text[Min(Hits(t, pattern))]
           IN  /\ found \in pattern
               /\ Has(shown, found)
               /\ after \in Seq(Character)
               /\ Within(after, shown)
               /\ Once(shown) /\ Class(found) = "prompt" => ~Has(after, found)
<1> DEFINE x == t.text
           y == t.tail
           k == Min(Hits(t, pattern))
           shown == (x \o y) \o r
           taken == TakeMatch(t, pattern)
           after == (taken.text \o taken.tail) \o r
           found == x[k]
           xy == x \o y
           n == Len(shown)
<1>1. x \in Seq(Character) /\ y \in Seq(Character) /\ DOMAIN x = 1..Len(x) /\ Len(x) \in Nat
    OBVIOUS
<1>2. Hits(t, pattern) \in SUBSET Nat
      /\ \A i \in Hits(t, pattern) : i \in 1..Len(x) /\ x[i] \in pattern
    BY <1>1 DEF Hits
<1>3. k \in 1..Len(x) /\ found \in pattern
    BY <1>2, MinIsLeast
<1>4. taken.text = SubSeq(x, k + 1, Len(x)) /\ taken.tail = y
    BY DEF TakeMatch
<1> HIDE DEF k, x, y, taken
<1>5. xy \in Seq(Character) /\ shown \in Seq(Character) /\ Len(xy) = Len(x) + Len(y) /\ Len(y) \in Nat
      /\ n = Len(xy) + Len(r) /\ Len(r) \in Nat
    BY <1>1, ConcatProperties, LenProperties
<1>6. k \in 0..Len(x) /\ k \in 0..Len(xy) /\ k \in 0..n /\ k \in 1..n /\ n \in Nat /\ k \in Nat
    BY <1>1, <1>3, <1>5
<1>7. after = SubSeq(shown, k + 1, n)
    <2>1. taken.text \o y = SubSeq(xy, k + 1, Len(xy))
        BY <1>1, <1>4, <1>6, DropThenConcat
    <2> HIDE DEF xy
    <2>2. SubSeq(xy, k + 1, Len(xy)) \o r = SubSeq(xy \o r, k + 1, Len(xy \o r))
        BY <1>5, <1>6, DropThenConcat
    <2> QED
        BY <1>4, <2>1, <2>2 DEF xy
<1>8. shown[k] = found
    <2>1. (x \o y)[k] = x[k]
        BY <1>1, <1>3
    <2>2. k \in 1..Len(xy)
        BY <1>1, <1>3, <1>5
    <2> HIDE DEF xy
    <2>3. (xy \o r)[k] = xy[k]
        BY <1>5, <2>2
    <2> QED
        BY <2>1, <2>3 DEF xy
<1> HIDE DEF shown, after, n, xy, found
<1>s. shown \in Seq(Character) /\ n = Len(shown)
    BY <1>5 DEF n
<1>9. after \in Seq(Character) /\ Within(after, shown)
    <2>1. k \in 0..Len(shown)
        BY <1>6 DEF n
    <2> QED
        BY <1>7, <1>s, <2>1, DroppedIs, RestWithin
<1>10. ASSUME Once(shown), Class(found) = "prompt", Has(after, found)
       PROVE  FALSE
    <2>1. Len(after) = n - k /\ \A i \in 1..n - k : after[i] = shown[k + i]
        <3>1. k \in 0..Len(shown)
            BY <1>6 DEF n
        <3> QED
            BY <1>7, <1>s, <3>1, DroppedIs
    <2>2. PICK i \in 1..Len(after) : after[i] = found
        BY <1>10 DEF Has
    <2>3. shown[k + i] = shown[k] /\ k + i \in 1..n /\ k + i # k
        BY <1>6, <1>8, <2>1, <2>2
    <2> QED
        BY <1>6, <1>8, <1>10, <1>s, <2>3 DEF Once
<1>11. Has(shown, found)
    BY <1>6, <1>8, <1>s DEF Has
<1> QED
    BY <1>3, <1>9, <1>10, <1>11 DEF shown, after, taken, found, k, x, y

\* A chunk that arrives adds nothing to what a lane shows.
LEMMA FeedWithin ==
    ASSUME NEW t \in [text : Seq(Character), tail : Seq(Character)], NEW c \in Seq(Character),
           NEW r \in Seq(Character), SafeLength(t.tail \o c) \in 0..Len(t.tail \o c)
    PROVE  LET fed == Feed(t, c)
           IN  /\ fed \in [text : Seq(Character), tail : Seq(Character)]
               /\ Within((fed.text \o fed.tail) \o r, (t.text \o t.tail) \o (c \o r))
<1> DEFINE x == t.text
           w == t.tail
           full == w \o c
           n == Len(full)
           safe == SafeLength(full)
           front == SubSeq(full, 1, safe)
           rest == SubSeq(full, safe + 1, n)
           P == Strip(front)
           text == Stripped(t, c)
           ex == Excess(text)
           kept == SubSeq(text, ex + 1, Len(text))
<1>1. x \in Seq(Character) /\ w \in Seq(Character) /\ c \in Seq(Character) /\ r \in Seq(Character)
    OBVIOUS
<1>2. MaxBuffer \in Nat
    BY BoundsAssumption
<1>3. text = x \o P
    BY DEF Stripped
<1>4. Feed(t, c) = [text |-> kept, tail |-> rest]
    BY DEF Feed
<1>5. ex = IF Len(text) > MaxBuffer THEN Len(text) - MaxBuffer ELSE 0
    BY DEF Excess
<1> HIDE DEF x, w, P, text, ex, kept
<1>6. full \in Seq(Character)
    BY <1>1, ConcatProperties
<1>7. safe \in 0..Len(full)
    BY DEF w
<1> HIDE DEF full, safe
<1>8. front \in Seq(Character) /\ front \o rest = full
    BY <1>6, <1>7, FrontAndRest
<1>9. rest \in Seq(Character)
    BY <1>6, <1>7, DroppedIs
<1> HIDE DEF front, rest, n
<1>10. P \in Seq(Character) /\ Within(P, front)
    BY <1>8, StripType, StripWithin DEF P
<1>11. text \in Seq(Character) /\ Within(text, x \o front)
    <2>1. Within(x, x)
        BY <1>1, WithinSelf
    <2> QED
        BY <1>1, <1>3, <1>8, <1>10, <2>1, ConcatWithin, ConcatProperties
<1>12. kept \in Seq(Character) /\ Within(kept, text)
    <2>1. Len(text) \in Nat
        BY <1>11, LenProperties
    <2>2. ex \in 0..Len(text)
        BY <1>2, <1>5, <2>1
    <2> QED
        BY <1>11, <2>2, DroppedIs, RestWithin DEF kept
<1>a. (x \o front) \o rest = x \o (front \o rest)
    <2>1. x \in Seq(Character)
        BY <1>1
    <2>2. front \in Seq(Character)
        BY <1>8
    <2> QED
        BY <1>9, <2>1, <2>2, Associative, Zenon
<1> DEFINE xf == x \o front
           kr == kept \o rest
           xfr == xf \o rest
<1>13. xf \in Seq(Character) /\ kr \in Seq(Character)
    BY <1>1, <1>8, <1>9, <1>12, ConcatProperties
<1>14. Within(kept, xf)
    <2>1. Within(text, xf)
        BY <1>11
    <2> HIDE DEF xf
    <2> QED
        BY <1>11, <1>12, <1>13, <2>1, WithinTransitive
<1>15. xfr \in Seq(Character) /\ Within(kr, xfr)
    <2>1. Within(rest, rest)
        BY <1>9, WithinSelf
    <2> HIDE DEF xf
    <2> QED
        BY <1>9, <1>12, <1>13, <1>14, <2>1, ConcatWithin, ConcatProperties
<1>16. Within(kr \o r, xfr \o r)
    <2>1. Within(r, r)
        BY WithinSelf
    <2> HIDE DEF kr, xfr
    <2> QED
        BY <1>13, <1>15, <2>1, ConcatWithin
<1>17. xfr \o r = (x \o w) \o (c \o r)
    <2> DEFINE xw == x \o w
               cr == c \o r
    <2>2. xfr = x \o full
        BY <1>8, <1>a
    <2>3. xw \o c = x \o (w \o c)
        <3>1. x \in Seq(Character)
            BY <1>1
        <3>2. w \in Seq(Character)
            BY <1>1
        <3> QED
            BY <3>1, <3>2, Associative, Zenon
    <2>4. xw \in Seq(Character)
        BY <1>1, ConcatProperties
    <2> HIDE DEF xw
    <2>5. (xw \o c) \o r = xw \o (c \o r)
        BY <2>4, Associative, Zenon
    <2> QED
        BY <2>2, <2>3, <2>5 DEF xw, full
<1>18. Within((kept \o rest) \o r, (x \o w) \o (c \o r))
    BY <1>16, <1>17
<1> DEFINE F == [text |-> kept, tail |-> rest]
<1>19. F \in [text : Seq(Character), tail : Seq(Character)] /\ F.text = kept /\ F.tail = rest
    BY <1>9, <1>12
<1> HIDE DEF F
<1>20. Feed(t, c) = F
    BY <1>4 DEF F
<1>21. Within((F.text \o F.tail) \o r, (t.text \o t.tail) \o (c \o r))
    BY <1>18, <1>19 DEF x, w
<1> QED
    BY <1>19, <1>20, <1>21

-----------------------------------------------------------------------------
(* The sessions and the waits *)

\* A lane that is found is a terminal lane.
LEMMA LaneForIsALane ==
    ASSUME NEW n, LaneFor(n) # NoLane
    PROVE  LaneFor(n) \in TerminalLanes
<1> DEFINE up[k \in 0 .. Cardinality(Ids)] ==
            IF k = 0 THEN n ELSE IF up[k - 1] = NoLane THEN NoLane ELSE Parent[up[k - 1]]
           nearest == {k \in 1 .. Cardinality(Ids) :
                         /\ up[k] \in TerminalLanes \ {n}
                         /\ \A j \in 1 .. k - 1 : up[j] \notin TerminalLanes \ {n}}
<1>1. LaneFor(n) = IF nearest = {} THEN NoLane ELSE up[CHOOSE k \in nearest : TRUE]
  BY DEF LaneFor
<1> HIDE DEF up
<1>2. nearest # {}
  BY <1>1
<1>3. (CHOOSE k \in nearest : TRUE) \in nearest
  BY <1>2
<1> QED
  BY <1>1, <1>2, <1>3

\* The two parts of a state that say which lane the walk is on and what its
\* wait looks for change only when the walk goes to another node.
LEMMA SameNode ==
    ASSUME UNCHANGED <<plan, pos>>
    PROVE  /\ Node' = Node
           /\ Lane' = Lane
           /\ Pattern' = Pattern
BY DEF Node, Lane, Pattern

\* Init establishes the invariant.
LEMMA InitEstablishes == Init => TerminalsInv
<1> SUFFICES ASSUME Init PROVE TerminalsInv
  OBVIOUS
<1>1. plan \in Seq(NodeRecord) /\ plan # <<>>
  BY PlansAssumption DEF Init
<1> QED
  BY <1>1 DEF Init, TerminalsInv, InALane, WaitMissesNothing, ExitedMeansDead,
              ClosedIsSilent, Empty
\* A node that ends leaves the walk at the next node or at the closing.
LEMMA EndsNode ==
    ASSUME pos \in DOMAIN plan, plan \in Plans,
           verdict = [i \in DOMAIN plan |-> verdict[i]],
           NEW result, NEW ok, EndNode(result, ok)
    PROVE  /\ plan' = plan
           /\ pos' \in DOMAIN plan'
           /\ verdict' = [i \in DOMAIN plan' |-> verdict'[i]]
           /\ at' \in {"head", "closing"}
<1>1. plan \in Seq(NodeRecord)
  BY PlansAssumption
<1>2. Len(plan) \in Nat /\ DOMAIN plan = 1 .. Len(plan)
  BY <1>1
<1>3. plan' = plan /\ verdict' = [verdict EXCEPT ![pos] = result]
  BY DEF EndNode
<1>4. pos' \in {pos, pos + 1} /\ (pos' = pos + 1 => pos < Len(plan))
  BY <1>2 DEF EndNode
<1>5. at' \in {"head", "closing"}
  BY DEF EndNode
<1>6. verdict' = [i \in DOMAIN plan' |-> verdict'[i]]
  BY <1>3
<1>7. pos' \in DOMAIN plan'
  BY <1>2, <1>3, <1>4
<1> QED
  BY <1>3, <1>5, <1>6, <1>7

\* Every step keeps the invariant.
LEMMA StepKeeps == TerminalsInv /\ [Next]_vars => TerminalsInv'
<1> SUFFICES ASSUME TerminalsInv, [Next]_vars PROVE TerminalsInv'
  OBVIOUS
<1> USE DEF TerminalsInv, InALane, WaitMissesNothing, ExitedMeansDead, ClosedIsSilent
<1>1. CASE RaiseAborted
  BY <1>1, SameNode DEF RaiseAborted, wait, lanes
<1>2. CASE RunTimesOut
  BY <1>2, SameNode DEF RunTimesOut, wait, lanes
<1>3. CASE StartNode
  <2>1. CASE Lane = NoLane
    BY <1>3, <2>1, EndsNode DEF StartNode, wait, lanes
  <2>2. CASE Lane # NoLane
    <3>1. Lane \in TerminalLanes
      BY <2>2, LaneForIsALane DEF Lane
    <3> QED
      BY <1>3, <2>2, <3>1, SameNode DEF StartNode, wait, lanes
  <2> QED
    BY <2>1, <2>2
<1>4. CASE OpenTerminal
  BY <1>4, SameNode DEF OpenTerminal, walk, wait
<1>5. CASE OpenFails
  BY <1>5, EndsNode DEF OpenFails, wait, lanes
<1>6. CASE Type
  <2>1. CASE Node.kind = "run"
    BY <1>6, <2>1, SameNode DEF Type, ClearFirst, wait
  <2>2. CASE Node.kind # "run"
    BY <1>6, <2>2, EndsNode DEF Type, ClearFirst, wait
  <2> QED
    BY <2>1, <2>2
<1>7. CASE TypeFails
  BY <1>7, EndsNode DEF TypeFails, ClearFirst, wait
<1>8. CASE MatchAtOnce
  BY <1>8, EndsNode DEF MatchAtOnce, EndWait, Waits
<1>9. CASE StartWait
  BY <1>9, SameNode DEF StartWait, Waits, Found, lanes
<1>10. CASE Resume
  <2>1. CASE Outcome = "matched"
    BY <1>10, <2>1, EndsNode DEF Resume, EndWait
  <2>2. CASE Outcome # "matched"
    BY <1>10, <2>2, EndsNode DEF Resume, EndWait, Empty
  <2> QED
    BY <2>1, <2>2
<1>11. CASE CloseTerminal
  <2>1. PICK l \in TerminalLanes :
          /\ session' = [session EXCEPT ![l] = "closed"]
          /\ transcript' = [transcript EXCEPT ![l] = Empty]
          /\ watcher' = [watcher EXCEPT ![l] = IF @ = "pending" THEN "cancelled" ELSE @]
          /\ \E p \in {"dead", process[l]} : process' = [process EXCEPT ![l] = p]
    BY <1>11 DEF CloseTerminal
  <2>2. ExitedMeansDead' /\ process' = [m \in TerminalLanes |-> process'[m]]
    BY <2>1
  <2>3. ClosedIsSilent'
    BY <2>1
  <2>4. /\ session' = [m \in TerminalLanes |-> session'[m]]
        /\ watcher' = [m \in TerminalLanes |-> watcher'[m]]
        /\ transcript' = [m \in TerminalLanes |-> transcript'[m]]
    BY <2>1
  <2>5. at = "closing" /\ UNCHANGED <<walk, wait>>
    BY <1>11 DEF CloseTerminal
  <2> QED
    BY <2>2, <2>3, <2>4, <2>5 DEF walk, wait
<1>12. CASE EndRun
  BY <1>12, SameNode DEF EndRun, wait, lanes
<1>13. CASE TimerFires
  BY <1>13, SameNode DEF TimerFires, walk, lanes, Found
<1>14. CASE Abort
  BY <1>14, SameNode DEF Abort, wait, lanes, Found
<1>15. ASSUME NEW l \in TerminalLanes, Speak(l) PROVE TerminalsInv'
  <2>1. PICK t :
          /\ session[l] = "open"
          /\ IF at = "waiting" /\ Lane = l /\ ~settled.done /\ Found(t)
             THEN /\ settled' = ResultIn(t)
                  /\ transcript' = [transcript EXCEPT ![l] = TakeMatch(t, Pattern)]
             ELSE /\ transcript' = [transcript EXCEPT ![l] = t]
                  /\ UNCHANGED settled
    BY <1>15 DEF Speak
  <2>2. UNCHANGED <<walk, timer, session, process, watcher>>
    BY <1>15 DEF Speak
  <2>3. Node' = Node /\ Lane' = Lane /\ Pattern' = Pattern
    BY <2>2, SameNode DEF walk
  <2>4. WaitMissesNothing'
    <3>1. CASE at = "waiting" /\ Lane = l /\ ~settled.done /\ Found(t)
      <4>1. settled'.done
        BY <2>1, <3>1 DEF ResultIn
      <4> QED
        BY <4>1
    <3>2. CASE ~(at = "waiting" /\ Lane = l /\ ~settled.done /\ Found(t))
      BY <2>1, <2>2, <2>3, <3>2 DEF walk, Found
    <3> QED
      BY <3>1, <3>2
  <2>5. ClosedIsSilent' /\ transcript' = [m \in TerminalLanes |-> transcript'[m]]
    BY <2>1, <2>2
  <2> QED
    BY <2>2, <2>3, <2>4, <2>5 DEF walk
<1>16. ASSUME NEW l \in TerminalLanes, Die(l) PROVE TerminalsInv'
  BY <1>16, SameNode DEF Die, walk, wait, Found
<1>17. ASSUME NEW l \in TerminalLanes, WatcherEnds(l) PROVE TerminalsInv'
  BY <1>17, SameNode DEF WatcherEnds, walk, wait, Found
<1>18. CASE UNCHANGED vars
  BY <1>18, SameNode DEF vars, walk, wait, lanes, Found
<1> QED
  BY <1>1, <1>2, <1>3, <1>4, <1>5, <1>6, <1>7, <1>8, <1>9, <1>10, <1>11, <1>12, <1>13,
     <1>14, <1>15, <1>16, <1>17, <1>18 DEF Next, Walk

\* The invariant holds in every reachable state.
THEOREM TerminalsInvariant == Spec => []TerminalsInv
BY InitEstablishes, StepKeeps, PTL DEF Spec

\* A run that reports a result has closed every terminal it opened: the loop
\* after the walk (engine/runner.py) misses none, on no path.
THEOREM AllTerminalsClosed == Spec => []NoTerminalLeftOpen
<1>1. TerminalsInv => NoTerminalLeftOpen
  BY DEF TerminalsInv, ClosedIsSilent, NoTerminalLeftOpen
<1> QED
  BY <1>1, TerminalsInvariant, PTL

\* Only Resume ends a wait.
LEMMA OnlyResumeEndsWaits ==
    ASSUME [Next]_vars, at = "waiting", at' # "waiting"
    PROVE  Resume
BY DEF Next, Walk, vars, walk, wait, lanes, RaiseAborted, RunTimesOut, StartNode, OpenTerminal,
       OpenFails, Type, TypeFails, MatchAtOnce, Waits, StartWait, CloseTerminal, EndRun,
       TimerFires, Abort, Speak, Die, WatcherEnds

\* How a wait ends is what happened: a dead process is never reported as a
\* timeout, nor an answer that arrived thrown away (wait_for).
THEOREM WaitsAreTruthful == Spec => WaitsEndTruthfully
<1> DEFINE Truthful ==
        at = "waiting" /\ at' # "waiting" =>
          LET result == verdict'[pos]
          IN  /\ result.status = "timeout"
                     => /\ timer = "fired" \/ watcher[Lane] = "broken"
                        /\ watcher[Lane] # "exited"
              /\ result.status = "exited"
                     => watcher[Lane] = "exited" /\ process[Lane] = "dead"
              /\ result.status # "matched"
                     => /\ ~settled.done
                        /\ \A i \in DOMAIN result.text : result.text[i] \notin Pattern
<1>1. TerminalsInv /\ [Next]_vars => Truthful
  <2> SUFFICES ASSUME TerminalsInv, [Next]_vars, at = "waiting", at' # "waiting"
               PROVE  Truthful
    OBVIOUS
  <2>1. Resume
    BY OnlyResumeEndsWaits
  <2>2. Lane \in TerminalLanes /\ ExitedMeansDead /\ WaitMissesNothing
    BY DEF TerminalsInv, InALane
  <2>3. pos \in DOMAIN verdict
    BY DEF TerminalsInv
  <2>4. CASE Outcome = "matched"
    <3>1. verdict'[pos].status = "matched"
      BY <2>1, <2>3, <2>4 DEF Resume, EndWait, EndNode
    <3> QED
      BY <3>1
  <2>5. CASE Outcome # "matched"
    <3>1. /\ verdict'[pos].status = Outcome
          /\ verdict'[pos].text = transcript[Lane].text
      BY <2>1, <2>3, <2>5 DEF Resume, EndWait, EndNode
    <3>2. ~settled.done /\ Outcome \in {"exited", "timeout"}
      BY <2>5 DEF Outcome
    <3>3. \A i \in DOMAIN transcript[Lane].text : transcript[Lane].text[i] \notin Pattern
      BY <2>2, <3>2 DEF WaitMissesNothing, Found, Hits
    <3>4. Outcome = "exited" => watcher[Lane] = "exited" /\ process[Lane] = "dead"
      BY <2>2, <2>5 DEF Outcome, ExitedMeansDead
    <3>5. Outcome = "timeout" => /\ timer = "fired" \/ watcher[Lane] = "broken"
                                 /\ watcher[Lane] # "exited"
      BY <2>1, <2>5 DEF Outcome, Resume, AnyDone, ExitKnown
    <3> QED
      BY <3>1, <3>2, <3>3, <3>4, <3>5
  <2> QED
    BY <2>4, <2>5
<1>2. TerminalsInv /\ [Next]_vars => [Truthful]_vars
  BY <1>1
<1> QED
  BY <1>2, TerminalsInvariant, PTL DEF WaitsEndTruthfully, Spec

-----------------------------------------------------------------------------
(* The transcripts *)

Accounted(l) == \E a : Accounts(a, heard[l], screen[l], transcript[l], gone[l])

Types ==
    /\ at \in {"head", "started", "typed", "waiting", "closing", "ended", "raised"}
    /\ \A i \in DOMAIN plan : verdict[i].status \in Statuses
    /\ aborted \in BOOLEAN /\ failed \in BOOLEAN
    /\ session \in [TerminalLanes -> {"none", "open", "closed"}]
    /\ process \in [TerminalLanes -> {"none", "alive", "dead"}]
    /\ watcher \in [TerminalLanes -> {"none", "pending", "exited", "broken", "cancelled"}]
    /\ timer \in {"off", "running", "fired"}
    /\ screen = [l \in TerminalLanes |-> screen[l]]
    /\ heard = [l \in TerminalLanes |-> heard[l]]
    /\ gone = [l \in TerminalLanes |-> gone[l]]

\* A terminal that is not open has printed nothing that anyone could read.
NothingHeard ==
    \A l \in TerminalLanes : session[l] # "open" => heard[l] = <<>> /\ gone[l] = 0

\* The types, and for every lane an account of what its transcript holds.
TranscriptsInv == Types /\ NothingHeard /\ \A l \in TerminalLanes : Accounted(l)

\* The empty output may be cut anywhere.
LEMMA NothingPrinted == <<>> \in Seq(Character) /\ CutSafely(<<>>)
<1>1. <<>> \in Seq(Character) /\ DOMAIN <<>> = {}
    OBVIOUS
<1> QED
    BY <1>1 DEF CutSafely

\* At the start there is nothing to account for.
LEMMA InitAccounts == Init => TranscriptsInv
<1> SUFFICES ASSUME Init PROVE TranscriptsInv
    OBVIOUS
<1>1. Types
    BY DEF Init, Types, Undecided, Statuses
<1>2. Accounts(<<>>, <<>>, <<>>, Empty, 0)
    BY NothingPrinted, FirstAccount
<1>3. \A l \in TerminalLanes : heard[l] = <<>> /\ screen[l] = <<>> /\ transcript[l] = Empty /\ gone[l] = 0
    BY DEF Init
<1>4. \A l \in TerminalLanes : Accounted(l)
    BY <1>2, <1>3 DEF Accounted
<1> QED
    BY <1>1, <1>3, <1>4 DEF TranscriptsInv, NothingHeard

\* How a node that ends changes the types.
LEMMA EndKeepsTypes ==
    ASSUME TerminalsInv, Types, NEW result, NEW ok \in BOOLEAN, EndNode(result, ok),
           result.status \in Statuses
    PROVE  /\ at' \in {"head", "started", "typed", "waiting", "closing", "ended", "raised"}
           /\ \A i \in DOMAIN plan' : verdict'[i].status \in Statuses
           /\ aborted' \in BOOLEAN /\ failed' \in BOOLEAN
<1>1. plan' = plan /\ verdict' = [verdict EXCEPT ![pos] = result] /\ aborted' = aborted /\ failed' = ~ok
    BY DEF EndNode
<1>2. pos \in DOMAIN plan /\ verdict = [i \in DOMAIN plan |-> verdict[i]]
    BY DEF TerminalsInv
<1>3. \A i \in DOMAIN plan : verdict'[i] = IF i = pos THEN result ELSE verdict[i]
    BY <1>1, <1>2
<1>4. \A i \in DOMAIN plan' : verdict'[i].status \in Statuses
    BY <1>1, <1>3 DEF Types
<1>5. at' \in {"head", "closing"}
    BY DEF EndNode
<1> QED
    BY <1>1, <1>4, <1>5 DEF Types

\* A wait that ends, ends its node.
LEMMA WaitsEndNodes ==
    ASSUME NEW status \in Statuses, NEW text, NEW found, EndWait(status, text, found)
    PROVE  /\ timer' = "off"
           /\ \E result : \E ok \in BOOLEAN : EndNode(result, ok) /\ result.status \in Statuses
<1> DEFINE result == [status |-> status, text |-> text, found |-> found]
           ok == Succeeds(status, found)
<1>1. timer' = "off" /\ EndNode(result, ok)
    BY DEF EndWait
<1>2. ok \in BOOLEAN
    BY Zenon DEF Succeeds
<1>3. result.status \in Statuses
    OBVIOUS
<1> HIDE DEF result, ok
<1> QED
    BY <1>1, <1>2, <1>3

\* How a node that clears its lane first changes the account.
LEMMA ClearKeepsAccounts ==
    ASSUME TerminalsInv, TranscriptsInv, ClearFirst, NEW x \in Seq(Character), CutSafely(x),
           \/ screen' = [screen EXCEPT ![Lane] = @ \o x]
           \/ screen' = screen
    PROVE  /\ \A l \in TerminalLanes : Accounted(l)'
           /\ heard' = [l \in TerminalLanes |-> heard'[l]]
           /\ gone' = [l \in TerminalLanes |-> gone'[l]]
           /\ screen' = [l \in TerminalLanes |-> screen'[l]]
<1>1. /\ heard = [l \in TerminalLanes |-> heard[l]] /\ gone = [l \in TerminalLanes |-> gone[l]]
      /\ screen = [l \in TerminalLanes |-> screen[l]]
      /\ transcript = [l \in TerminalLanes |-> transcript[l]]
    BY DEF TranscriptsInv, Types, TerminalsInv
<1>2. /\ heard' = [l \in TerminalLanes |-> heard'[l]]
      /\ gone' = [l \in TerminalLanes |-> gone'[l]]
      /\ screen' = [l \in TerminalLanes |-> screen'[l]]
    BY <1>1 DEF ClearFirst
<1>3. ASSUME NEW l \in TerminalLanes
      PROVE  Accounted(l)'
    <2>1. PICK a : Accounts(a, heard[l], screen[l], transcript[l], gone[l])
        BY DEF TranscriptsInv, Accounted
    <2>2. screen'[l] = screen[l] \o x \/ screen'[l] = screen[l]
        BY <1>1
    <2>3. \/ heard'[l] = heard[l] /\ transcript'[l] = transcript[l] /\ gone'[l] = gone[l]
          \/ heard'[l] = <<>> /\ transcript'[l] = Empty /\ gone'[l] = 0
        BY <1>1 DEF ClearFirst
    <2>4. Accounts(<<>>, <<>>, screen[l], Empty, 0)
        BY <2>1, ClearedAccount
    <2>5. Accounts(a, heard[l], screen[l] \o x, transcript[l], gone[l])
        BY <2>1, AnsweredAccount
    <2>6. Accounts(<<>>, <<>>, screen[l] \o x, Empty, 0)
        BY <2>4, AnsweredAccount
    <2>7. \E b : Accounts(b, heard'[l], screen'[l], transcript'[l], gone'[l])
        BY <2>1, <2>2, <2>3, <2>4, <2>5, <2>6
    <2> QED
        BY <2>7 DEF Accounted
<1> QED
    BY <1>2, <1>3

\* A step that leaves the lanes' output alone leaves their accounts alone.
LEMMA SameAccounts ==
    ASSUME TranscriptsInv, UNCHANGED <<transcript, screen, heard, gone>>
    PROVE  /\ \A l \in TerminalLanes : Accounted(l)'
           /\ heard' = [l \in TerminalLanes |-> heard'[l]]
           /\ gone' = [l \in TerminalLanes |-> gone'[l]]
           /\ screen' = [l \in TerminalLanes |-> screen'[l]]
BY DEF TranscriptsInv, Types, Accounted

\* A step that changes one lane only.
LEMMA OneLaneAccounted ==
    ASSUME TerminalsInv, TranscriptsInv, NEW l \in TerminalLanes, NEW h, NEW r, NEW t, NEW g,
           \E a : Accounts(a, h, r, t, g),
           heard' = [heard EXCEPT ![l] = h], screen' = [screen EXCEPT ![l] = r],
           transcript' = [transcript EXCEPT ![l] = t], gone' = [gone EXCEPT ![l] = g]
    PROVE  /\ \A m \in TerminalLanes : Accounted(m)'
           /\ heard' = [m \in TerminalLanes |-> heard'[m]]
           /\ gone' = [m \in TerminalLanes |-> gone'[m]]
           /\ screen' = [m \in TerminalLanes |-> screen'[m]]
<1>1. /\ heard = [m \in TerminalLanes |-> heard[m]] /\ gone = [m \in TerminalLanes |-> gone[m]]
      /\ screen = [m \in TerminalLanes |-> screen[m]]
      /\ transcript = [m \in TerminalLanes |-> transcript[m]]
    BY DEF TranscriptsInv, Types, TerminalsInv
<1>2. /\ heard' = [m \in TerminalLanes |-> heard'[m]]
      /\ gone' = [m \in TerminalLanes |-> gone'[m]]
      /\ screen' = [m \in TerminalLanes |-> screen'[m]]
    BY <1>1
<1>3. ASSUME NEW m \in TerminalLanes
      PROVE  Accounted(m)'
    <2>1. CASE m = l
        <3>1. heard'[m] = h /\ screen'[m] = r /\ transcript'[m] = t /\ gone'[m] = g
            BY <1>1, <2>1
        <3> QED
            BY <3>1 DEF Accounted
    <2>2. CASE m # l
        <3>1. heard'[m] = heard[m] /\ screen'[m] = screen[m] /\ transcript'[m] = transcript[m] /\ gone'[m] = gone[m]
            BY <1>1, <2>2
        <3> QED
            BY <3>1 DEF Accounted, TranscriptsInv
    <2> QED
        BY <2>1, <2>2
<1> QED
    BY <1>2, <1>3

\* What a process prints keeps the account.
LEMMA SpeakKeepsAccounts ==
    ASSUME TerminalsInv, TranscriptsInv, NEW l \in TerminalLanes, Speak(l)
    PROVE  /\ \A m \in TerminalLanes : Accounted(m)'
           /\ heard' = [m \in TerminalLanes |-> heard'[m]]
           /\ gone' = [m \in TerminalLanes |-> gone'[m]]
           /\ screen' = [m \in TerminalLanes |-> screen'[m]]
<1>1. PICK k \in 1 .. Min({MaxChunk, Len(screen[l])}) :
        LET chunk == SubSeq(screen[l], 1, k)
            t == Feed(transcript[l], chunk)
            dropped == Excess(Stripped(transcript[l], chunk))
            wakes == at = "waiting" /\ Lane = l /\ ~settled.done /\ Found(t)
        IN  /\ screen' = [screen EXCEPT ![l] = SubSeq(@, k + 1, Len(@))]
            /\ heard' = [heard EXCEPT ![l] = @ \o chunk]
            /\ IF wakes
               THEN /\ settled' = ResultIn(t)
                    /\ transcript' = [transcript EXCEPT ![l] = TakeMatch(t, Pattern)]
                    /\ gone' = [gone EXCEPT ![l] = @ + dropped + Len(ResultIn(t).text)]
               ELSE /\ transcript' = [transcript EXCEPT ![l] = t]
                    /\ gone' = [gone EXCEPT ![l] = @ + dropped]
                    /\ UNCHANGED settled
    BY DEF Speak
<1> DEFINE s == screen[l]
           c == SubSeq(s, 1, k)
           r == SubSeq(s, k + 1, Len(s))
           t == Feed(transcript[l], c)
           d == Excess(Stripped(transcript[l], c))
           h == heard[l] \o c
           wakes == at = "waiting" /\ Lane = l /\ ~settled.done /\ Found(t)
<1>2. /\ screen' = [screen EXCEPT ![l] = r]
      /\ heard' = [heard EXCEPT ![l] = h]
    BY <1>1
<1>3. wakes => /\ transcript' = [transcript EXCEPT ![l] = TakeMatch(t, Pattern)]
               /\ gone' = [gone EXCEPT ![l] = (gone[l] + d) + Len(ResultIn(t).text)]
    <2>1. gone = [m \in TerminalLanes |-> gone[m]]
        BY DEF TranscriptsInv, Types
    <2> QED
        BY <1>1, <2>1
<1>4. ~wakes => /\ transcript' = [transcript EXCEPT ![l] = t]
                /\ gone' = [gone EXCEPT ![l] = gone[l] + d]
    BY <1>1
<1>5. PICK a : Accounts(a, heard[l], s, transcript[l], gone[l])
    BY DEF TranscriptsInv, Accounted
<1>6. s \in Seq(Character) /\ Len(s) \in Nat
    BY <1>5 DEF Accounts
<1>7. k \in 0..Len(s)
    <2>1. {MaxChunk, Len(s)} \in SUBSET Nat /\ {MaxChunk, Len(s)} # {}
        BY <1>6, LanesAssumption
    <2>2. Min({MaxChunk, Len(s)}) \in Nat /\ Min({MaxChunk, Len(s)}) <= Len(s)
        BY <2>1, MinIsLeast
    <2>3. k \in 1..Min({MaxChunk, Len(s)})
        OBVIOUS
    <2> DEFINE m == Min({MaxChunk, Len(s)})
    <2>4. k \in 1..m /\ m \in Nat /\ m <= Len(s)
        BY <2>2, <2>3
    <2> HIDE DEF m
    <2> QED
        BY <1>6, <2>4
<1> HIDE DEF s
<1>8. c \in Seq(Character) /\ c \o r = s
    BY <1>6, <1>7, FrontAndRest
<1>9. r \in Seq(Character)
    BY <1>6, <1>7, DroppedIs
<1> HIDE DEF c, r
<1>10. \E b : Accounts(b, h, r, t, gone[l] + d)
    <2>1. Accounts(a, heard[l], c \o r, transcript[l], gone[l])
        BY <1>5, <1>8
    <2> QED
        BY <1>8, <1>9, <2>1, FedAccount
<1> HIDE DEF t, d, h
<1>11. CASE wakes
    <2>1. Hits(t, Pattern) # {} /\ ResultIn(t).text = TextThrough(t, Pattern)
        BY <1>11 DEF Found, ResultIn
    <2>2. PICK b : Accounts(b, h, r, t, gone[l] + d)
        BY <1>10
    <2>3. Accounts(b, h, r, TakeMatch(t, Pattern), (gone[l] + d) + Len(TextThrough(t, Pattern)))
        BY <2>1, <2>2, TakenAccount
    <2>4. \E e : Accounts(e, h, r, TakeMatch(t, Pattern), (gone[l] + d) + Len(ResultIn(t).text))
        BY <2>1, <2>3
    <2> HIDE DEF wakes
    <2> QED
        BY <1>2, <1>3, <1>11, <2>4, OneLaneAccounted
<1>12. CASE ~wakes
    <2> HIDE DEF wakes
    <2> QED
        BY <1>2, <1>4, <1>10, <1>12, OneLaneAccounted
<1> QED
    BY <1>11, <1>12

\* Every step keeps every lane's account.
LEMMA StepAccounts == TerminalsInv /\ TranscriptsInv /\ [Next]_vars => TranscriptsInv'
<1> SUFFICES ASSUME TerminalsInv, TranscriptsInv, [Next]_vars PROVE TranscriptsInv'
    OBVIOUS
<1> USE DEF TranscriptsInv
<1>t. Types
    OBVIOUS
<1>l. at \in {"started", "typed", "waiting"} => Lane \in TerminalLanes
    BY DEF TerminalsInv, InALane
<1>n. Undecided.status \in Statuses /\ [Undecided EXCEPT !.status = "failed"].status \in Statuses
      /\ [Undecided EXCEPT !.status = "done"].status \in Statuses
    BY DEF Undecided, Statuses
<1>h. \A l \in TerminalLanes : session[l] # "open" => heard[l] = <<>> /\ gone[l] = 0
    BY DEF NothingHeard
<1>s. UNCHANGED <<session, heard, gone>> => NothingHeard'
    BY DEF NothingHeard
<1> USE DEF Types
<1>1. CASE RaiseAborted
    BY <1>1, <1>s, SameAccounts DEF RaiseAborted, wait, lanes
<1>2. CASE RunTimesOut
    BY <1>2, <1>s, SameAccounts DEF RunTimesOut, wait, lanes
<1>3. CASE StartNode
    <2>1. CASE Lane = NoLane
        BY <1>3, <1>n, <1>s, <2>1, EndKeepsTypes, SameAccounts DEF StartNode, wait, lanes
    <2>2. CASE Lane # NoLane
        BY <1>3, <1>s, <2>2, SameAccounts DEF StartNode, wait, lanes
    <2> QED
        BY <2>1, <2>2
<1>4. CASE OpenTerminal
    <2>1. PICK b \in Banners : screen' = [screen EXCEPT ![Lane] = b]
        BY <1>4 DEF OpenTerminal
    <2>2. b \in Seq(Character) /\ CutSafely(b)
        BY OutputAssumption
    <2>3. Lane \in TerminalLanes /\ transcript[Lane] = Empty /\ heard[Lane] = <<>> /\ gone[Lane] = 0
        BY <1>4, <1>h, <1>l DEF OpenTerminal, TerminalsInv, ClosedIsSilent
    <2>4. \E a : Accounts(a, <<>>, b, Empty, 0)
        BY <2>2, FirstAccount
    <2>5. /\ heard' = [heard EXCEPT ![Lane] = <<>>] /\ transcript' = [transcript EXCEPT ![Lane] = Empty]
          /\ gone' = [gone EXCEPT ![Lane] = 0]
        BY <1>4, <2>3 DEF OpenTerminal, TerminalsInv
    <2>6. /\ \A m \in TerminalLanes : Accounted(m)'
          /\ heard' = [m \in TerminalLanes |-> heard'[m]]
          /\ gone' = [m \in TerminalLanes |-> gone'[m]]
          /\ screen' = [m \in TerminalLanes |-> screen'[m]]
        BY <2>1, <2>3, <2>4, <2>5, OneLaneAccounted
    <2>7. NothingHeard'
        BY <1>4, <1>h DEF OpenTerminal, NothingHeard
    <2> QED
        BY <1>4, <2>6, <2>7 DEF OpenTerminal, walk, wait
<1>5. CASE OpenFails
    BY <1>5, <1>n, <1>s, EndKeepsTypes, SameAccounts DEF OpenFails, wait, lanes
<1>6. CASE Type
    <2>1. PICK reply \in IF process[Lane] = "alive" THEN Replies(plan, pos) ELSE {<<>>} :
             screen' = [screen EXCEPT ![Lane] = @ \o reply]
        BY <1>6 DEF Type
    <2>2. reply \in Seq(Character) /\ CutSafely(reply)
        BY <2>1, OutputAssumption, NothingPrinted DEF TerminalsInv
    <2>3. ClearFirst
        BY <1>6 DEF Type
    <2>4. /\ \A m \in TerminalLanes : Accounted(m)'
          /\ heard' = [m \in TerminalLanes |-> heard'[m]]
          /\ gone' = [m \in TerminalLanes |-> gone'[m]]
          /\ screen' = [m \in TerminalLanes |-> screen'[m]]
        BY <2>1, <2>2, <2>3, ClearKeepsAccounts
    <2>5. NothingHeard'
        BY <1>6, <1>h, <2>3 DEF Type, ClearFirst, NothingHeard
    <2>6. CASE Node.kind = "run"
        BY <1>6, <2>4, <2>5, <2>6 DEF Type, wait
    <2>7. CASE Node.kind # "run"
        BY <1>6, <1>n, <2>4, <2>5, <2>7, EndKeepsTypes DEF Type, wait
    <2> QED
        BY <2>6, <2>7
<1>7. CASE TypeFails
    <2>1. /\ \A m \in TerminalLanes : Accounted(m)'
          /\ heard' = [m \in TerminalLanes |-> heard'[m]]
          /\ gone' = [m \in TerminalLanes |-> gone'[m]]
          /\ screen' = [m \in TerminalLanes |-> screen'[m]]
        BY <1>7, NothingPrinted, ClearKeepsAccounts DEF TypeFails
    <2>2. NothingHeard'
        BY <1>7, <1>h DEF TypeFails, ClearFirst, NothingHeard
    <2> QED
        BY <1>7, <1>n, <2>1, <2>2, EndKeepsTypes DEF TypeFails, wait
<1>8. CASE MatchAtOnce
    <2> DEFINE t == transcript[Lane]
               k == gone[Lane] + Len(TextThrough(t, Pattern))
    <2>1. Lane \in TerminalLanes /\ Hits(t, Pattern) # {}
        BY <1>8, <1>l DEF MatchAtOnce, Waits, Found
    <2>2. PICK a : Accounts(a, heard[Lane], screen[Lane], t, gone[Lane])
        BY <2>1 DEF Accounted
    <2>3. Accounts(a, heard[Lane], screen[Lane], TakeMatch(t, Pattern), k)
        BY <2>1, <2>2, TakenAccount
    <2>4. /\ transcript' = [transcript EXCEPT ![Lane] = TakeMatch(t, Pattern)]
          /\ gone' = [gone EXCEPT ![Lane] = k]
          /\ heard' = [heard EXCEPT ![Lane] = heard[Lane]]
          /\ screen' = [screen EXCEPT ![Lane] = screen[Lane]]
        BY <1>8, <2>1 DEF MatchAtOnce
    <2> HIDE DEF t, k
    <2>5. \E b : Accounts(b, heard[Lane], screen[Lane], TakeMatch(t, Pattern), k)
        BY <2>3
    <2>6. /\ \A m \in TerminalLanes : Accounted(m)'
          /\ heard' = [m \in TerminalLanes |-> heard'[m]]
          /\ gone' = [m \in TerminalLanes |-> gone'[m]]
          /\ screen' = [m \in TerminalLanes |-> screen'[m]]
        BY <2>1, <2>4, <2>5, OneLaneAccounted
    <2>7. NothingHeard'
        BY <1>8, <1>h, <2>4 DEF MatchAtOnce, NothingHeard
    <2>8. /\ EndWait("matched", ResultIn(t).text, ResultIn(t).found)
          /\ UNCHANGED <<session, process, watcher>>
        BY <1>8 DEF MatchAtOnce, t
    <2>9. timer' = "off" /\ \E result : \E ok \in BOOLEAN : EndNode(result, ok) /\ result.status \in Statuses
        BY <2>8, WaitsEndNodes DEF Statuses
    <2> QED
        BY <2>6, <2>7, <2>8, <2>9, EndKeepsTypes
<1>9. CASE StartWait
    BY <1>9, <1>s, SameAccounts DEF StartWait, lanes
<1>10. CASE Resume
    <2>1. timer' = "off" /\ \E result : \E ok \in BOOLEAN : EndNode(result, ok) /\ result.status \in Statuses
        <3>1. Outcome \in Statuses /\ "matched" \in Statuses
            BY DEF Outcome, Statuses
        <3>2. \E text, found : \E status \in Statuses : EndWait(status, text, found)
            BY <1>10, <3>1 DEF Resume
        <3> QED
            BY <3>2, WaitsEndNodes
    <2>2. CASE Outcome = "matched"
        BY <1>10, <1>s, <2>1, <2>2, EndKeepsTypes, SameAccounts DEF Resume
    <2>3. CASE Outcome # "matched"
        <3> DEFINE t == transcript[Lane]
                   t1 == [t EXCEPT !.text = <<>>]
                   k == gone[Lane] + Len(t.text)
        <3>1. Lane \in TerminalLanes
            BY <1>10, <1>l DEF Resume
        <3>2. PICK a : Accounts(a, heard[Lane], screen[Lane], t, gone[Lane])
            BY <3>1 DEF Accounted
        <3>3. Accounts(a, heard[Lane], screen[Lane], t1, k)
            BY <3>2, EmptiedAccount
        <3>4. /\ transcript' = [transcript EXCEPT ![Lane] = t1]
              /\ gone' = [gone EXCEPT ![Lane] = k]
              /\ heard' = [heard EXCEPT ![Lane] = heard[Lane]]
              /\ screen' = [screen EXCEPT ![Lane] = screen[Lane]]
              /\ UNCHANGED <<session, process, watcher>>
            BY <1>10, <2>3, <3>1 DEF Resume
        <3> HIDE DEF t1, k
        <3>5. \E b : Accounts(b, heard[Lane], screen[Lane], t1, k)
            BY <3>3
        <3>6. /\ \A m \in TerminalLanes : Accounted(m)'
              /\ heard' = [m \in TerminalLanes |-> heard'[m]]
              /\ gone' = [m \in TerminalLanes |-> gone'[m]]
              /\ screen' = [m \in TerminalLanes |-> screen'[m]]
            BY <3>1, <3>4, <3>5, OneLaneAccounted
        <3>7. NothingHeard'
            <4>1. session[Lane] # "open" => t.text = <<>> /\ gone[Lane] = 0
                BY <1>h, <3>1 DEF TerminalsInv, ClosedIsSilent, Empty
            <4>2. session[Lane] # "open" => k = 0
                BY <4>1 DEF k
            <4> QED
                BY <1>h, <3>4, <4>2 DEF NothingHeard
        <3> QED
            BY <2>1, <3>4, <3>6, <3>7, EndKeepsTypes
    <2> QED
        BY <2>2, <2>3
<1>11. CASE CloseTerminal
    <2>1. PICK l \in TerminalLanes :
            /\ session[l] = "open"
            /\ session' = [session EXCEPT ![l] = "closed"]
            /\ transcript' = [transcript EXCEPT ![l] = Empty]
            /\ watcher' = [watcher EXCEPT ![l] = IF @ = "pending" THEN "cancelled" ELSE @]
            /\ screen' = [screen EXCEPT ![l] = <<>>]
            /\ heard' = [heard EXCEPT ![l] = <<>>]
            /\ gone' = [gone EXCEPT ![l] = 0]
            /\ \E p \in {"dead", process[l]} : process' = [process EXCEPT ![l] = p]
        BY <1>11 DEF CloseTerminal
    <2>2. \E a : Accounts(a, <<>>, <<>>, Empty, 0)
        BY NothingPrinted, FirstAccount
    <2>3. /\ \A m \in TerminalLanes : Accounted(m)'
          /\ heard' = [m \in TerminalLanes |-> heard'[m]]
          /\ gone' = [m \in TerminalLanes |-> gone'[m]]
          /\ screen' = [m \in TerminalLanes |-> screen'[m]]
        BY <2>1, <2>2, OneLaneAccounted
    <2>4. NothingHeard'
        BY <1>h, <2>1 DEF NothingHeard
    <2>5. process' \in [TerminalLanes -> {"none", "alive", "dead"}]
        BY <2>1
    <2>6. watcher' \in [TerminalLanes -> {"none", "pending", "exited", "broken", "cancelled"}]
        BY <2>1
    <2>7. session' \in [TerminalLanes -> {"none", "open", "closed"}]
        BY <2>1
    <2> QED
        BY <1>11, <2>3, <2>4, <2>5, <2>6, <2>7 DEF CloseTerminal, walk, wait
<1>12. CASE EndRun
    BY <1>12, <1>s, SameAccounts DEF EndRun, wait, lanes
<1>13. CASE TimerFires
    BY <1>13, <1>s, SameAccounts DEF TimerFires, walk, lanes
<1>14. CASE Abort
    BY <1>14, <1>s, SameAccounts DEF Abort, wait, lanes
<1>15. ASSUME NEW l \in TerminalLanes, Speak(l) PROVE TranscriptsInv'
    <2>1. /\ \A m \in TerminalLanes : Accounted(m)'
          /\ heard' = [m \in TerminalLanes |-> heard'[m]]
          /\ gone' = [m \in TerminalLanes |-> gone'[m]]
          /\ screen' = [m \in TerminalLanes |-> screen'[m]]
        BY <1>15, SpeakKeepsAccounts
    <2>2. UNCHANGED <<walk, timer, session, process, watcher>>
        BY <1>15 DEF Speak
    <2>3. session[l] = "open" /\ \A m \in TerminalLanes : m # l => heard'[m] = heard[m] /\ gone'[m] = gone[m]
        BY <1>15 DEF Speak
    <2>4. NothingHeard'
        BY <1>h, <2>2, <2>3 DEF NothingHeard
    <2> QED
        BY <2>1, <2>2, <2>4 DEF walk
<1>16. ASSUME NEW l \in TerminalLanes, Die(l) PROVE TranscriptsInv'
    BY <1>16, <1>s, SameAccounts DEF Die, walk, wait
<1>17. ASSUME NEW l \in TerminalLanes, WatcherEnds(l) PROVE TranscriptsInv'
    BY <1>17, <1>s, SameAccounts DEF WatcherEnds, walk, wait
<1>18. CASE UNCHANGED vars
    BY <1>18, <1>s, SameAccounts DEF vars, walk, wait, lanes
<1> QED
    BY <1>1, <1>2, <1>3, <1>4, <1>5, <1>6, <1>7, <1>8, <1>9, <1>10, <1>11, <1>12, <1>13,
       <1>14, <1>15, <1>16, <1>17, <1>18 DEF Next, Walk

\* The invariant holds in every reachable state.
THEOREM TranscriptsInvariant == Spec => []TranscriptsInv
BY InitAccounts, StepAccounts, TerminalsInvariant, PTL DEF Spec

\* However append (runtime/terminal.py) is fed output without operating system
\* commands (OSC), whose escapes all end, none later than _MAX_PENDING_ESCAPE
\* characters on, a transcript holds what a person reads of the output since it was
\* cleared, less what waits took and the cap dropped from its front; both of its
\* buffers keep within their bounds.  Of other output nothing is claimed.
THEOREM TranscriptsAreAlwaysSound == Spec => []TranscriptsAreSound
<1>1. TerminalsInv /\ TranscriptsInv => TranscriptsAreSound
    <2> SUFFICES ASSUME TerminalsInv, TranscriptsInv PROVE TranscriptsAreSound
        OBVIOUS
    <2>1. ASSUME NEW l \in TerminalLanes
          PROVE  /\ Len(transcript[l].text) <= MaxBuffer /\ Len(transcript[l].tail) <= MaxPending
                 /\ transcript[l].text \o transcript[l].tail
                        = SubSeq(Strip(heard[l]), gone[l] + 1, Len(Strip(heard[l])))
        <3>1. PICK a : Accounts(a, heard[l], screen[l], transcript[l], gone[l])
            BY DEF TranscriptsInv, Accounted
        <3>2. Len(transcript[l].text) <= MaxBuffer /\ Len(transcript[l].tail) <= MaxPending
            BY <3>1 DEF Accounts
        <3> QED
            BY <3>1, <3>2, AccountsForAll
    <2>2. TypeOK
        BY <2>1 DEF TypeOK, TerminalsInv, TranscriptsInv, Types
    <2>3. NothingLost
        BY <2>1 DEF NothingLost
    <2> QED
        BY <2>2, <2>3 DEF TranscriptsAreSound
<1> QED
    BY <1>1, TerminalsInvariant, TranscriptsInvariant, PTL

-----------------------------------------------------------------------------
(* The answers *)

SpentIn(c, s, n) == Class(c) = "prompt" => ~Has(s, c) /\ c \in Prompts(n)

\* A prompt that is gone stays gone while nothing is added.
LEMMA StaysSpent ==
    ASSUME NEW x \in Seq(Character), NEW y \in Seq(Character), Within(x, y),
           NEW n \in Nat, NEW m \in Nat, n <= m, NEW c, SpentIn(c, y, n)
    PROVE  SpentIn(c, x, m)
<1>1. Has(x, c) => Has(y, c)
    BY WithinKeeps
<1>2. Prompts(n) \subseteq Prompts(m)
    <2>1. 0..n \subseteq 0..m
        OBVIOUS
    <2> QED
        BY <2>1 DEF Prompts
<1> QED
    BY <1>1, <1>2 DEF SpentIn

\* So does the range of the prompts that are left.
LEMMA StaysUpto ==
    ASSUME NEW x \in Seq(Character), NEW y \in Seq(Character), Within(x, y),
           NEW n \in Nat, NEW m \in Nat, n <= m, Upto(y, n)
    PROVE  Upto(x, m)
<1>1. Upto(x, n)
    BY WithinKeeps
<1>2. Prompts(n) \subseteq Prompts(m)
    <2>1. 0..n \subseteq 0..m
        OBVIOUS
    <2> QED
        BY <2>1 DEF Prompts
<1> QED
    BY <1>1, <1>2 DEF Upto

\* What an answer to node m adds.
LEMMA AnswerAdded ==
    ASSUME NEW x \in Seq(Character), NEW y \in Seq(Character), NEW n \in Nat, NEW m \in Nat, n < m,
           Once(x), Upto(x, n), PromptOnce(y, m)
    PROVE  /\ Once(x \o y) /\ Upto(x \o y, m)
           /\ \A c \in Prompts(n) : ~Has(x, c) => ~Has(x \o y, c)
<1> DEFINE z == x \o y
           p == Len(x)
           q == Len(y)
<1>1. /\ p \in Nat /\ q \in Nat /\ Len(z) = p + q /\ DOMAIN y = 1..q
      /\ \A i \in 1..p + q : z[i] = IF i <= p THEN x[i] ELSE y[i - p]
    BY ConcatProperties, LenProperties
<1>2. /\ \A i, j \in 1..p : x[i] = x[j] /\ Class(x[i]) = "prompt" => i = j
      /\ \A k \in 1..p : Class(x[k]) = "prompt" => x[k] \in Prompts(n)
    BY DEF Once, Upto
<1>3. /\ \A i \in 1..q : Class(y[i]) = "prompt" => y[i] = <<"prompt", m>>
      /\ \A i, j \in 1..q : y[i] = y[j] /\ Class(y[i]) = "prompt" => i = j
    BY <1>1 DEF PromptOnce
<1>4. <<"prompt", m>> \notin Prompts(n) /\ Prompts(n) \subseteq Prompts(m) /\ <<"prompt", m>> \in Prompts(m)
    <2>1. 0..n \subseteq 0..m /\ m \in 0..m
        OBVIOUS
    <2>2. \A k \in 0..n : k # m
        OBVIOUS
    <2> QED
        BY <2>1, <2>2 DEF Prompts
<1>5. \A c \in Prompts(n) : Class(c) = "prompt"
    BY DEF Prompts, Class
<1> HIDE DEF z, p, q
<1>6. \A i \in 1..p + q : i <= p => i \in 1..p /\ z[i] = x[i]
    BY <1>1
<1>7. \A i \in 1..p + q : ~(i <= p) => i - p \in 1..q /\ z[i] = y[i - p]
    BY <1>1
<1>8. ASSUME NEW i \in 1..p + q, NEW j \in 1..p + q, z[i] = z[j], Class(z[i]) = "prompt"
      PROVE  i = j
    <2>1. CASE i <= p /\ j <= p
        BY <1>2, <1>6, <1>8, <2>1
    <2>2. CASE ~(i <= p) /\ ~(j <= p)
        <3>1. i - p \in 1..q /\ j - p \in 1..q /\ z[i] = y[i - p] /\ z[j] = y[j - p]
            BY <1>7, <2>2
        <3>2. i - p = j - p
            BY <1>3, <1>8, <3>1
        <3> QED
            BY <1>1, <3>2
    <2>3. CASE i <= p /\ ~(j <= p)
        <3>1. z[i] \in Prompts(n) /\ z[j] = <<"prompt", m>>
            BY <1>2, <1>3, <1>6, <1>7, <1>8, <2>3
        <3> QED
            BY <1>4, <1>8, <3>1
    <2>4. CASE ~(i <= p) /\ j <= p
        <3>1. z[j] \in Prompts(n) /\ z[i] = <<"prompt", m>>
            BY <1>2, <1>3, <1>6, <1>7, <1>8, <2>4
        <3> QED
            BY <1>4, <1>8, <3>1
    <2> QED
        BY <2>1, <2>2, <2>3, <2>4
<1>9. Once(z)
    BY <1>1, <1>8 DEF Once
<1>10. Upto(z, m)
    <2>1. ASSUME NEW k \in 1..p + q, Class(z[k]) = "prompt"
          PROVE  z[k] \in Prompts(m)
        <3>1. CASE k <= p
            BY <1>2, <1>4, <1>6, <2>1, <3>1
        <3>2. CASE ~(k <= p)
            BY <1>3, <1>4, <1>7, <2>1, <3>2
        <3> QED
            BY <3>1, <3>2
    <2> QED
        BY <1>1, <2>1 DEF Upto
<1>11. ASSUME NEW c \in Prompts(n), Has(z, c)
       PROVE  Has(x, c)
    <2>1. PICK k \in 1..p + q : z[k] = c
        BY <1>1, <1>11 DEF Has
    <2>2. CASE k <= p
        BY <1>6, <2>1, <2>2 DEF Has, p
    <2>3. CASE ~(k <= p)
        <3>1. c = <<"prompt", m>>
            BY <1>3, <1>5, <1>7, <1>11, <2>1, <2>3
        <3> QED
            BY <1>4, <3>1
    <2> QED
        BY <2>2, <2>3
<1> QED
    BY <1>9, <1>10, <1>11 DEF z

\* What a lane has taken in or will, in the order of the output.
Shown(l) == (transcript[l].text \o transcript[l].tail) \o screen[l]

\* The last node whose answer can have been printed.
Last == IF at \in {"head", "started"} THEN pos - 1 ELSE pos

PatternOf(i) == IF plan[i].kind = "run" THEN {<<c, i>> : c \in {"zero", "nonzero"}}
                ELSE {<<"prompt", m>> : m \in 0..Len(plan)}

LaneOf(i) == LaneFor(plan[i].id)

Going == at \in {"head", "started", "typed", "waiting"}

AnswersTaken ==
    \A i \in DOMAIN plan : Answered(i) =>
        /\ verdict[i].found \in PatternOf(i)
        /\ i <= pos /\ (Going => i < pos)
        /\ LaneOf(i) \in TerminalLanes /\ session[LaneOf(i)] # "none"
        /\ SpentIn(verdict[i].found, Shown(LaneOf(i)), Last)

AnswersDiffer ==
    \A i, j \in DOMAIN plan :
        Answered(i) /\ Answered(j) /\ i # j /\ LaneOf(i) = LaneOf(j)
            => verdict[i].found # verdict[j].found

AnswersShown == \A l \in TerminalLanes : Once(Shown(l)) /\ Upto(Shown(l), Last)

AnswerFound ==
    settled.done =>
        /\ at = "waiting" /\ settled.found \in Pattern
        /\ SpentIn(settled.found, Shown(Lane), Last)
        /\ \A i \in DOMAIN plan : Answered(i) /\ LaneOf(i) = Lane => verdict[i].found # settled.found

WaitsOnALane == at = "waiting" => session[Lane] # "none"

AnswersInv == AnswersTaken /\ AnswersDiffer /\ AnswersShown /\ AnswerFound /\ WaitsOnALane

\* The current node's pattern and lane are those of its place in the plan.
LEMMA PatternIs == Pattern = PatternOf(pos) /\ Lane = LaneOf(pos)
BY DEF Pattern, PatternOf, Lane, LaneOf, Node

\* The places in the plan are numbers.
LEMMA Positions ==
    ASSUME TerminalsInv
    PROVE  pos \in Nat /\ pos >= 1 /\ Last \in Nat /\ Last <= pos /\ DOMAIN plan \subseteq Nat
<1>1. plan \in Seq(NodeRecord) /\ pos \in DOMAIN plan
    BY PlansAssumption DEF TerminalsInv
<1>2. DOMAIN plan = 1..Len(plan) /\ Len(plan) \in Nat
    BY <1>1
<1>3. pos \in Nat /\ pos >= 1
    BY <1>1, <1>2
<1> QED
    BY <1>2, <1>3 DEF Last

\* What a lane shows, and its parts, are text.
LEMMA ShownIsText ==
    ASSUME TranscriptsInv, NEW l \in TerminalLanes
    PROVE  /\ Shown(l) \in Seq(Character) /\ screen[l] \in Seq(Character)
           /\ transcript[l] \in [text : Seq(Character), tail : Seq(Character)]
<1>1. PICK a : Accounts(a, heard[l], screen[l], transcript[l], gone[l])
    BY DEF TranscriptsInv, Accounted
<1>2. screen[l] \in Seq(Character) /\ transcript[l] \in [text : Seq(Character), tail : Seq(Character)]
    BY <1>1 DEF Accounts
<1>3. transcript[l].text \in Seq(Character) /\ transcript[l].tail \in Seq(Character)
    BY <1>2
<1> QED
    BY <1>2, <1>3, ConcatProperties DEF Shown

\* So they are after a step.
LEMMA ShownStaysText ==
    ASSUME TranscriptsInv', NEW l \in TerminalLanes
    PROVE  Shown(l)' \in Seq(Character)
<1>1. PICK a : Accounts(a, heard'[l], screen'[l], transcript'[l], gone'[l])
    BY DEF TranscriptsInv, Accounted
<1>2. screen'[l] \in Seq(Character) /\ transcript'[l] \in [text : Seq(Character), tail : Seq(Character)]
    BY <1>1 DEF Accounts
<1>3. transcript'[l].text \in Seq(Character) /\ transcript'[l].tail \in Seq(Character)
    BY <1>2
<1> QED
    BY <1>2, <1>3, ConcatProperties DEF Shown

\* The answers of two nodes that ended differ unless both are prompts.
LEMMA PatternsApart ==
    ASSUME NEW i \in DOMAIN plan, NEW j \in DOMAIN plan, i # j,
           NEW c \in PatternOf(i), NEW d \in PatternOf(j), c = d
    PROVE  Class(c) = "prompt"
BY DEF PatternOf, Class

\* At the start no node is answered and nothing is shown.
LEMMA InitAnswers == Init => AnswersInv
<1> SUFFICES ASSUME Init PROVE AnswersInv
    OBVIOUS
<1>1. \A i \in DOMAIN plan : ~Answered(i)
    BY DEF Init, Answered, Undecided
<1>2. at = "head" /\ ~settled.done
    BY DEF Init, Nothing
<1>3. AnswersShown
    <2>1. <<>> \in Seq(Character) /\ Len(<<>>) = 0
        OBVIOUS
    <2>2. <<>> \o <<>> = <<>>
        BY <2>1, ConcatEmptySeq
    <2>3. \A l \in TerminalLanes : Shown(l) = <<>>
        BY <2>2 DEF Init, Shown, Empty
    <2> QED
        BY <2>1, <2>3 DEF AnswersShown, Once, Upto
<1> QED
    BY <1>1, <1>2, <1>3 DEF AnswersInv, AnswersTaken, AnswersDiffer, AnswerFound, WaitsOnALane

\* What a lane shows is still in order, and what it no longer shows stays so.
ShownKept ==
    /\ AnswersShown'
    /\ \A l \in TerminalLanes : \A c :
          session[l] # "none" /\ SpentIn(c, Shown(l), Last) => SpentIn(c, Shown(l)', Last')

\* The last node whose answer can have been printed has a number after a step.
LEMMA NextLast ==
    ASSUME TerminalsInv, pos' \in {pos, pos + 1}
    PROVE  pos' \in Nat /\ Last' \in Nat
<1>1. pos \in Nat /\ pos >= 1
    BY Positions
<1>2. pos' \in Nat /\ pos' >= 1
    BY <1>1
<1>3. Last' = IF at' \in {"head", "started"} THEN pos' - 1 ELSE pos'
    BY DEF Last
<1>4. \A n \in Nat : n >= 1 => n - 1 \in Nat
    OBVIOUS
<1> QED
    BY <1>2, <1>3, <1>4

\* A step that adds nothing to what the lanes show.
LEMMA ShownShrinks ==
    ASSUME TerminalsInv, TranscriptsInv, TranscriptsInv', AnswersInv,
           pos' \in {pos, pos + 1}, Last <= Last',
           \A l \in TerminalLanes : Within(Shown(l)', Shown(l))
    PROVE  ShownKept
<1>1. Last \in Nat /\ Last' \in Nat
    BY Positions, NextLast
<1>2. ASSUME NEW l \in TerminalLanes, NEW c, SpentIn(c, Shown(l), Last)
      PROVE  SpentIn(c, Shown(l)', Last')
    <2>1. Shown(l) \in Seq(Character) /\ Shown(l)' \in Seq(Character)
        BY ShownIsText, ShownStaysText
    <2> QED
        BY <1>1, <1>2, <2>1, StaysSpent
<1>3. AnswersShown'
    <2>1. ASSUME NEW l \in TerminalLanes
          PROVE  Once(Shown(l)') /\ Upto(Shown(l)', Last')
        <3>1. Shown(l) \in Seq(Character) /\ Shown(l)' \in Seq(Character)
            BY ShownIsText, ShownStaysText
        <3>2. Once(Shown(l)) /\ Upto(Shown(l), Last)
            BY DEF AnswersInv, AnswersShown
        <3> QED
            BY <1>1, <3>1, <3>2, StaysUpto, WithinKeeps
    <2> QED
        BY <2>1 DEF AnswersShown
<1> QED
    BY <1>2, <1>3 DEF ShownKept

\* A step that answers no node.
LEMMA QuietStep ==
    ASSUME TerminalsInv, AnswersInv, ShownKept,
           plan' = plan, pos' \in {pos, pos + 1},
           \A i \in DOMAIN plan : Answered(i)' => Answered(i) /\ verdict'[i] = verdict[i],
           Going' => pos' = pos + 1 \/ Going,
           \A l \in TerminalLanes : session[l] # "none" => session'[l] # "none",
           settled'.done => settled' = settled /\ at' = "waiting" /\ pos' = pos,
           WaitsOnALane'
    PROVE  AnswersInv'
<1>1. pos \in Nat /\ Last \in Nat /\ pos' \in Nat /\ Last' \in Nat /\ DOMAIN plan \subseteq Nat
    BY Positions, NextLast
<1>2. \A l \in TerminalLanes : \A c :
          session[l] # "none" /\ SpentIn(c, Shown(l), Last) => SpentIn(c, Shown(l)', Last')
    BY DEF ShownKept
<1>3. AnswersShown'
    BY DEF ShownKept
<1>4. \A i \in DOMAIN plan : PatternOf(i)' = PatternOf(i) /\ LaneOf(i)' = LaneOf(i)
    BY DEF PatternOf, LaneOf
<1>5. AnswersTaken'
    <2>1. ASSUME NEW i \in DOMAIN plan, Answered(i)'
          PROVE  /\ verdict'[i].found \in PatternOf(i)
                 /\ i <= pos' /\ (Going' => i < pos')
                 /\ LaneOf(i) \in TerminalLanes /\ session'[LaneOf(i)] # "none"
                 /\ SpentIn(verdict'[i].found, Shown(LaneOf(i))', Last')
        <3>1. Answered(i) /\ verdict'[i] = verdict[i]
            BY <2>1
        <3>2. /\ verdict[i].found \in PatternOf(i)
              /\ i <= pos /\ (Going => i < pos)
              /\ LaneOf(i) \in TerminalLanes /\ session[LaneOf(i)] # "none"
              /\ SpentIn(verdict[i].found, Shown(LaneOf(i)), Last)
            BY <3>1 DEF AnswersInv, AnswersTaken
        <3>3. i <= pos' /\ (Going' => i < pos')
            BY <1>1, <3>2
        <3>4. PICK l \in TerminalLanes : l = LaneOf(i)
            BY <3>2
        <3>5. SpentIn(verdict[i].found, Shown(l)', Last')
            BY <1>2, <3>2, <3>4
        <3>6. l = LaneOf(i)'
            BY <1>4, <3>4
        <3> QED
            BY <3>1, <3>2, <3>3, <3>4, <3>5, <3>6
    <2> QED
        BY <1>4, <2>1 DEF AnswersTaken
<1>6. AnswersDiffer'
    <2>1. ASSUME NEW i \in DOMAIN plan, NEW j \in DOMAIN plan, Answered(i)', Answered(j)', i # j,
                 LaneOf(i) = LaneOf(j)
          PROVE  verdict'[i].found # verdict'[j].found
        <3>1. Answered(i) /\ Answered(j) /\ verdict'[i] = verdict[i] /\ verdict'[j] = verdict[j]
            BY <2>1
        <3> QED
            BY <2>1, <3>1 DEF AnswersInv, AnswersDiffer
    <2> QED
        BY <1>4, <2>1 DEF AnswersDiffer
<1>7. AnswerFound'
    <2>1. ASSUME settled'.done
          PROVE  /\ settled' = settled /\ at' = "waiting" /\ at = "waiting" /\ pos' = pos
                 /\ Lane' = Lane /\ Pattern' = Pattern
                 /\ Lane \in TerminalLanes /\ session[Lane] # "none"
        <3>1. settled' = settled /\ at' = "waiting" /\ pos' = pos
            BY <2>1
        <3>2. at = "waiting"
            BY <2>1, <3>1 DEF AnswersInv, AnswerFound
        <3>3. Lane' = Lane /\ Pattern' = Pattern
            BY <3>1, SameNode
        <3>4. Lane \in TerminalLanes /\ session[Lane] # "none"
            BY <3>2 DEF TerminalsInv, InALane, AnswersInv, WaitsOnALane
        <3> QED
            BY <3>1, <3>2, <3>3, <3>4
    <2>2. ASSUME settled'.done
          PROVE  /\ settled.found \in Pattern
                 /\ SpentIn(settled.found, Shown(Lane), Last)
                 /\ \A i \in DOMAIN plan : Answered(i) /\ LaneOf(i) = Lane => verdict[i].found # settled.found
        BY <2>1, <2>2 DEF AnswersInv, AnswerFound
    <2>3. ASSUME settled'.done
          PROVE  SpentIn(settled'.found, Shown(Lane)', Last')
        <3>1. PICK l \in TerminalLanes : l = Lane
            BY <2>1, <2>3
        <3>2. SpentIn(settled.found, Shown(l)', Last')
            BY <1>2, <2>1, <2>2, <2>3, <3>1
        <3>3. l = Lane' /\ settled' = settled
            BY <2>1, <2>3, <3>1
        <3> QED
            BY <3>2, <3>3
    <2>4. ASSUME settled'.done, NEW i \in DOMAIN plan, Answered(i)', LaneOf(i)' = Lane'
          PROVE  verdict'[i].found # settled'.found
        <3>1. Answered(i) /\ verdict'[i] = verdict[i] /\ LaneOf(i) = Lane /\ settled' = settled
            BY <1>4, <2>1, <2>4
        <3> QED
            BY <2>2, <2>4, <3>1
    <2> QED
        BY <2>1, <2>2, <2>3, <2>4 DEF AnswerFound
<1> QED
    BY <1>3, <1>5, <1>6, <1>7 DEF AnswersInv

\* A step that answers the current node with f, which it takes from its lane.
LEMMA MatchedStep ==
    ASSUME TerminalsInv, TerminalsInv', TranscriptsInv, TranscriptsInv', AnswersInv, Going,
           NEW text, NEW f, NEW ok,
           EndNode([status |-> "matched", text |-> text, found |-> f], ok),
           f \in Pattern, NEW here \in TerminalLanes, here = Lane,
           session[here] # "none", UNCHANGED session,
           ~settled'.done,
           \A l \in TerminalLanes : Within(Shown(l)', Shown(l)),
           SpentIn(f, Shown(here)', Last),
           \A i \in DOMAIN plan : Answered(i) /\ LaneOf(i) = Lane => verdict[i].found # f
    PROVE  AnswersInv'
<1>1. pos \in Nat /\ pos >= 1 /\ Last \in Nat /\ DOMAIN plan \subseteq Nat /\ Last <= pos /\ pos \in DOMAIN plan
    BY Positions DEF TerminalsInv
<1>2. /\ plan' = plan
      /\ verdict' = [verdict EXCEPT ![pos] = [status |-> "matched", text |-> text, found |-> f]]
      /\ \/ pos' = pos + 1 /\ at' = "head"
         \/ pos' = pos /\ at' = "closing"
    BY <1>1, PlansAssumption DEF EndNode, TerminalsInv
<1>3. Last' = pos /\ Last <= Last' /\ Last' \in Nat /\ pos' \in Nat
    <2>1. Last' = IF at' \in {"head", "started"} THEN pos' - 1 ELSE pos'
        BY DEF Last
    <2>2. pos + 1 - 1 = pos /\ pos + 1 \in Nat
        BY <1>1
    <2> QED
        BY <1>1, <1>2, <2>1, <2>2
<1>4. /\ verdict'[pos].status = "matched" /\ verdict'[pos].found = f
      /\ \A i \in DOMAIN plan : i # pos => verdict'[i] = verdict[i]
    BY <1>1, <1>2 DEF TerminalsInv
<1>0. ShownKept
    BY <1>2, <1>3, ShownShrinks
<1>5. \A l \in TerminalLanes : \A c :
          session[l] # "none" /\ SpentIn(c, Shown(l), Last) => SpentIn(c, Shown(l)', Last')
    BY <1>0 DEF ShownKept
<1>6. AnswersShown'
    BY <1>0 DEF ShownKept
<1>7. \A i \in DOMAIN plan : PatternOf(i)' = PatternOf(i) /\ LaneOf(i)' = LaneOf(i)
    BY <1>2 DEF PatternOf, LaneOf
<1>8. Pattern = PatternOf(pos) /\ Lane = LaneOf(pos)
    BY PatternIs
<1>9. \A i \in DOMAIN plan : i # pos /\ Answered(i)' => Answered(i)
    BY <1>4 DEF Answered
<1>10. AnswersTaken'
    <2>1. ASSUME NEW i \in DOMAIN plan, Answered(i)'
          PROVE  /\ verdict'[i].found \in PatternOf(i)
                 /\ i <= pos' /\ (Going' => i < pos')
                 /\ LaneOf(i) \in TerminalLanes /\ session'[LaneOf(i)] # "none"
                 /\ SpentIn(verdict'[i].found, Shown(LaneOf(i))', Last')
        <3>0. Going' => pos' = pos + 1
            BY <1>2 DEF Going
        <3>1. CASE i = pos
            <4>1. i <= pos' /\ (Going' => i < pos')
                BY <1>1, <1>2, <3>0, <3>1
            <4>2. Prompts(Last) \subseteq Prompts(Last')
                <5>1. 0..Last \subseteq 0..Last'
                    BY <1>1, <1>3
                <5> QED
                    BY <5>1 DEF Prompts
            <4>3. LaneOf(i)' = here /\ LaneOf(i) = here
                BY <1>7, <1>8, <3>1
            <4>4. SpentIn(f, Shown(here)', Last')
                BY <4>2 DEF SpentIn
            <4> QED
                BY <1>4, <1>8, <3>1, <4>1, <4>3, <4>4
        <3>2. CASE i # pos
            <4>1. Answered(i) /\ verdict'[i] = verdict[i]
                BY <1>4, <1>9, <2>1, <3>2
            <4>2. /\ verdict[i].found \in PatternOf(i)
                  /\ i <= pos
                  /\ LaneOf(i) \in TerminalLanes /\ session[LaneOf(i)] # "none"
                  /\ SpentIn(verdict[i].found, Shown(LaneOf(i)), Last)
                BY <4>1 DEF AnswersInv, AnswersTaken
            <4>3. i <= pos' /\ (Going' => i < pos')
                BY <1>1, <1>2, <3>0, <4>2
            <4>4. PICK l \in TerminalLanes : l = LaneOf(i)
                BY <4>2
            <4>5. SpentIn(verdict[i].found, Shown(l)', Last')
                BY <1>5, <4>2, <4>4
            <4>6. l = LaneOf(i)'
                BY <1>7, <4>4
            <4> QED
                BY <4>1, <4>2, <4>3, <4>4, <4>5, <4>6
        <3> QED
            BY <3>1, <3>2
    <2> QED
        BY <1>2, <1>7, <2>1 DEF AnswersTaken
<1>11. AnswersDiffer'
    <2>1. ASSUME NEW i \in DOMAIN plan, NEW j \in DOMAIN plan, Answered(i)', Answered(j)', i # j,
                 LaneOf(i) = LaneOf(j)
          PROVE  verdict'[i].found # verdict'[j].found
        <3>1. CASE i # pos /\ j # pos
            <4>1. Answered(i) /\ Answered(j) /\ verdict'[i] = verdict[i] /\ verdict'[j] = verdict[j]
                BY <1>4, <1>9, <2>1, <3>1
            <4> QED
                BY <2>1, <4>1 DEF AnswersInv, AnswersDiffer
        <3>2. CASE i = pos
            <4>1. Answered(j) /\ verdict'[j] = verdict[j] /\ verdict'[i].found = f /\ LaneOf(j) = Lane
                BY <1>4, <1>8, <1>9, <2>1, <3>2
            <4> QED
                BY <4>1
        <3>3. CASE j = pos
            <4>1. Answered(i) /\ verdict'[i] = verdict[i] /\ verdict'[j].found = f /\ LaneOf(i) = Lane
                BY <1>4, <1>8, <1>9, <2>1, <3>3
            <4> QED
                BY <4>1
        <3> QED
            BY <3>1, <3>2, <3>3
    <2> QED
        BY <1>2, <1>7, <2>1 DEF AnswersDiffer
<1>12. AnswerFound' /\ WaitsOnALane'
    BY <1>2 DEF AnswerFound, WaitsOnALane
<1> QED
    BY <1>6, <1>10, <1>11, <1>12 DEF AnswersInv

\* What can be stripped of a chunk that arrives.
LEMMA SafeOfAnAccount ==
    ASSUME NEW a, NEW h, NEW t, NEW g, NEW c \in Seq(Character), NEW r \in Seq(Character),
           Accounts(a, h, c \o r, t, g)
    PROVE  SafeLength(t.tail \o c) \in 0..Len(t.tail \o c)
<1> DEFINE w == t.tail
           full == w \o c
           cr == c \o r
           fr == full \o r
<1>1. a \in Seq(Character) /\ w \in Seq(Character) /\ h = a \o w /\ CutSafely(h \o cr)
    BY DEF Accounts
<1> HIDE DEF w
<1>2. full \in Seq(Character) /\ cr \in Seq(Character)
    BY <1>1, ConcatProperties
<1>3. fr = w \o cr
    <2>1. w \in Seq(Character)
        BY <1>1
    <2> QED
        BY <2>1, Associative, Zenon
<1>4. (a \o w) \o cr = a \o (w \o cr)
    <2>1. a \in Seq(Character) /\ w \in Seq(Character) /\ cr \in Seq(Character)
        BY <1>1, <1>2
    <2> HIDE DEF cr
    <2> QED
        BY <2>1, Associative, Zenon
<1>5. w \o cr \in Seq(Character)
    BY <1>1, <1>2, ConcatProperties
<1>6. CutSafely(w \o cr)
    BY <1>1, <1>4, <1>5, CutSafelySuffix
<1>7. CutSafely(full \o r)
    BY <1>3, <1>6
<1> HIDE DEF full
<1>8. SafeLength(full) \in 0..Len(full)
    BY <1>2, <1>7, SafeLengthIsSafe
<1> QED
    BY <1>8 DEF full, w

\* A step that leaves the lanes' output alone shows nothing new.
LEMMA SameShown ==
    ASSUME TranscriptsInv, UNCHANGED <<transcript, screen>>
    PROVE  \A l \in TerminalLanes : Within(Shown(l)', Shown(l))
<1>1. ASSUME NEW l \in TerminalLanes
      PROVE  Within(Shown(l)', Shown(l))
    <2>1. Shown(l)' = Shown(l)
        BY DEF Shown
    <2>2. Within(Shown(l), Shown(l))
        BY ShownIsText, WithinSelf
    <2> QED
        BY <2>1, <2>2
<1> QED
    BY <1>1

\* A step that changes what one lane shows.
LEMMA OneLaneShown ==
    ASSUME TerminalsInv, TranscriptsInv, NEW l \in TerminalLanes, NEW t, NEW r,
           transcript' = [transcript EXCEPT ![l] = t], screen' = [screen EXCEPT ![l] = r],
           Within((t.text \o t.tail) \o r, Shown(l))
    PROVE  \A m \in TerminalLanes : Within(Shown(m)', Shown(m))
<1>1. /\ screen = [m \in TerminalLanes |-> screen[m]]
      /\ transcript = [m \in TerminalLanes |-> transcript[m]]
    BY DEF TranscriptsInv, Types, TerminalsInv
<1>2. ASSUME NEW m \in TerminalLanes
      PROVE  Within(Shown(m)', Shown(m))
    <2>1. CASE m = l
        <3>1. transcript'[m] = t /\ screen'[m] = r
            BY <1>1, <2>1
        <3>2. Shown(m)' = (t.text \o t.tail) \o r
            BY <3>1 DEF Shown
        <3> QED
            BY <2>1, <3>2
    <2>2. CASE m # l
        <3>1. transcript'[m] = transcript[m] /\ screen'[m] = screen[m]
            BY <1>1, <2>2
        <3>2. Shown(m)' = Shown(m)
            BY <3>1 DEF Shown
        <3>3. Within(Shown(m), Shown(m))
            BY ShownIsText, WithinSelf
        <3> QED
            BY <3>2, <3>3
    <2> QED
        BY <2>1, <2>2
<1> QED
    BY <1>2

\* Emptied text leaves what is still to come.
LEMMA EmptiedShown ==
    ASSUME NEW x \in Seq(Character), NEW y \in Seq(Character), NEW r \in Seq(Character)
    PROVE  /\ Within((<<>> \o y) \o r, (x \o y) \o r)
           /\ Within((<<>> \o <<>>) \o r, (x \o y) \o r)
           /\ Within((<<>> \o <<>>) \o <<>>, (x \o y) \o r)
<1> DEFINE e == <<>>
           ey == e \o y
           ee == e \o e
           xy == x \o y
<1>1. e \in Seq(Character)
    OBVIOUS
<1> HIDE DEF e
<1>2. ey \in Seq(Character) /\ ee \in Seq(Character) /\ xy \in Seq(Character)
    BY <1>1, ConcatProperties
<1>3. /\ \A z \in Seq(Character) : Within(z, z)
      /\ \A z \in Seq(Character) : Within(e, z)
    BY WithinSelf, NothingWithin DEF e
<1>4. Within(ey, xy) /\ Within(ee, xy)
    <2>1. Within(e, x) /\ Within(y, y) /\ Within(e, y)
        BY <1>3
    <2> QED
        BY <1>1, <2>1, ConcatWithin
<1> HIDE DEF ey, ee, xy
<1>5. Within(ey \o r, xy \o r) /\ Within(ee \o r, xy \o r) /\ Within(ee \o e, xy \o r)
    <2>1. Within(r, r) /\ Within(e, r)
        BY <1>3
    <2> QED
        BY <1>1, <1>2, <1>4, <2>1, ConcatWithin
<1> QED
    BY <1>5 DEF e, ey, ee, xy

\* What a lane shows after it is cleared, or not.
LEMMA ClearedShown ==
    ASSUME TerminalsInv, TranscriptsInv, ClearFirst, NEW here \in TerminalLanes, here = Lane
    PROVE  /\ \A m \in TerminalLanes : m # here => transcript'[m] = transcript[m]
           /\ transcript'[here] \in [text : Seq(Character), tail : Seq(Character)]
           /\ Within((transcript'[here].text \o transcript'[here].tail) \o screen[here], Shown(here))
<1>1. transcript = [m \in TerminalLanes |-> transcript[m]]
    BY DEF TerminalsInv
<1>2. transcript[here] \in [text : Seq(Character), tail : Seq(Character)] /\ screen[here] \in Seq(Character)
      /\ Shown(here) \in Seq(Character)
    BY ShownIsText
<1>3. Empty \in [text : Seq(Character), tail : Seq(Character)] /\ Empty.text = <<>> /\ Empty.tail = <<>>
    BY DEF Empty
<1>4. CASE transcript' = transcript
    <2>1. Within(Shown(here), Shown(here))
        BY <1>2, WithinSelf
    <2> QED
        BY <1>2, <1>4, <2>1 DEF Shown
<1>5. CASE transcript' = [transcript EXCEPT ![here] = Empty]
    <2>1. transcript'[here] = Empty /\ \A m \in TerminalLanes : m # here => transcript'[m] = transcript[m]
        BY <1>1, <1>5
    <2>2. transcript[here].text \in Seq(Character) /\ transcript[here].tail \in Seq(Character)
        BY <1>2
    <2>3. Within((<<>> \o <<>>) \o screen[here], Shown(here))
        BY <1>2, <2>2, EmptiedShown DEF Shown
    <2> QED
        BY <1>3, <2>1, <2>3
<1> QED
    BY <1>4, <1>5 DEF ClearFirst

\* A node that ends without a match.
LEMMA EndsUnanswered ==
    ASSUME TerminalsInv, AnswersInv, Going, NEW result, NEW ok, EndNode(result, ok),
           result.status # "matched"
    PROVE  /\ plan' = plan /\ pos' \in {pos, pos + 1} /\ Last <= Last'
           /\ \A i \in DOMAIN plan : Answered(i)' => Answered(i) /\ verdict'[i] = verdict[i]
           /\ Going' => pos' = pos + 1
           /\ at' # "waiting"
<1>1. pos \in Nat /\ pos >= 1 /\ Last \in Nat /\ Last <= pos /\ pos \in DOMAIN plan
    BY Positions DEF TerminalsInv
<1>2. /\ plan' = plan /\ verdict' = [verdict EXCEPT ![pos] = result]
      /\ \/ pos' = pos + 1 /\ at' = "head"
         \/ pos' = pos /\ at' = "closing"
    BY <1>1, PlansAssumption DEF EndNode, TerminalsInv
<1>3. Last <= Last'
    <2>1. Last' = IF at' \in {"head", "started"} THEN pos' - 1 ELSE pos'
        BY DEF Last
    <2>2. pos + 1 - 1 = pos
        BY <1>1
    <2> QED
        BY <1>1, <1>2, <2>1, <2>2
<1>4. verdict'[pos] = result /\ \A i \in DOMAIN plan : i # pos => verdict'[i] = verdict[i]
    BY <1>1, <1>2 DEF TerminalsInv
<1>5. \A i \in DOMAIN plan : Answered(i)' => Answered(i) /\ verdict'[i] = verdict[i]
    BY <1>4 DEF Answered
<1>6. (Going' => pos' = pos + 1) /\ at' # "waiting"
    BY <1>2 DEF Going
<1> QED
    BY <1>2, <1>3, <1>5, <1>6

\* A step within a node.
LEMMA StaysAtTheNode ==
    ASSUME TerminalsInv, UNCHANGED <<plan, pos, verdict>>,
           at' \in {"head", "started"} => at \in {"head", "started"}
    PROVE  /\ pos' \in {pos, pos + 1} /\ Last <= Last'
           /\ \A i \in DOMAIN plan : Answered(i)' => Answered(i) /\ verdict'[i] = verdict[i]
<1>1. pos \in Nat
    BY Positions
<1> QED
    BY <1>1 DEF Last, Answered

\* What check() takes out of t, of which here is a part, answers its node.
LEMMA FoundAnswers ==
    ASSUME TerminalsInv, AnswersInv, Going, NEW here \in TerminalLanes, here = Lane,
           NEW t \in [text : Seq(Character), tail : Seq(Character)], NEW r \in Seq(Character),
           Within((t.text \o t.tail) \o r, Shown(here)), Shown(here) \in Seq(Character), Found(t)
    PROVE  LET f == ResultIn(t).found
               taken == TakeMatch(t, Pattern)
               after == (taken.text \o taken.tail) \o r
           IN  /\ f \in Pattern
               /\ after \in Seq(Character) /\ Within(after, Shown(here))
               /\ SpentIn(f, after, Last)
               /\ \A i \in DOMAIN plan : Answered(i) /\ LaneOf(i) = Lane => verdict[i].found # f
<1> DEFINE f == ResultIn(t).found
           taken == TakeMatch(t, Pattern)
           after == (taken.text \o taken.tail) \o r
           shown == (t.text \o t.tail) \o r
<1>1. f = t.text[Min(Hits(t, Pattern))] /\ Hits(t, Pattern) # {}
    BY DEF ResultIn, Found
<1>2. /\ f \in Pattern /\ Has(shown, f) /\ after \in Seq(Character) /\ Within(after, shown)
      /\ Once(shown) /\ Class(f) = "prompt" => ~Has(after, f)
    BY <1>1, TakenAnswer
<1>3. shown \in Seq(Character)
    <2>1. t.text \in Seq(Character) /\ t.tail \in Seq(Character)
        OBVIOUS
    <2> QED
        BY <2>1, ConcatProperties
<1> HIDE DEF f, taken, after, shown
<1>s. Within(shown, Shown(here))
    BY DEF shown
<1>4. Once(shown) /\ Upto(shown, Last) /\ Has(Shown(here), f)
    <2>1. Once(Shown(here)) /\ Upto(Shown(here), Last)
        BY DEF AnswersInv, AnswersShown
    <2> QED
        BY <1>2, <1>3, <1>s, <2>1, WithinKeeps
<1>5. Within(after, Shown(here))
    BY <1>2, <1>3, <1>s, WithinTransitive
<1>6. SpentIn(f, after, Last)
    BY <1>2, <1>4 DEF SpentIn, Upto, Has
<1>7. ASSUME NEW i \in DOMAIN plan, Answered(i), LaneOf(i) = Lane
      PROVE  verdict[i].found # f
    <2>1. verdict[i].found \in PatternOf(i) /\ i < pos /\ SpentIn(verdict[i].found, Shown(here), Last)
        BY <1>7 DEF AnswersInv, AnswersTaken
    <2>2. SUFFICES ASSUME verdict[i].found = f
                   PROVE  FALSE
        OBVIOUS
    <2>3. pos \in DOMAIN plan /\ i # pos /\ f \in PatternOf(pos)
        <3>1. pos \in Nat /\ DOMAIN plan \subseteq Nat
            BY Positions
        <3> QED
            BY <1>2, <2>1, <3>1, PatternIs DEF TerminalsInv
    <2>4. Class(f) = "prompt"
        BY <2>1, <2>2, <2>3, PatternsApart
    <2> QED
        BY <1>4, <2>1, <2>2, <2>4 DEF SpentIn
<1> QED
    BY <1>2, <1>5, <1>6, <1>7 DEF f, taken, after

\* What a process prints is shown already, and may answer the wait.
LEMMA SpeakAnswers ==
    ASSUME TerminalsInv, TranscriptsInv, TranscriptsInv', AnswersInv,
           NEW l \in TerminalLanes, Speak(l)
    PROVE  AnswersInv'
<1>1. PICK k \in 1 .. Min({MaxChunk, Len(screen[l])}) :
        LET chunk == SubSeq(screen[l], 1, k)
            t == Feed(transcript[l], chunk)
            dropped == Excess(Stripped(transcript[l], chunk))
            wakes == at = "waiting" /\ Lane = l /\ ~settled.done /\ Found(t)
        IN  /\ screen' = [screen EXCEPT ![l] = SubSeq(@, k + 1, Len(@))]
            /\ heard' = [heard EXCEPT ![l] = @ \o chunk]
            /\ IF wakes
               THEN /\ settled' = ResultIn(t)
                    /\ transcript' = [transcript EXCEPT ![l] = TakeMatch(t, Pattern)]
                    /\ gone' = [gone EXCEPT ![l] = @ + dropped + Len(ResultIn(t).text)]
               ELSE /\ transcript' = [transcript EXCEPT ![l] = t]
                    /\ gone' = [gone EXCEPT ![l] = @ + dropped]
                    /\ UNCHANGED settled
    BY DEF Speak
<1> DEFINE s == screen[l]
           c == SubSeq(s, 1, k)
           r == SubSeq(s, k + 1, Len(s))
           t == Feed(transcript[l], c)
           wakes == at = "waiting" /\ Lane = l /\ ~settled.done /\ Found(t)
<1>2. screen' = [screen EXCEPT ![l] = r]
    BY <1>1
<1>3. wakes => transcript' = [transcript EXCEPT ![l] = TakeMatch(t, Pattern)] /\ settled' = ResultIn(t)
    BY <1>1
<1>4. ~wakes => transcript' = [transcript EXCEPT ![l] = t] /\ UNCHANGED settled
    BY <1>1
<1>5. /\ s \in Seq(Character) /\ Len(s) \in Nat
      /\ transcript[l] \in [text : Seq(Character), tail : Seq(Character)]
    BY ShownIsText, LenProperties
<1>6. k \in 0..Len(s)
    <2>1. {MaxChunk, Len(s)} \in SUBSET Nat /\ {MaxChunk, Len(s)} # {}
        BY <1>5, LanesAssumption
    <2>2. Min({MaxChunk, Len(s)}) \in Nat /\ Min({MaxChunk, Len(s)}) <= Len(s)
        BY <2>1, MinIsLeast
    <2>3. k \in 1..Min({MaxChunk, Len(s)})
        OBVIOUS
    <2> DEFINE m == Min({MaxChunk, Len(s)})
    <2>4. k \in 1..m /\ m \in Nat /\ m <= Len(s)
        BY <2>2, <2>3
    <2> HIDE DEF m
    <2> QED
        BY <1>5, <2>4
<1> HIDE DEF s
<1>7. c \in Seq(Character) /\ c \o r = s
    BY <1>5, <1>6, FrontAndRest
<1>8. r \in Seq(Character)
    BY <1>5, <1>6, DroppedIs
<1> HIDE DEF c, r
<1>9. /\ t \in [text : Seq(Character), tail : Seq(Character)]
      /\ Within((t.text \o t.tail) \o r, Shown(l))
    <2>1. PICK a : Accounts(a, heard[l], s, transcript[l], gone[l])
        BY DEF TranscriptsInv, Accounted, s
    <2>2. SafeLength(transcript[l].tail \o c) \in 0..Len(transcript[l].tail \o c)
        BY <1>7, <1>8, <2>1, SafeOfAnAccount
    <2>3. Within((t.text \o t.tail) \o r, (transcript[l].text \o transcript[l].tail) \o (c \o r))
        BY <1>5, <1>7, <1>8, <2>2, FeedWithin
    <2>4. t \in [text : Seq(Character), tail : Seq(Character)]
        BY <1>5, <1>7, <1>8, <2>2, FeedWithin
    <2>5. (transcript[l].text \o transcript[l].tail) \o (c \o r) = Shown(l)
        BY <1>7 DEF Shown, s
    <2> QED
        BY <2>3, <2>4, <2>5
<1>10. /\ UNCHANGED <<walk, timer, session, process, watcher>>
       /\ UNCHANGED <<plan, pos, verdict, at>> /\ session[l] = "open"
    BY DEF Speak, walk
<1> HIDE DEF t
<1>11. /\ pos' \in {pos, pos + 1} /\ Last <= Last'
       /\ \A i \in DOMAIN plan : Answered(i)' => Answered(i) /\ verdict'[i] = verdict[i]
    BY <1>10, StaysAtTheNode
<1>12. Lane' = Lane /\ Pattern' = Pattern
    BY <1>10, SameNode
<1>13. WaitsOnALane' /\ (Going' => Going)
    BY <1>10, <1>12 DEF WaitsOnALane, Going, AnswersInv
<1>14. CASE ~wakes
    <2>1. \A m \in TerminalLanes : Within(Shown(m)', Shown(m))
        BY <1>2, <1>4, <1>9, <1>14, OneLaneShown
    <2>2. ShownKept
        BY <1>11, <2>1, ShownShrinks
    <2>3. settled'.done => settled' = settled /\ at' = "waiting" /\ pos' = pos
        BY <1>4, <1>10, <1>14 DEF AnswersInv, AnswerFound
    <2> QED
        BY <1>10, <1>11, <1>13, <2>2, <2>3, QuietStep
<1>15. CASE wakes
    <2> DEFINE f == ResultIn(t).found
               taken == TakeMatch(t, Pattern)
               after == (taken.text \o taken.tail) \o r
    <2>1. at = "waiting" /\ l = Lane /\ Found(t) /\ Going
        BY <1>15 DEF Going
    <2>2. Shown(l) \in Seq(Character)
        BY ShownIsText
    <2>3. /\ f \in Pattern
          /\ Within(after, Shown(l))
          /\ SpentIn(f, after, Last)
          /\ \A i \in DOMAIN plan : Answered(i) /\ LaneOf(i) = Lane => verdict[i].found # f
        BY <1>8, <1>9, <2>1, <2>2, FoundAnswers
    <2>4. transcript' = [transcript EXCEPT ![l] = taken] /\ settled'.found = f
        BY <1>3, <1>15
    <2> HIDE DEF f, taken
    <2>5. \A m \in TerminalLanes : Within(Shown(m)', Shown(m))
        BY <1>2, <2>3, <2>4, OneLaneShown
    <2>6. ShownKept
        BY <1>11, <2>5, ShownShrinks
    <2>7. AnswersTaken' /\ AnswersDiffer' /\ AnswersShown'
        <3>1. \A i \in DOMAIN plan : PatternOf(i)' = PatternOf(i) /\ LaneOf(i)' = LaneOf(i)
            BY <1>10 DEF PatternOf, LaneOf
        <3>2. ASSUME NEW i \in DOMAIN plan, Answered(i)'
              PROVE  /\ verdict'[i].found \in PatternOf(i)
                     /\ i <= pos' /\ (Going' => i < pos')
                     /\ LaneOf(i) \in TerminalLanes /\ session'[LaneOf(i)] # "none"
                     /\ SpentIn(verdict'[i].found, Shown(LaneOf(i))', Last')
            <4>1. Answered(i) /\ verdict'[i] = verdict[i]
                BY <1>11, <3>2
            <4>2. /\ verdict[i].found \in PatternOf(i)
                  /\ i <= pos /\ (Going => i < pos)
                  /\ LaneOf(i) \in TerminalLanes /\ session[LaneOf(i)] # "none"
                  /\ SpentIn(verdict[i].found, Shown(LaneOf(i)), Last)
                BY <4>1 DEF AnswersInv, AnswersTaken
            <4>3. PICK m \in TerminalLanes : m = LaneOf(i)
                BY <4>2
            <4>4. SpentIn(verdict[i].found, Shown(m)', Last')
                BY <2>6, <4>2, <4>3 DEF ShownKept
            <4>5. m = LaneOf(i)'
                BY <3>1, <4>3
            <4> QED
                BY <1>10, <1>13, <4>1, <4>2, <4>3, <4>4, <4>5
        <3>3. AnswersTaken'
            BY <1>10, <3>1, <3>2 DEF AnswersTaken
        <3>4. AnswersDiffer'
            BY <1>10, <3>1 DEF AnswersDiffer, AnswersInv, Answered
        <3> QED
            BY <2>6, <3>3, <3>4 DEF ShownKept
    <2>8. AnswerFound'
        <3>1. Shown(l)' = after
            <4>1. transcript'[l] = taken /\ screen'[l] = r
                BY <1>2, <2>4 DEF TerminalsInv, TranscriptsInv, Types
            <4> QED
                BY <4>1 DEF Shown
        <3>2. Prompts(Last) \subseteq Prompts(Last')
            <4>1. 0..Last \subseteq 0..Last'
                BY <1>11, Positions, NextLast
            <4> QED
                BY <4>1 DEF Prompts
        <3>3. SpentIn(f, Shown(l)', Last')
            BY <2>3, <3>1, <3>2 DEF SpentIn
        <3>4. l = Lane' /\ f = settled'.found
            BY <1>12, <2>1, <2>4
        <3>5. SpentIn(settled'.found, Shown(Lane)', Last')
            BY <3>3, <3>4
        <3>6. \A i \in DOMAIN plan : Answered(i)' /\ LaneOf(i)' = Lane' => verdict'[i].found # settled'.found
            BY <1>10, <1>12, <2>3, <3>4 DEF Answered, LaneOf
        <3> QED
            BY <1>10, <1>12, <2>1, <2>3, <3>4, <3>5, <3>6 DEF AnswerFound
    <2> QED
        BY <1>13, <2>7, <2>8 DEF AnswersInv
<1> QED
    BY <1>14, <1>15

\* A step within a node that adds nothing to what the lanes show.
LEMMA StayStep ==
    ASSUME TerminalsInv, TranscriptsInv, TranscriptsInv', AnswersInv,
           UNCHANGED <<plan, pos, verdict>>,
           at' \in {"head", "started"} => at \in {"head", "started"},
           Going' => Going,
           \A l \in TerminalLanes : Within(Shown(l)', Shown(l)),
           \A l \in TerminalLanes : session[l] # "none" => session'[l] # "none",
           settled'.done => settled' = settled /\ at' = "waiting",
           at' = "waiting" => session'[Lane] # "none"
    PROVE  AnswersInv'
<1>1. /\ pos' \in {pos, pos + 1} /\ Last <= Last'
      /\ \A i \in DOMAIN plan : Answered(i)' => Answered(i) /\ verdict'[i] = verdict[i]
    BY StaysAtTheNode
<1>2. ShownKept
    BY <1>1, ShownShrinks
<1>3. WaitsOnALane'
    BY SameNode DEF WaitsOnALane
<1> QED
    BY <1>1, <1>2, <1>3, QuietStep

\* A step that ends its node without an answer and adds nothing.
LEMMA EndStep ==
    ASSUME TerminalsInv, TranscriptsInv, TranscriptsInv', AnswersInv, Going,
           NEW result, NEW ok, EndNode(result, ok), result.status # "matched",
           \A l \in TerminalLanes : Within(Shown(l)', Shown(l)),
           UNCHANGED session, ~settled'.done
    PROVE  AnswersInv'
<1>1. /\ plan' = plan /\ pos' \in {pos, pos + 1} /\ Last <= Last'
      /\ \A i \in DOMAIN plan : Answered(i)' => Answered(i) /\ verdict'[i] = verdict[i]
      /\ Going' => pos' = pos + 1
      /\ at' # "waiting"
    BY EndsUnanswered
<1>2. ShownKept
    BY <1>1, ShownShrinks
<1>3. WaitsOnALane'
    BY <1>1 DEF WaitsOnALane
<1> QED
    BY <1>1, <1>2, <1>3, QuietStep

\* What the answer to the node that types adds to what its lane shows.
LEMMA TypedShown ==
    ASSUME TerminalsInv, TranscriptsInv, TranscriptsInv', AnswersInv, at = "started",
           ClearFirst, NEW here \in TerminalLanes, here = Lane,
           NEW reply \in Seq(Character), PromptOnce(reply, pos),
           screen' = [screen EXCEPT ![here] = screen[here] \o reply], Last' = pos
    PROVE  ShownKept
<1> DEFINE t == transcript'[here].text
           w == transcript'[here].tail
           s == screen[here]
           y == (t \o w) \o s
<1>1. /\ \A m \in TerminalLanes : m # here => transcript'[m] = transcript[m]
      /\ transcript'[here] \in [text : Seq(Character), tail : Seq(Character)]
      /\ Within(y, Shown(here))
    BY ClearedShown
<1>2. t \in Seq(Character) /\ w \in Seq(Character)
    BY <1>1
<1>3. s \in Seq(Character) /\ Shown(here) \in Seq(Character)
    BY ShownIsText
<1>4. screen = [m \in TerminalLanes |-> screen[m]]
    BY DEF TranscriptsInv, Types
<1>5. screen'[here] = s \o reply /\ \A m \in TerminalLanes : m # here => screen'[m] = screen[m]
    BY <1>4
<1>6. pos \in Nat /\ pos >= 1 /\ Last \in Nat /\ Last < pos /\ Last' \in Nat /\ Last <= Last'
    <2>1. pos \in Nat /\ pos >= 1 /\ Last = pos - 1
        BY Positions DEF Last
    <2>2. pos - 1 \in Nat /\ pos - 1 < pos /\ pos - 1 <= pos
        BY <2>1
    <2> QED
        BY <2>1, <2>2
<1> HIDE DEF t, w, s
<1>7. t \o w \in Seq(Character)
    BY <1>2, ConcatProperties
<1>8. y \in Seq(Character)
    BY <1>3, <1>7, ConcatProperties
<1>9. Shown(here)' = y \o reply
    <2>1. Shown(here)' = (t \o w) \o (s \o reply)
        BY <1>5 DEF Shown, t, w
    <2> QED
        BY <1>3, <1>7, <2>1, Associative, Zenon
<1> HIDE DEF y
<1>10. Once(y) /\ Upto(y, Last) /\ \A c : Has(y, c) => Has(Shown(here), c)
    <2>1. Once(Shown(here)) /\ Upto(Shown(here), Last)
        BY DEF AnswersInv, AnswersShown
    <2> QED
        BY <1>1, <1>3, <1>8, <2>1, WithinKeeps
<1>11. /\ Once(y \o reply) /\ Upto(y \o reply, pos)
       /\ \A c \in Prompts(Last) : ~Has(y, c) => ~Has(y \o reply, c)
    BY <1>6, <1>8, <1>10, AnswerAdded
<1>12. Prompts(Last) \subseteq Prompts(pos)
    <2>1. 0..Last \subseteq 0..pos
        BY <1>6
    <2> QED
        BY <2>1 DEF Prompts
<1>13. ASSUME NEW l \in TerminalLanes
       PROVE  /\ Once(Shown(l)') /\ Upto(Shown(l)', Last')
              /\ \A c : SpentIn(c, Shown(l), Last) => SpentIn(c, Shown(l)', Last')
    <2>1. CASE l = here
        <3>1. Shown(l)' = y \o reply
            BY <1>9, <2>1
        <3>2. \A c : SpentIn(c, Shown(here), Last) => SpentIn(c, y \o reply, pos)
            BY <1>10, <1>11, <1>12 DEF SpentIn
        <3> QED
            BY <1>11, <2>1, <3>1, <3>2
    <2>2. CASE l # here
        <3>1. Shown(l)' = Shown(l)
            BY <1>1, <1>5, <2>2 DEF Shown
        <3>2. Shown(l) \in Seq(Character) /\ Once(Shown(l)) /\ Upto(Shown(l), Last)
            BY ShownIsText DEF AnswersInv, AnswersShown
        <3>3. Within(Shown(l), Shown(l))
            BY <3>2, WithinSelf
        <3>4. Upto(Shown(l), Last')
            BY <1>6, <3>2, <3>3, StaysUpto
        <3>5. ASSUME NEW c, SpentIn(c, Shown(l), Last)
              PROVE  SpentIn(c, Shown(l), Last')
            BY <1>6, <3>2, <3>3, <3>5, StaysSpent
        <3> QED
            BY <3>1, <3>2, <3>4, <3>5
    <2> QED
        BY <2>1, <2>2
<1> QED
    BY <1>13 DEF ShownKept, AnswersShown

\* What a process shows when it is spawned.
LEMMA OpenedShown ==
    ASSUME TerminalsInv, TranscriptsInv, TranscriptsInv', AnswersInv, UNCHANGED <<walk, transcript>>,
           NEW here \in TerminalLanes, session[here] = "none",
           NEW b \in Seq(Character), PromptOnce(b, 0), screen' = [screen EXCEPT ![here] = b]
    PROVE  ShownKept
<1>1. screen = [m \in TerminalLanes |-> screen[m]]
    BY DEF TranscriptsInv, Types
<1>2. screen'[here] = b /\ \A m \in TerminalLanes : m # here => screen'[m] = screen[m]
    BY <1>1
<1>3. Last' = Last /\ Last \in Nat
    BY Positions DEF walk, Last
<1>4. \A m \in TerminalLanes : m # here => Shown(m)' = Shown(m)
    BY <1>2 DEF Shown
<1>5. Shown(here)' = b
    <2>1. transcript'[here] = Empty
        BY DEF TerminalsInv, ClosedIsSilent
    <2>2. <<>> \o <<>> = <<>> /\ <<>> \o b = b
        BY ConcatEmptySeq
    <2> QED
        BY <1>2, <2>1, <2>2 DEF Shown, Empty
<1>6. Once(b) /\ Upto(b, Last)
    <2>1. DOMAIN b = 1..Len(b)
        BY LenProperties
    <2>2. <<"prompt", 0>> \in Prompts(Last)
        BY <1>3 DEF Prompts
    <2> QED
        BY <2>1, <2>2 DEF PromptOnce, Once, Upto
<1>7. AnswersShown'
    BY <1>3, <1>4, <1>5, <1>6 DEF AnswersShown, AnswersInv
<1>8. \A l \in TerminalLanes : \A c :
          session[l] # "none" /\ SpentIn(c, Shown(l), Last) => SpentIn(c, Shown(l)', Last')
    BY <1>3, <1>4
<1> QED
    BY <1>7, <1>8 DEF ShownKept

\* The walk types into a lane: what comes back may be shown from now on.
LEMMA TypeAnswers ==
    ASSUME TerminalsInv, TranscriptsInv, TranscriptsInv', AnswersInv, Type
    PROVE  AnswersInv'
<1>1. at = "started" /\ session[Lane] = "open" /\ ClearFirst /\ UNCHANGED <<settled, session>>
    BY DEF Type, wait
<1>2. PICK here \in TerminalLanes : here = Lane
    BY <1>1 DEF TerminalsInv, InALane
<1>3. PICK reply \in IF process[Lane] = "alive" THEN Replies(plan, pos) ELSE {<<>>} :
         screen' = [screen EXCEPT ![Lane] = @ \o reply]
    BY DEF Type
<1>4. reply \in Seq(Character) /\ PromptOnce(reply, pos)
    <2>1. <<>> \in Seq(Character) /\ PromptOnce(<<>>, pos)
        BY DEF PromptOnce
    <2> QED
        BY <1>3, <2>1, OutputAssumption DEF TerminalsInv
<1>5. screen' = [screen EXCEPT ![here] = screen[here] \o reply]
    BY <1>2, <1>3
<1>6. ~settled.done
    BY <1>1 DEF AnswersInv, AnswerFound
<1>7. pos \in Nat /\ pos >= 1 /\ Last = pos - 1 /\ Going
    BY <1>1, Positions DEF Last, Going
<1>8. CASE Node.kind = "run"
    <2>1. at' = "typed" /\ UNCHANGED <<plan, pos, verdict>>
        BY <1>8 DEF Type
    <2>2. Last' = pos
        BY <2>1 DEF Last
    <2>3. ShownKept
        BY <1>1, <1>2, <1>4, <1>5, <2>2, TypedShown
    <2>4. \A i \in DOMAIN plan : Answered(i)' => Answered(i) /\ verdict'[i] = verdict[i]
        BY <2>1 DEF Answered
    <2>5. WaitsOnALane'
        BY <2>1 DEF WaitsOnALane
    <2> QED
        BY <1>1, <1>6, <1>7, <2>1, <2>3, <2>4, <2>5, QuietStep
<1>9. CASE Node.kind # "run"
    <2> DEFINE result == [Undecided EXCEPT !.status = "done"]
    <2>1. EndNode(result, TRUE) /\ result.status # "matched"
        BY <1>9 DEF Type, Undecided
    <2>2. /\ plan' = plan /\ pos' \in {pos, pos + 1}
          /\ \A i \in DOMAIN plan : Answered(i)' => Answered(i) /\ verdict'[i] = verdict[i]
          /\ Going' => pos' = pos + 1
          /\ at' # "waiting"
        BY <1>7, <2>1, EndsUnanswered
    <2>3. Last' = pos
        <3>1. \/ pos' = pos + 1 /\ at' = "head"
              \/ pos' = pos /\ at' = "closing"
            BY <1>7, <2>1 DEF EndNode
        <3>2. Last' = IF at' \in {"head", "started"} THEN pos' - 1 ELSE pos'
            BY DEF Last
        <3>3. pos + 1 - 1 = pos
            BY <1>7
        <3> QED
            BY <1>7, <3>1, <3>2, <3>3
    <2> HIDE DEF result
    <2>4. ShownKept
        BY <1>1, <1>2, <1>4, <1>5, <2>3, TypedShown
    <2>5. WaitsOnALane'
        BY <2>2 DEF WaitsOnALane
    <2> QED
        BY <1>1, <1>6, <2>2, <2>4, <2>5, QuietStep
<1> QED
    BY <1>8, <1>9

\* The wait looks at what has already arrived.
LEMMA MatchAnswers ==
    ASSUME TerminalsInv, TerminalsInv', TranscriptsInv, TranscriptsInv', AnswersInv, MatchAtOnce
    PROVE  AnswersInv'
<1>1. PICK here \in TerminalLanes : here = Lane
    BY DEF MatchAtOnce, Waits, TerminalsInv, InALane
<1> DEFINE t == transcript[here]
           r == screen[here]
           f == ResultIn(t).found
           text == ResultIn(t).text
           taken == TakeMatch(t, Pattern)
           after == (taken.text \o taken.tail) \o r
           ok == Succeeds("matched", f)
<1>2. /\ session[here] = "open" /\ Found(t)
      /\ transcript' = [transcript EXCEPT ![here] = taken]
      /\ EndNode([status |-> "matched", text |-> text, found |-> f], ok)
      /\ settled' = Nothing /\ UNCHANGED <<session, screen>>
    BY <1>1 DEF MatchAtOnce, EndWait
<1>3. Going
    BY DEF MatchAtOnce, Waits, Going
<1>4. t \in [text : Seq(Character), tail : Seq(Character)] /\ r \in Seq(Character) /\ Shown(here) \in Seq(Character)
    BY ShownIsText
<1>5. Within((t.text \o t.tail) \o r, Shown(here))
    BY <1>4, WithinSelf DEF Shown
<1> HIDE DEF t, r
<1>6. /\ f \in Pattern /\ Within(after, Shown(here)) /\ SpentIn(f, after, Last)
      /\ \A i \in DOMAIN plan : Answered(i) /\ LaneOf(i) = Lane => verdict[i].found # f
    BY <1>1, <1>2, <1>3, <1>4, <1>5, FoundAnswers
<1> HIDE DEF f, taken
<1>7. /\ transcript = [m \in TerminalLanes |-> transcript[m]]
      /\ screen = [m \in TerminalLanes |-> screen[m]]
    BY DEF TerminalsInv, TranscriptsInv, Types
<1>8. screen' = [screen EXCEPT ![here] = r] /\ transcript'[here] = taken /\ screen'[here] = r
    BY <1>2, <1>7 DEF r
<1>9. \A m \in TerminalLanes : Within(Shown(m)', Shown(m))
    BY <1>2, <1>6, <1>8, OneLaneShown
<1>10. SpentIn(f, Shown(here)', Last)
    <2>1. Shown(here)' = after
        BY <1>8 DEF Shown
    <2> QED
        BY <1>6, <2>1
<1>11. session[here] # "none" /\ ~settled'.done
    BY <1>2 DEF Nothing
<1> HIDE DEF ok, text, after
<1> QED
    BY <1>1, <1>2, <1>3, <1>6, <1>9, <1>10, <1>11, MatchedStep

\* The wait's coroutine goes on.
LEMMA ResumeAnswers ==
    ASSUME TerminalsInv, TerminalsInv', TranscriptsInv, TranscriptsInv', AnswersInv, Resume
    PROVE  AnswersInv'
<1>1. at = "waiting" /\ UNCHANGED <<session, screen>>
    BY DEF Resume
<1>2. PICK here \in TerminalLanes : here = Lane
    BY <1>1 DEF TerminalsInv, InALane
<1>3. Going /\ session[here] # "none"
    BY <1>1, <1>2 DEF Going, AnswersInv, WaitsOnALane
<1>4. CASE Outcome = "matched"
    <2> DEFINE f == settled.found
               text == settled.text
               ok == Succeeds("matched", f)
    <2>1. /\ UNCHANGED transcript /\ settled' = Nothing
          /\ EndNode([status |-> "matched", text |-> text, found |-> f], ok)
        BY <1>4 DEF Resume, EndWait
    <2>2. settled.done /\ ~settled'.done
        BY <1>4, <2>1 DEF Outcome, Nothing
    <2>3. \A m \in TerminalLanes : Within(Shown(m)', Shown(m))
        BY <1>1, <2>1, SameShown
    <2>4. /\ f \in Pattern /\ SpentIn(f, Shown(here), Last)
          /\ \A i \in DOMAIN plan : Answered(i) /\ LaneOf(i) = Lane => verdict[i].found # f
        BY <1>2, <2>2 DEF AnswersInv, AnswerFound
    <2>5. SpentIn(f, Shown(here)', Last)
        BY <1>1, <2>1, <2>4 DEF Shown
    <2> HIDE DEF f, text, ok
    <2> QED
        BY <1>1, <1>2, <1>3, <2>1, <2>2, <2>3, <2>4, <2>5, MatchedStep
<1>5. CASE Outcome # "matched"
    <2> DEFINE t == transcript[here]
               e == [t EXCEPT !.text = <<>>]
               r == screen[here]
               result == [status |-> Outcome, text |-> t.text, found |-> Nothing.found]
               ok == Succeeds(Outcome, Nothing.found)
    <2>1. /\ transcript' = [transcript EXCEPT ![here] = e] /\ settled' = Nothing
          /\ EndNode(result, ok) /\ result.status # "matched"
        BY <1>2, <1>5 DEF Resume, EndWait
    <2>2. screen' = [screen EXCEPT ![here] = r]
        BY <1>1 DEF TranscriptsInv, Types
    <2>3. t \in [text : Seq(Character), tail : Seq(Character)] /\ r \in Seq(Character)
        BY ShownIsText
    <2>4. Within((e.text \o e.tail) \o r, Shown(here))
        <3>1. e.text = <<>> /\ e.tail = t.tail /\ t.text \in Seq(Character) /\ t.tail \in Seq(Character)
            BY <2>3
        <3>2. Shown(here) = (t.text \o t.tail) \o r
            BY DEF Shown
        <3> HIDE DEF t, r, e
        <3> QED
            BY <2>3, <3>1, <3>2, EmptiedShown
    <2> HIDE DEF t, r, e, result, ok
    <2>5. \A m \in TerminalLanes : Within(Shown(m)', Shown(m))
        BY <2>1, <2>2, <2>4, OneLaneShown
    <2>6. ~settled'.done
        BY <2>1 DEF Nothing
    <2> QED
        BY <1>1, <1>3, <2>1, <2>5, <2>6, EndStep
<1> QED
    BY <1>4, <1>5

\* Every step keeps the account of the answers.
LEMMA StepAnswers ==
    /\ TerminalsInv /\ TerminalsInv' /\ TranscriptsInv /\ TranscriptsInv' /\ AnswersInv
    /\ [Next]_vars
    => AnswersInv'
<1> SUFFICES ASSUME TerminalsInv, TerminalsInv', TranscriptsInv, TranscriptsInv', AnswersInv,
                    [Next]_vars
             PROVE  AnswersInv'
    OBVIOUS
<1>l. at \in {"started", "typed", "waiting"} => Lane \in TerminalLanes
    BY DEF TerminalsInv, InALane
<1>s. settled.done => at = "waiting"
    BY DEF AnswersInv, AnswerFound
<1>w. at = "waiting" => session[Lane] # "none"
    BY DEF AnswersInv, WaitsOnALane
<1>n. /\ ~Nothing.done
      /\ [Undecided EXCEPT !.status = "failed"].status # "matched"
    BY DEF Nothing, Undecided
<1>1. CASE RaiseAborted
    BY <1>1, <1>s, SameShown, StayStep DEF RaiseAborted, wait, lanes, Going
<1>2. CASE RunTimesOut
    BY <1>2, <1>s, SameShown, StayStep DEF RunTimesOut, wait, lanes, Going
<1>3. CASE StartNode
    <2>1. CASE Lane = NoLane
        BY <1>3, <1>n, <1>s, <2>1, SameShown, EndStep DEF StartNode, wait, lanes, Going
    <2>2. CASE Lane # NoLane
        BY <1>3, <1>s, <2>2, SameShown, StayStep DEF StartNode, wait, lanes, Going
    <2> QED
        BY <2>1, <2>2
<1>4. CASE OpenTerminal
    <2>1. PICK here \in TerminalLanes : here = Lane
        BY <1>4, <1>l DEF OpenTerminal
    <2>2. PICK b \in Banners : screen' = [screen EXCEPT ![here] = b]
        BY <1>4, <2>1 DEF OpenTerminal
    <2>3. b \in Seq(Character) /\ PromptOnce(b, 0)
        BY OutputAssumption
    <2>4. /\ UNCHANGED <<walk, transcript, settled>> /\ at = "started"
          /\ session[here] = "none" /\ session' = [session EXCEPT ![here] = "open"]
        BY <1>4, <2>1 DEF OpenTerminal, wait
    <2>5. ShownKept
        BY <2>2, <2>3, <2>4, OpenedShown
    <2>6. UNCHANGED <<plan, pos, verdict, at>>
        BY <2>4 DEF walk
    <2>7. \A i \in DOMAIN plan : Answered(i)' => Answered(i) /\ verdict'[i] = verdict[i]
        BY <2>6 DEF Answered
    <2>8. pos' \in {pos, pos + 1} /\ (Going' => Going) /\ WaitsOnALane' /\ ~settled'.done
        BY <1>s, <2>4, <2>6 DEF Going, WaitsOnALane
    <2>9. \A l \in TerminalLanes : session[l] # "none" => session'[l] # "none"
        BY <2>4 DEF TerminalsInv
    <2> QED
        BY <2>5, <2>6, <2>7, <2>8, <2>9, QuietStep
<1>5. CASE OpenFails
    BY <1>5, <1>n, <1>s, SameShown, EndStep DEF OpenFails, wait, lanes, Going
<1>6. CASE Type
    BY <1>6, TypeAnswers
<1>7. CASE TypeFails
    <2>1. PICK here \in TerminalLanes : here = Lane
        BY <1>7, <1>l DEF TypeFails
    <2>2. ClearFirst /\ UNCHANGED <<screen, session, settled>> /\ at = "started"
        BY <1>7 DEF TypeFails, wait
    <2>3. /\ \A m \in TerminalLanes : m # here => transcript'[m] = transcript[m]
          /\ Within((transcript'[here].text \o transcript'[here].tail) \o screen[here], Shown(here))
        BY <2>1, <2>2, ClearedShown
    <2>4. \A m \in TerminalLanes : Within(Shown(m), Shown(m))
        BY ShownIsText, WithinSelf
    <2>5. \A m \in TerminalLanes : Within(Shown(m)', Shown(m))
        BY <2>2, <2>3, <2>4 DEF Shown
    <2> QED
        BY <1>7, <1>n, <1>s, <2>2, <2>5, EndStep DEF TypeFails, Going
<1>8. CASE MatchAtOnce
    BY <1>8, MatchAnswers
<1>9. CASE StartWait
    <2>1. UNCHANGED <<plan, pos, verdict, settled, session, transcript, screen>> /\ at' = "waiting"
        BY <1>9 DEF StartWait, lanes
    <2>2. session[Lane] = "open" /\ Going
        BY <1>9 DEF StartWait, Waits, Going
    <2> QED
        BY <2>1, <2>2, SameShown, StayStep
<1>10. CASE Resume
    BY <1>10, ResumeAnswers
<1>11. CASE CloseTerminal
    <2>1. PICK l \in TerminalLanes :
            /\ session[l] = "open"
            /\ session' = [session EXCEPT ![l] = "closed"]
            /\ transcript' = [transcript EXCEPT ![l] = Empty]
            /\ screen' = [screen EXCEPT ![l] = <<>>]
        BY <1>11 DEF CloseTerminal
    <2>2. at = "closing" /\ UNCHANGED <<plan, pos, verdict, at, settled>>
        BY <1>11 DEF CloseTerminal, walk, wait
    <2>3. /\ transcript[l] \in [text : Seq(Character), tail : Seq(Character)]
          /\ screen[l] \in Seq(Character)
        BY ShownIsText
    <2>4. transcript[l].text \in Seq(Character) /\ transcript[l].tail \in Seq(Character)
        BY <2>3
    <2>5. Within((Empty.text \o Empty.tail) \o <<>>, Shown(l))
        BY <2>3, <2>4, EmptiedShown DEF Shown, Empty
    <2>6. \A m \in TerminalLanes : Within(Shown(m)', Shown(m))
        BY <2>1, <2>5, OneLaneShown
    <2>7. \A m \in TerminalLanes : session[m] # "none" => session'[m] # "none"
        BY <2>1 DEF TerminalsInv
    <2> QED
        BY <1>s, <2>2, <2>6, <2>7, StayStep DEF Going
<1>12. CASE EndRun
    BY <1>12, <1>s, SameShown, StayStep DEF EndRun, wait, lanes, Going
<1>13. CASE TimerFires
    BY <1>13, <1>s, <1>w, SameShown, StayStep DEF TimerFires, walk, lanes, Going
<1>14. CASE Abort
    BY <1>14, <1>s, <1>w, SameShown, StayStep DEF Abort, wait, lanes, Going
<1>15. ASSUME NEW l \in TerminalLanes, Speak(l) PROVE AnswersInv'
    BY <1>15, SpeakAnswers
<1>16. ASSUME NEW l \in TerminalLanes, Die(l) PROVE AnswersInv'
    BY <1>16, <1>s, <1>w, SameShown, StayStep DEF Die, walk, wait, Going
<1>17. ASSUME NEW l \in TerminalLanes, WatcherEnds(l) PROVE AnswersInv'
    BY <1>17, <1>s, <1>w, SameShown, StayStep DEF WatcherEnds, walk, wait, Going
<1>18. CASE UNCHANGED vars
    BY <1>18, <1>s, <1>w, SameShown, StayStep DEF vars, walk, wait, lanes, Going
<1> QED
    BY <1>1, <1>2, <1>3, <1>4, <1>5, <1>6, <1>7, <1>8, <1>9, <1>10, <1>11, <1>12, <1>13,
       <1>14, <1>15, <1>16, <1>17, <1>18 DEF Next, Walk

\* The invariant holds in every reachable state.
THEOREM AnswersInvariant == Spec => []AnswersInv
BY InitAnswers, StepAnswers, TerminalsInvariant, TranscriptsInvariant, PTL DEF Spec

\* A terminal_run succeeds on the exit marker of its own command, never on the
\* echo of what it typed, and no prompt answers two terminal_awaits of a lane: the
\* cut in check() (runtime/terminal.py) and clear() before the write see to it.
THEOREM AnswersAreAlwaysOwn == Spec => []AnswersAreOwn
<1>1. AnswersInv => AnswersAreOwn
    BY DEF AnswersInv, AnswersTaken, AnswersDiffer, AnswersAreOwn, PatternOf, LaneOf
<1> QED
    BY <1>1, AnswersInvariant, PTL

=============================================================================
