------------------------------ MODULE HostProofs ------------------------------
(***************************************************************************)
(* Theorems about Host, for every library of kinds, every host and every   *)
(* list of packages whose names keep out of the library's way.             *)
(*                                                                         *)
(* The argument: an id is resolved by its bare name.  The ids of a shipped *)
(* kind, and those only, carry its names; so whatever the catalogue holds, *)
(* binding one of them binds them all, and binding another id binds none.  *)
(***************************************************************************)
EXTENDS Host, SequenceTheorems, TLAPS

Ids(k) == ToSet(kind_id_index[k])
IdsOfPackage(p) == ToSet(idsOf(PackageKind[p]))

-----------------------------------------------------------------------------
(* Lists of ids *)

LEMMA ConcatSet ==
    ASSUME NEW s, NEW t, s \in Seq(ToSet(s)), t \in Seq(ToSet(t))
    PROVE  /\ ToSet(s \o t) = ToSet(s) \cup ToSet(t)
           /\ s \o t \in Seq(ToSet(s \o t))
<1> DEFINE S == ToSet(s) \cup ToSet(t)
<1>1. s \in Seq(S) /\ t \in Seq(S)
    BY SMT
<1>2. /\ s \o t \in Seq(S) /\ Len(s \o t) = Len(s) + Len(t)
      /\ \A i \in 1 .. Len(s) + Len(t) : (s \o t)[i] = IF i <= Len(s) THEN s[i] ELSE t[i - Len(s)]
    BY <1>1, ConcatProperties
<1>3. DOMAIN s = 1 .. Len(s) /\ DOMAIN t = 1 .. Len(t) /\ DOMAIN (s \o t) = 1 .. Len(s) + Len(t)
      /\ Len(s) \in Nat /\ Len(t) \in Nat
    BY <1>1, <1>2
<1>4. ToSet(s \o t) \subseteq S
    BY <1>2, <1>3 DEF ToSet
<1>5. \A i \in 1 .. Len(s) : i \in 1 .. Len(s) + Len(t) /\ (s \o t)[i] = s[i]
    BY <1>2, <1>3
<1>6. \A i \in 1 .. Len(t) : i + Len(s) \in 1 .. Len(s) + Len(t) /\ (s \o t)[i + Len(s)] = t[i]
    BY <1>2, <1>3
<1>7. S \subseteq ToSet(s \o t)
    BY <1>3, <1>5, <1>6 DEF ToSet
<1> QED
    BY <1>2, <1>4, <1>7

LEMMA IdsOfKind ==
    ASSUME NEW kind, kind.aliases \in Seq(ToSet(kind.aliases))
    PROVE  /\ ToSet(idsOf(kind)) = {kind.name} \cup ToSet(kind.aliases)
           /\ idsOf(kind) \in Seq(ToSet(idsOf(kind)))
           /\ idsOf(kind) # <<>>
<1>1. <<kind.name>> \in Seq(ToSet(<<kind.name>>)) /\ ToSet(<<kind.name>>) = {kind.name}
    BY DEF ToSet
<1>2. kind.name \in ToSet(idsOf(kind))
    BY <1>1, ConcatSet DEF idsOf
<1>3. ToSet(<<>>) = {}
    BY DEF ToSet
<1> QED
    BY <1>1, <1>2, <1>3, ConcatSet DEF idsOf

LEMMA ShippedKind ==
    ASSUME NEW k \in DOMAIN Library
    PROVE  /\ Shipped(k).name = Id("pa", k)
           /\ Shipped(k).aliases \in Seq(ToSet(Shipped(k).aliases))
           /\ ToSet(Shipped(k).aliases) = {Bare(k), Id("fancy", k)} \cup ToSet(Library[k].aliases)
           /\ idsOf(Shipped(k)) = kind_id_index[k]
           /\ Ids(k) = {Id("pa", k)} \cup ToSet(Shipped(k).aliases)
           /\ kind_id_index[k] \in Seq(Ids(k)) /\ kind_id_index[k] # <<>>
<1>1. /\ Library[k] = Kind(Library[k].name, Library[k].aliases, Library[k].category)
      /\ Library[k].aliases \in Seq(ToSet(Library[k].aliases))
    BY LibraryAssumption
<1>2. /\ Shipped(k).name = Id("pa", k)
      /\ Shipped(k).aliases = builtin_aliases(k) \o Library[k].aliases
    BY <1>1 DEF Shipped, Kind
<1>3. builtin_aliases(k) \in Seq(ToSet(builtin_aliases(k)))
      /\ ToSet(builtin_aliases(k)) = {Bare(k), Id("fancy", k)}
    BY DEF builtin_aliases, ToSet
<1>4. /\ Shipped(k).aliases \in Seq(ToSet(Shipped(k).aliases))
      /\ ToSet(Shipped(k).aliases) = {Bare(k), Id("fancy", k)} \cup ToSet(Library[k].aliases)
    BY <1>1, <1>2, <1>3, ConcatSet
<1>5. kind_id_index[k] = idsOf(Shipped(k))
    BY DEF kind_id_index
<1> QED
    BY <1>2, <1>4, <1>5, IdsOfKind DEF Ids

LEMMA VariantsOf ==
    ASSUME NEW id
    PROVE  /\ ToSet(variants(id)) = {id, Id("pa", id.name), Id("fancy", id.name), Bare(id.name)}
           /\ variants(id) \in Seq(ToSet(variants(id)))
           /\ \A i \in ToSet(variants(id)) : i.name = id.name
<1>1. variants(id) = <<id, Id("pa", id.name), Id("fancy", id.name), Bare(id.name)>>
    BY DEF variants
<1>2. ToSet(variants(id)) = {id, Id("pa", id.name), Id("fancy", id.name), Bare(id.name)}
    BY <1>1 DEF ToSet
<1>3. /\ id.name = id.name /\ Id("pa", id.name).name = id.name
      /\ Id("fancy", id.name).name = id.name /\ Bare(id.name).name = id.name
    BY DEF Id, Bare
<1>4. variants(id) \in Seq({id, Id("pa", id.name), Id("fancy", id.name), Bare(id.name)})
    BY <1>1
<1> QED
    BY <1>2, <1>3, <1>4

\* A bare name tells which shipped kind is meant, and whether one is.
LEMMA NamesTellKindsApart ==
    ASSUME NEW k \in DOMAIN Library, NEW i \in Ids(k)
    PROVE  /\ i \in ShippedIds /\ i.name \in ShippedNames
           /\ \A l \in DOMAIN Library : \A j \in Ids(l) : i.name = j.name => l = k
           /\ k \in ShippedNames
           /\ i.name \in DOMAIN Library => i.name = k
           /\ i # Star
<1>1. i \in ShippedIds /\ i.name \in ShippedNames
    BY DEF ShippedIds, ShippedNames, Ids
<1>2. \A l \in DOMAIN Library : \A j \in Ids(l) : i.name = j.name => l = k
    BY LibraryAssumption DEF Ids
<1>3. \A l \in DOMAIN Library : Id("pa", l) \in Ids(l) /\ Id("pa", l).name = l
    BY ShippedKind DEF Id
<1>4. k \in ShippedNames
    BY <1>3 DEF ShippedIds, ShippedNames, Ids
<1>5. i # Star
    BY LibraryAssumption DEF Ids, Star
<1> QED
    BY <1>1, <1>2, <1>3, <1>4, <1>5

LEMMA HostKind ==
    ASSUME NEW kind \in HostKinds
    PROVE  /\ ToSet(idsOf(kind)) = {kind.name} \cup ToSet(kind.aliases)
           /\ idsOf(kind) \in Seq(ToSet(idsOf(kind))) /\ idsOf(kind) # <<>>
           /\ \A id \in ToSet(idsOf(kind)) : id.name \notin ShippedNames /\ id \notin ShippedIds
<1>1. kind.aliases \in Seq(ToSet(kind.aliases))
      /\ \A id \in ToSet(idsOf(kind)) : id.name \notin ShippedNames
    BY NamesAssumption
<1>2. \A id \in ShippedIds : id.name \in ShippedNames
    BY DEF ShippedNames
<1> QED
    BY <1>1, <1>2, IdsOfKind

-----------------------------------------------------------------------------
(* The catalogue *)

\* What a catalogue holds: shipped kinds under their canonical ids, kinds of the
\* host, and aliases of either that name a kind that is there.
Sound(c) ==
    /\ \A n \in DOMAIN c.kinds :
          \/ \E k \in DOMAIN Library : n = Id("pa", k) /\ c.kinds[n] = Shipped(k)
          \/ c.kinds[n] \in HostKinds /\ c.kinds[n].name = n
    /\ \A a \in DOMAIN c.aliases :
          /\ c.aliases[a] \in DOMAIN c.kinds
          /\ \/ \E k \in DOMAIN Library : a \in Ids(k) /\ c.aliases[a] = Id("pa", k)
             \/ \E kind \in HostKinds : a \in ToSet(idsOf(kind)) /\ c.aliases[a] = kind.name

LEMMA EmptySound == Sound(EmptyCatalogue)
    BY DEF Sound, EmptyCatalogue

LEMMA Kinds ==
    ASSUME NEW c, Sound(c), NEW n \in DOMAIN c.kinds
    PROVE  c.kinds[n].name = n
    BY ShippedKind DEF Sound

LEMMA RegisterSound ==
    ASSUME NEW c, Sound(c), NEW kind \in HostKinds
    PROVE  Sound(register(c, kind))
<1> DEFINE d == register(c, kind)
<1>1. /\ DOMAIN d.kinds = DOMAIN c.kinds \cup {kind.name}
      /\ \A n \in DOMAIN d.kinds : d.kinds[n] = IF n = kind.name THEN kind ELSE c.kinds[n]
      /\ DOMAIN d.aliases = DOMAIN c.aliases \cup ToSet(kind.aliases)
      /\ \A a \in DOMAIN d.aliases :
            d.aliases[a] = IF a \in ToSet(kind.aliases) THEN kind.name ELSE c.aliases[a]
    BY DEF register, With, Over
<1>2. ToSet(kind.aliases) \subseteq ToSet(idsOf(kind))
    BY HostKind
<1> HIDE DEF d
<1>3. \A n \in DOMAIN d.kinds :
          \/ \E k \in DOMAIN Library : n = Id("pa", k) /\ d.kinds[n] = Shipped(k)
          \/ d.kinds[n] \in HostKinds /\ d.kinds[n].name = n
    BY <1>1 DEF Sound
<1>4. \A a \in DOMAIN d.aliases :
          /\ d.aliases[a] \in DOMAIN d.kinds
          /\ \/ \E k \in DOMAIN Library : a \in Ids(k) /\ d.aliases[a] = Id("pa", k)
             \/ \E g \in HostKinds : a \in ToSet(idsOf(g)) /\ d.aliases[a] = g.name
    BY <1>1, <1>2 DEF Sound
<1> QED
    BY <1>3, <1>4 DEF Sound, d

LEMMA UnregisterSound ==
    ASSUME NEW c, Sound(c), NEW id
    PROVE  Sound(unregister(c, id))
<1> DEFINE name == IF has(c, id) THEN kindOf(c, id).name ELSE id
           d == unregister(c, id)
<1>1. /\ DOMAIN d.kinds = DOMAIN c.kinds \ {name}
      /\ \A n \in DOMAIN d.kinds : d.kinds[n] = c.kinds[n]
      /\ DOMAIN d.aliases = {a \in DOMAIN c.aliases : c.aliases[a] # name}
      /\ \A a \in DOMAIN d.aliases : d.aliases[a] = c.aliases[a]
    BY DEF unregister, Without
<1> HIDE DEF d, name
<1> QED
    BY <1>1 DEF Sound, d

LEMMA LibrarySound ==
    ASSUME NEW c, Sound(c)
    PROVE  Sound(registerLibrary(c))
<1> DEFINE d == registerLibrary(c)
           canonical == {Id("pa", name) : name \in DOMAIN Library}
           aliases == UNION {ToSet(Shipped(name).aliases) : name \in DOMAIN Library}
           owner(a) == CHOOSE name \in DOMAIN Library : a \in ToSet(Shipped(name).aliases)
<1>1. /\ DOMAIN d.kinds = canonical \cup DOMAIN c.kinds
      /\ \A n \in DOMAIN d.kinds : d.kinds[n] = IF n \in canonical THEN Shipped(n.name) ELSE c.kinds[n]
      /\ DOMAIN d.aliases = aliases \cup DOMAIN c.aliases
      /\ \A a \in DOMAIN d.aliases : d.aliases[a] = IF a \in aliases THEN Id("pa", owner(a)) ELSE c.aliases[a]
    BY DEF registerLibrary, Over
<1>2. \A n \in canonical : n.name \in DOMAIN Library /\ n = Id("pa", n.name)
    BY DEF Id
<1>3. \A a \in aliases : owner(a) \in DOMAIN Library /\ a \in Ids(owner(a)) /\ Id("pa", owner(a)) \in canonical
    <2> SUFFICES ASSUME NEW a \in aliases
                 PROVE  owner(a) \in DOMAIN Library /\ a \in Ids(owner(a)) /\ Id("pa", owner(a)) \in canonical
        OBVIOUS
    <2>1. \E name \in DOMAIN Library : a \in ToSet(Shipped(name).aliases)
        OBVIOUS
    <2>2. owner(a) \in DOMAIN Library /\ a \in ToSet(Shipped(owner(a)).aliases)
        BY <2>1
    <2> HIDE DEF owner
    <2> QED
        BY <2>2, ShippedKind
<1> HIDE DEF d, canonical, aliases, owner
<1>4. \A n \in DOMAIN d.kinds :
          \/ \E k \in DOMAIN Library : n = Id("pa", k) /\ d.kinds[n] = Shipped(k)
          \/ d.kinds[n] \in HostKinds /\ d.kinds[n].name = n
    BY <1>1, <1>2 DEF Sound
<1>5. \A a \in DOMAIN d.aliases :
          /\ d.aliases[a] \in DOMAIN d.kinds
          /\ \/ \E k \in DOMAIN Library : a \in Ids(k) /\ d.aliases[a] = Id("pa", k)
             \/ \E g \in HostKinds : a \in ToSet(idsOf(g)) /\ d.aliases[a] = g.name
    BY <1>1, <1>3 DEF Sound
<1> QED
    BY <1>4, <1>5 DEF Sound, d

\* An id of a shipped kind means that kind or nothing; another id never does.
LEMMA Resolved ==
    ASSUME NEW c, Sound(c), NEW id, has(c, id)
    PROVE  \/ \E k \in DOMAIN Library : id \in Ids(k) /\ kindOf(c, id) = Shipped(k)
           \/ /\ kindOf(c, id) \in HostKinds
              /\ \E kind \in HostKinds : id \in ToSet(idsOf(kind)) /\ kind.name = kindOf(c, id).name
<1> DEFINE n == CHOOSE name \in resolve_kind_id(c, id) : TRUE
<1>1. n \in resolve_kind_id(c, id) /\ kindOf(c, id) = c.kinds[n]
    BY DEF has, kindOf
<1> HIDE DEF n
<1>2. CASE id \in DOMAIN c.kinds
    <2>1. n = id
        BY <1>1, <1>2 DEF resolve_kind_id
    <2>2. \A k \in DOMAIN Library : Id("pa", k) \in Ids(k)
        BY ShippedKind
    <2>3. \A kind \in HostKinds : kind.name \in ToSet(idsOf(kind))
        BY HostKind
    <2> QED
        BY <1>1, <1>2, <2>1, <2>2, <2>3 DEF Sound
<1>3. CASE id \notin DOMAIN c.kinds
    <2>1. id \in DOMAIN c.aliases /\ n = c.aliases[id] /\ n \in DOMAIN c.kinds
        BY <1>1, <1>3 DEF resolve_kind_id
    <2>2. CASE \E k \in DOMAIN Library : id \in Ids(k) /\ n = Id("pa", k)
        <3>1. PICK k \in DOMAIN Library : id \in Ids(k) /\ n = Id("pa", k)
            BY <2>2
        <3>2. n.name = k /\ k \in ShippedNames
            BY <3>1, NamesTellKindsApart DEF Id
        <3>3. ~ (c.kinds[n] \in HostKinds /\ c.kinds[n].name = n)
            <4> SUFFICES ASSUME c.kinds[n] \in HostKinds, c.kinds[n].name = n PROVE FALSE
                OBVIOUS
            <4>1. n \in ToSet(idsOf(c.kinds[n]))
                BY HostKind
            <4> QED
                BY <4>1, <3>2, HostKind
        <3>4. PICK l \in DOMAIN Library : n = Id("pa", l) /\ c.kinds[n] = Shipped(l)
            BY <2>1, <3>3 DEF Sound
        <3>5. l = k
            BY <3>4, <3>2 DEF Id
        <3> QED
            BY <1>1, <3>1, <3>4, <3>5
    <2>3. CASE \E kind \in HostKinds : id \in ToSet(idsOf(kind)) /\ n = kind.name
        <3>1. PICK kind \in HostKinds : id \in ToSet(idsOf(kind)) /\ n = kind.name
            BY <2>3
        <3>2. n.name \notin ShippedNames
            BY <3>1, HostKind
        <3>3. \A k \in DOMAIN Library : n # Id("pa", k)
            <4> SUFFICES ASSUME NEW k \in DOMAIN Library, n = Id("pa", k) PROVE FALSE
                OBVIOUS
            <4>1. Id("pa", k) \in Ids(k) /\ Id("pa", k).name = k
                BY ShippedKind DEF Id
            <4> QED
                BY <4>1, <3>2, NamesTellKindsApart
        <3>4. c.kinds[n] \in HostKinds /\ c.kinds[n].name = n
            BY <2>1, <3>3 DEF Sound
        <3> QED
            BY <1>1, <3>1, <3>4
    <2> QED
        BY <2>1, <2>2, <2>3 DEF Sound
<1> QED
    BY <1>2, <1>3

-----------------------------------------------------------------------------
(* What a binding reaches *)

\* The ids a kind known to the catalogue or to the library is declared with.
DeclaredFor(c, id) ==
    IF has(c, id) THEN ids_for(c, id)
    ELSE IF id.name \in DOMAIN Library THEN kind_id_index[id.name] ELSE <<>>

LEMMA BoundAlong ==
    ASSUME NEW c, NEW id, id # Star, DeclaredFor(c, id) \in Seq(ToSet(DeclaredFor(c, id)))
    PROVE  /\ DeclaredFor(c, id) = <<>> => boundWith(c, id) = {id}
           /\ DeclaredFor(c, id) # <<>> =>
                  boundWith(c, id) = {id} \cup ((ToSet(DeclaredFor(c, id)) \cup ToSet(variants(id))) \ {Star})
<1> DEFINE D == DeclaredFor(c, id)
<1>1. aliasIdsFor(c, id) = IF D = <<>> THEN {} ELSE ToSet(D \o variants(id)) \ {id, Star}
    BY DEF aliasIdsFor, DeclaredFor
<1> HIDE DEF D
<1>2. ToSet(D \o variants(id)) = ToSet(D) \cup ToSet(variants(id))
    BY VariantsOf, ConcatSet DEF D
<1>3. boundWith(c, id) = {id} \cup aliasIdsFor(c, id)
    BY DEF boundWith
<1> QED
    BY <1>1, <1>2, <1>3 DEF D

LEMMA DeclaredKind ==
    ASSUME NEW c, Sound(c), NEW id, has(c, id)
    PROVE  DeclaredFor(c, id) = idsOf(kindOf(c, id))
    BY DEF DeclaredFor, ids_for

\* Binding one id of a shipped kind binds them all, if the id is known for one of
\* the kind; and it binds no id of another shipped kind.
LEMMA ShippedBound ==
    ASSUME NEW c, Sound(c), NEW k \in DOMAIN Library, NEW id \in Ids(k)
    PROVE  /\ Known(c, id) => Ids(k) \subseteq boundWith(c, id)
           /\ boundWith(c, id) \cap ShippedIds \subseteq Ids(k)
<1> DEFINE D == DeclaredFor(c, id)
<1>1. \/ Known(c, id) /\ D = kind_id_index[k]
      \/ ~Known(c, id) /\ D = <<>>
    <2>1. CASE has(c, id)
        <3>1. \A kind \in HostKinds : id \notin ToSet(idsOf(kind))
            BY NamesTellKindsApart, HostKind
        <3>2. PICK l \in DOMAIN Library : id \in Ids(l) /\ kindOf(c, id) = Shipped(l)
            BY <2>1, <3>1, Resolved
        <3>3. l = k
            BY <3>2, NamesTellKindsApart
        <3> QED
            BY <2>1, <3>2, <3>3, DeclaredKind, ShippedKind DEF Known
    <2>2. CASE ~has(c, id)
        BY <2>2, NamesTellKindsApart DEF DeclaredFor, Known
    <2> QED
        BY <2>1, <2>2
<1>2. kind_id_index[k] \in Seq(Ids(k)) /\ kind_id_index[k] # <<>> /\ ToSet(kind_id_index[k]) = Ids(k)
    BY ShippedKind DEF Ids
<1>0. <<>> \in Seq(ToSet(<<>>))
    OBVIOUS
<1>3. D \in Seq(ToSet(D))
    BY <1>0, <1>1, <1>2
<1>4. id # Star /\ Star \notin Ids(k)
    BY NamesTellKindsApart
<1>5. ToSet(variants(id)) \cap ShippedIds \subseteq Ids(k)
    BY VariantsOf, NamesTellKindsApart DEF ShippedIds, Ids
<1> HIDE DEF D
<1>6. /\ D = <<>> => boundWith(c, id) = {id}
      /\ D # <<>> => boundWith(c, id) = {id} \cup ((ToSet(D) \cup ToSet(variants(id))) \ {Star})
    BY <1>3, <1>4, BoundAlong DEF D
<1> QED
    BY <1>1, <1>2, <1>4, <1>5, <1>6

\* Binding any other id, with what is known of it, binds no shipped one.
LEMMA OtherBound ==
    ASSUME NEW c, Sound(c), NEW id, id \notin ShippedIds,
           \/ id = Star
           \/ id.name \notin DOMAIN Library
    PROVE  boundWith(c, id) \cap ShippedIds = {}
<1>1. CASE id = Star
    BY <1>1 DEF boundWith
<1>2. CASE id # Star /\ ~has(c, id)
    <2>1. DeclaredFor(c, id) = <<>> /\ <<>> \in Seq(ToSet(<<>>))
        BY <1>2 DEF DeclaredFor
    <2>2. boundWith(c, id) = {id}
        BY <1>2, <2>1, BoundAlong
    <2> QED
        BY <2>2
<1>3. CASE id # Star /\ has(c, id)
    <2>1. \A k \in DOMAIN Library : id \notin Ids(k)
        BY DEF ShippedIds, Ids
    <2>2. /\ kindOf(c, id) \in HostKinds
          /\ \E kind \in HostKinds : id \in ToSet(idsOf(kind))
        BY <1>3, <2>1, Resolved
    <2>3. DeclaredFor(c, id) = idsOf(kindOf(c, id))
        BY <1>3, DeclaredKind
    <2>4. /\ DeclaredFor(c, id) \in Seq(ToSet(DeclaredFor(c, id))) /\ DeclaredFor(c, id) # <<>>
          /\ ToSet(DeclaredFor(c, id)) \cap ShippedIds = {}
        BY <2>2, <2>3, HostKind
    <2>5. id.name \notin ShippedNames
        BY <2>2, HostKind
    <2>6. ToSet(variants(id)) \cap ShippedIds = {}
        BY <2>5, VariantsOf DEF ShippedNames
    <2> QED
        BY <1>3, <2>4, <2>6, BoundAlong
<1> QED
    BY <1>1, <1>2, <1>3

\* The sentinel is bound when it is meant, and never along with a kind.
LEMMA StarBound ==
    ASSUME NEW c, NEW id
    PROVE  Star \in boundWith(c, id) <=> id = Star
    BY DEF boundWith, aliasIdsFor

\* A package's binding reaches all ids of its kind, and none of another name.
LEMMA PackageBound ==
    ASSUME NEW c, Sound(c), NEW p \in ToSet(Packages), NEW d, d = register(c, PackageKind[p])
    PROVE  /\ \A id \in IdsOfPackage(p) \ {Star} :
                  has(d, id) /\ id \in boundWith(d, PackageKind[p].name)
           /\ \A id \in boundWith(d, PackageKind[p].name) :
                  \E i \in IdsOfPackage(p) : i.name = id.name
<1> DEFINE kind == PackageKind[p]
<1>1. kind \in HostKinds
    BY DEF HostKinds
<1>2. /\ IdsOfPackage(p) = {kind.name} \cup ToSet(kind.aliases)
      /\ idsOf(kind) \in Seq(IdsOfPackage(p)) /\ idsOf(kind) # <<>>
      /\ ToSet(idsOf(kind)) = IdsOfPackage(p)
    BY <1>1, HostKind DEF IdsOfPackage
<1> HIDE DEF kind
<1>3. /\ kind.name \in DOMAIN d.kinds /\ d.kinds[kind.name] = kind
      /\ ToSet(kind.aliases) \subseteq DOMAIN d.aliases
      /\ \A a \in ToSet(kind.aliases) : d.aliases[a] = kind.name
    BY DEF register, With, Over, kind
<1>4. \A id \in IdsOfPackage(p) : has(d, id)
    BY <1>2, <1>3 DEF has, resolve_kind_id
<1>5. kindOf(d, kind.name) = kind
    BY <1>3 DEF kindOf, resolve_kind_id
<1>6. Sound(d)
    BY <1>1, RegisterSound DEF kind
<1>7. DeclaredFor(d, kind.name) = idsOf(kind)
    BY <1>2, <1>4, <1>5, <1>6, DeclaredKind
<1>8. kind.name # Star
    BY NamesAssumption DEF kind
<1>9. boundWith(d, kind.name) = {kind.name} \cup ((IdsOfPackage(p) \cup ToSet(variants(kind.name))) \ {Star})
    BY <1>2, <1>7, <1>8, BoundAlong
<1>10. \A id \in boundWith(d, kind.name) : \E i \in IdsOfPackage(p) : i.name = id.name
    BY <1>2, <1>9, VariantsOf
<1>11. \A id \in IdsOfPackage(p) \ {Star} : id \in boundWith(d, kind.name)
    BY <1>9
<1> QED
    BY <1>4, <1>10, <1>11 DEF kind

\* A bound id is resolved to its binding, whatever the catalogue says of it.
LEMMA BoundFirst ==
    ASSUME NEW b, NEW c, Sound(c), NEW id \in DOMAIN b
    PROVE  resolveKind(b, c, id) = b[id]
<1> DEFINE cs == candidates(c, id)
           hits == {i \in 1 .. Len(cs) : cs[i] \in DOMAIN b}
<1>1. ids_for(c, id) \in Seq(ToSet(ids_for(c, id)))
    <2>1. CASE has(c, id)
        <3>1. CASE kindOf(c, id) \in HostKinds
            BY <2>1, <3>1, HostKind DEF ids_for
        <3>2. CASE \E k \in DOMAIN Library : kindOf(c, id) = Shipped(k)
            <4>1. \A k \in DOMAIN Library : idsOf(Shipped(k)) \in Seq(ToSet(idsOf(Shipped(k))))
                BY ShippedKind DEF Ids
            <4> QED
                BY <2>1, <3>2, <4>1 DEF ids_for
        <3> QED
            BY <2>1, <3>1, <3>2, Resolved
    <2>2. CASE ~has(c, id)
        <3>1. <<>> \in Seq(ToSet(<<>>))
            OBVIOUS
        <3> QED
            BY <2>2, <3>1 DEF ids_for
    <2> QED
        BY <2>1, <2>2
<1>2. cs \in Seq({id} \cup ToSet(ids_for(c, id)) \cup ToSet(variants(id))) /\ cs[1] = id /\ Len(cs) >= 1
    <2> DEFINE S == {id} \cup ToSet(ids_for(c, id)) \cup ToSet(variants(id))
    <2>1. <<id>> \in Seq(S) /\ ids_for(c, id) \in Seq(S) /\ variants(id) \in Seq(S)
        BY <1>1, VariantsOf
    <2>2. cs = (<<id>> \o ids_for(c, id)) \o variants(id)
        BY DEF candidates
    <2> HIDE DEF S, cs
    <2>3. /\ <<id>> \o ids_for(c, id) \in Seq(S) /\ Len(<<id>> \o ids_for(c, id)) = 1 + Len(ids_for(c, id))
          /\ (<<id>> \o ids_for(c, id))[1] = id
        BY <2>1
    <2> QED
        BY <2>1, <2>2, <2>3 DEF S
<1> HIDE DEF cs
<1>3. 1 \in hits /\ \A i \in hits : i \in Nat /\ 1 <= i
    BY <1>2
<1> HIDE DEF hits
<1>4. Min(hits) = 1
    BY <1>3 DEF Min
<1>5. SelectInSeq(candidates(c, id), LAMBDA x : x \in DOMAIN b) = 1
    BY <1>3, <1>4 DEF SelectInSeq, hits, cs
<1> QED
    BY <1>2, <1>5 DEF resolveKind, cs

-----------------------------------------------------------------------------
(* The invariant *)

\* Every id of a shipped kind is bound, to the executor meant for its kind; the
\* sentinel only where somebody bound it.
BindingsInv ==
    /\ bound = [r \in Registries |-> bound[r]] /\ latest = [r \in Registries |-> latest[r]]
    /\ starBound \subseteq Registries
    /\ \A r \in Registries, k \in WithExecutor : \A id \in Ids(k) :
          /\ id \in DOMAIN bound[r]
          /\ latest[r][k] # NoExecutor => bound[r][id] = latest[r][k]
    /\ \A r \in Registries : \A id \in DOMAIN bound[r] : bound[r][id] # NoExecutor
    /\ FallbackOnlyExplicit

\* What a package that loaded was promised while its pass goes on.
Runs(p, loaded, c, b) ==
    \A id \in IdsOfPackage(p) \ {Star} :
        /\ has(c, id) /\ id \in DOMAIN b
        /\ b[id] \in loaded /\ (b[id] = p \/ TakesOver(b[id], p, id))

\* The first k packages are done with, and what loaded is among them.
Passed(k, left, loaded) ==
    /\ k + Len(left) = Len(Packages)
    /\ \A i \in DOMAIN left : left[i] = Packages[k + i]
    /\ \A p \in loaded : \E i \in 1 .. k : Packages[i] = p

PassInv ==
    /\ found = [left |-> found.left, strict |-> found.strict]
    /\ report = [loaded |-> report.loaded, failed |-> report.failed]
    /\ found.left \in Seq(ToSet(Packages))
    /\ ~Idle =>
          /\ report.loaded \subseteq ToSet(Packages)
          /\ \A p \in report.loaded : Runs(p, report.loaded, cat, bound["shared"])
          /\ \E k \in Nat : Passed(k, found.left, report.loaded)
          /\ ~found.strict => report.loaded \cup report.failed \cup ToSet(found.left) = ToSet(Packages)

\* What is installed is what was installed last, unless a callable of an earlier
\* installation of the same object was called.
ServiceInv ==
    /\ service = [c \in Capabilities |-> service[c]]
    /\ wanted \subseteq handles
    /\ \A v, w \in wanted : v.cap = w.cap => v = w
    /\ \A c \in Capabilities :
          /\ service[c] = NoService \/ \E w \in wanted : w.cap = c /\ w.service = service[c]
          /\ \A w \in wanted : w.cap = c =>
                \/ service[c] = w.service
                \/ service[c] = NoService /\ \E h \in handles : h # w /\ h.cap = c /\ h.service = w.service

HostInv == Sound(cat) /\ BindingsInv /\ PassInv /\ ServiceInv

\* The ids a host or a package binds an executor under.
Bindable == Spellings \cup {Star} \cup {PackageKind[p].name : p \in ToSet(Packages)}

LEMMA BindableIds ==
    ASSUME NEW id \in Bindable
    PROVE  \/ \E k \in DOMAIN Library : id \in Ids(k)
           \/ id \notin ShippedIds /\ (id = Star \/ id.name \notin DOMAIN Library)
<1>1. CASE id \in Spellings
    BY <1>1, NamesAssumption DEF ShippedIds, Ids
<1>2. CASE id = Star
    BY <1>2, NamesTellKindsApart DEF ShippedIds, Ids
<1>3. ASSUME NEW p \in ToSet(Packages), id = PackageKind[p].name
      PROVE  id \notin ShippedIds /\ id.name \notin DOMAIN Library
    <2>1. PackageKind[p] \in HostKinds /\ id \in ToSet(idsOf(PackageKind[p]))
        BY <1>3, HostKind DEF HostKinds
    <2>2. id.name \notin ShippedNames /\ id \notin ShippedIds
        BY <2>1, HostKind
    <2>3. DOMAIN Library \subseteq ShippedNames
        <3>1. \A k \in DOMAIN Library : Id("pa", k) \in Ids(k)
            BY ShippedKind
        <3> QED
            BY <3>1, NamesTellKindsApart
    <2> QED
        BY <2>2, <2>3
<1> QED
    BY <1>1, <1>2, <1>3 DEF Bindable

LEMMA BindStep ==
    ASSUME BindingsInv, NEW r \in Registries, NEW c, Sound(c), NEW id \in Bindable,
           NEW e, e # NoExecutor, BindOn(r, c, id, e)
    PROVE  BindingsInv'
<1> DEFINE S == boundWith(c, id)
<1>1. /\ bound' = [bound EXCEPT ![r] = bind(@, c, id, e)]
      /\ bound' = [q \in Registries |-> bound'[q]]
      /\ \A q \in Registries \ {r} : bound'[q] = bound[q]
      /\ bound'[r] = bind(bound[r], c, id, e)
    BY DEF BindOn, BindingsInv
<1>2. /\ DOMAIN bound'[r] = DOMAIN bound[r] \cup S
      /\ \A i \in DOMAIN bound'[r] : bound'[r][i] = IF i \in S THEN e ELSE bound[r][i]
    BY <1>1 DEF bind, With, Over
<1>3. /\ latest' = [q \in Registries |-> latest'[q]]
      /\ \A q \in Registries \ {r} : latest'[q] = latest[q]
      /\ \A k \in WithExecutor :
            latest'[r][k] = IF k \notin Means(id) THEN latest[r][k] ELSE IF Known(c, id) THEN e ELSE NoExecutor
    BY DEF BindOn, BindingsInv
<1>4. starBound' = IF id = Star THEN starBound \cup {r} ELSE starBound
    BY DEF BindOn
<1> HIDE DEF S
<1>5. ASSUME NEW k \in WithExecutor, NEW i \in Ids(k)
      PROVE  /\ i \in DOMAIN bound'[r]
             /\ latest'[r][k] # NoExecutor => bound'[r][i] = latest'[r][k]
    <2>1. k \in DOMAIN Library /\ i \in DOMAIN bound[r]
          /\ (latest[r][k] # NoExecutor => bound[r][i] = latest[r][k])
        BY <1>5, HostAssumption DEF BindingsInv
    <2>2. CASE id \in Ids(k)
        <3>1. k \in Means(id)
            BY <2>2 DEF Means, Ids
        <3>2. Known(c, id) => i \in S
            BY <2>1, <2>2, <1>5, ShippedBound DEF S
        <3> QED
            BY <1>2, <1>3, <2>1, <3>1, <3>2
    <2>3. CASE id \notin Ids(k)
        <3>1. k \notin Means(id)
            BY <2>3 DEF Means, Ids
        <3>2. i \in ShippedIds
            BY <2>1, <1>5, NamesTellKindsApart
        <3>3. i \notin S
            <4>1. CASE \E l \in DOMAIN Library : id \in Ids(l)
                <5>1. PICK l \in DOMAIN Library : id \in Ids(l)
                    BY <4>1
                <5>2. S \cap ShippedIds \subseteq Ids(l)
                    BY <5>1, ShippedBound DEF S
                <5>3. i \notin Ids(l)
                    BY <2>1, <2>3, <5>1, <1>5, NamesTellKindsApart
                <5> QED
                    BY <3>2, <5>2, <5>3
            <4>2. CASE id \notin ShippedIds /\ (id = Star \/ id.name \notin DOMAIN Library)
                <5>1. S \cap ShippedIds = {}
                    BY <4>2, OtherBound DEF S
                <5> QED
                    BY <3>2, <5>1
            <4> QED
                BY <4>1, <4>2, BindableIds
        <3> QED
            BY <1>2, <1>3, <2>1, <3>1, <3>3
    <2> QED
        BY <2>2, <2>3
<1>6. \A i \in DOMAIN bound'[r] : bound'[r][i] # NoExecutor
    BY <1>2 DEF BindingsInv
<1>7. Star \in S <=> id = Star
    BY StarBound DEF S
<1>8. FallbackOnlyExplicit'
    BY <1>1, <1>2, <1>4, <1>7 DEF BindingsInv, FallbackOnlyExplicit
<1> QED
    BY <1>1, <1>3, <1>4, <1>5, <1>6, <1>8 DEF BindingsInv

LEMMA InitBindings ==
    ASSUME Init
    PROVE  BindingsInv
<1> DEFINE b == bindLibrary(EmptyCatalogue, WithExecutor)
<1>1. /\ DOMAIN b = UNION {idsBoundFor(EmptyCatalogue, k) : k \in WithExecutor}
      /\ \A i \in DOMAIN b : b[i] = CHOOSE k \in WithExecutor : i \in idsBoundFor(EmptyCatalogue, k)
    BY DEF bindLibrary
<1> HIDE DEF b
<1>2. \A i \in DOMAIN b : b[i] \in WithExecutor /\ i \in idsBoundFor(EmptyCatalogue, b[i])
    BY <1>1
<1>3. \A k \in WithExecutor : \A i \in Ids(k) : i \in idsBoundFor(EmptyCatalogue, k)
    BY DEF idsBoundFor, boundWith, Ids
<1>4. ASSUME NEW k \in WithExecutor, NEW i \in Ids(k)
      PROVE  i \in DOMAIN b /\ b[i] = k
    <2>1. i \in DOMAIN b
        BY <1>1, <1>3, <1>4
    <2>2. b[i] \in DOMAIN Library /\ k \in DOMAIN Library
        BY <1>2, <2>1, HostAssumption
    <2>3. PICK id \in Ids(b[i]) : i \in boundWith(EmptyCatalogue, id)
        BY <1>2, <2>1 DEF idsBoundFor, Ids
    <2>4. i \in Ids(b[i])
        BY <1>4, <2>2, <2>3, EmptySound, ShippedBound, NamesTellKindsApart
    <2>5. b[i] = k
        BY <1>4, <2>2, <2>4, NamesTellKindsApart
    <2> QED
        BY <2>1, <2>5
<1>5. Star \notin DOMAIN b
    <2>1. \A k \in WithExecutor : Star \notin Ids(k)
        BY HostAssumption, NamesTellKindsApart
    <2> QED
        BY <1>1, <2>1, StarBound DEF idsBoundFor, Ids
<1>6. \A i \in DOMAIN b : b[i] # NoExecutor
    BY <1>2, HostAssumption
<1>7. /\ bound = [r \in Registries |-> b] /\ latest = [r \in Registries |-> [k \in WithExecutor |-> k]]
      /\ starBound = {}
    BY DEF Init, b
<1>8. FallbackOnlyExplicit
    BY <1>5, <1>7 DEF FallbackOnlyExplicit
<1> QED
    BY <1>4, <1>6, <1>7, <1>8 DEF BindingsInv

\* One entry point of a pass: what it installs, what it binds and what it reports.
LEMMA LoadStep ==
    ASSUME HostInv, NEW outcome \in Outcomes, Load(outcome)
    PROVE  /\ Sound(cat') /\ BindingsInv' /\ PassInv'
           /\ \A p \in report'.loaded : Runs(p, report'.loaded, cat', bound'["shared"])
           /\ Idle' /\ ~found.strict => report'.loaded \cup report'.failed = ToSet(Packages)
<1> DEFINE p == Head(found.left)
           kind == PackageKind[p]
           B == bound["shared"]
<1>1. /\ found.left \in Seq(ToSet(Packages)) /\ found.left # <<>> /\ p \in ToSet(Packages)
      /\ Tail(found.left) \in Seq(ToSet(Packages)) /\ ToSet(found.left) = {p} \cup ToSet(Tail(found.left))
    <2>1. found.left \in Seq(ToSet(Packages)) /\ found.left # <<>>
        BY DEF HostInv, PassInv, Load, Idle
    <2>2. /\ Head(found.left) = found.left[1] /\ Len(found.left) \in Nat \ {0}
          /\ Len(Tail(found.left)) = Len(found.left) - 1
          /\ \A i \in 1 .. Len(found.left) - 1 : Tail(found.left)[i] = found.left[i + 1]
          /\ Tail(found.left) \in Seq(ToSet(Packages))
          /\ DOMAIN found.left = 1 .. Len(found.left)
          /\ DOMAIN Tail(found.left) = 1 .. Len(found.left) - 1
        BY <2>1
    <2>3. \A i \in DOMAIN found.left : i = 1 \/ (i - 1 \in DOMAIN Tail(found.left) /\ found.left[i] = Tail(found.left)[i - 1])
        BY <2>2
    <2>4. \A i \in DOMAIN Tail(found.left) : i + 1 \in DOMAIN found.left /\ found.left[i + 1] = Tail(found.left)[i]
        BY <2>2
    <2>5. 1 \in DOMAIN found.left
        BY <2>2
    <2>6. ToSet(found.left) \subseteq {p} \cup ToSet(Tail(found.left))
        BY <2>2, <2>3 DEF ToSet
    <2>7. {p} \cup ToSet(Tail(found.left)) \subseteq ToSet(found.left)
        BY <2>2, <2>4, <2>5 DEF ToSet
    <2> QED
        BY <2>1, <2>2, <2>5, <2>6, <2>7
<1>2. /\ cat' = IF outcome \in {"raises_midway", "registers"} THEN register(cat, kind) ELSE cat
      /\ outcome = "registers" =>
            BindOn("shared", cat', kind.name, p) /\ report' = [report EXCEPT !.loaded = @ \cup {p}]
      /\ outcome # "registers" =>
            report' = [report EXCEPT !.failed = @ \cup {p}] /\ UNCHANGED <<bound, latest, starBound>>
      /\ found' = [found EXCEPT !.left = IF outcome # "registers" /\ found.strict THEN <<>> ELSE Tail(@)]
      /\ ~Idle
    BY DEF Load
<1> HIDE DEF p, kind, B
<1>3. kind \in HostKinds /\ kind = PackageKind[p] /\ kind.name \in Bindable /\ p # NoExecutor
    BY <1>1, HostAssumption DEF HostKinds, kind, Bindable
<1>4. Sound(cat')
    BY <1>2, <1>3, RegisterSound DEF HostInv
<1>5. BindingsInv'
    <2>1. CASE outcome = "registers"
        <3>1. "shared" \in Registries /\ BindingsInv /\ BindOn("shared", cat', kind.name, p)
            BY <1>2, <2>1 DEF Registries, HostInv
        <3> QED
            BY <1>3, <1>4, <3>1, BindStep
    <2>2. CASE outcome # "registers"
        BY <1>2, <2>2 DEF HostInv, BindingsInv, FallbackOnlyExplicit
    <2> QED
        BY <2>1, <2>2
<1>6. has(register(cat, kind), kind.name) /\ \A id : has(cat, id) => has(register(cat, kind), id)
    <2>1. /\ DOMAIN register(cat, kind).kinds = DOMAIN cat.kinds \cup {kind.name}
          /\ DOMAIN register(cat, kind).aliases = DOMAIN cat.aliases \cup ToSet(kind.aliases)
          /\ \A a \in DOMAIN register(cat, kind).aliases :
                register(cat, kind).aliases[a] = IF a \in ToSet(kind.aliases) THEN kind.name ELSE cat.aliases[a]
        BY DEF register, With, Over
    <2> QED
        BY <2>1 DEF has, resolve_kind_id
<1>7. PICK k \in Nat : Passed(k, found.left, report.loaded)
    BY <1>2 DEF HostInv, PassInv
<1>13. /\ k + 1 \in DOMAIN Packages /\ Packages[k + 1] = p
       /\ \A x \in report.loaded : \E i \in DOMAIN Packages : i < k + 1 /\ Packages[i] = x
    <2>1. /\ Len(found.left) \in Nat \ {0} /\ 1 \in DOMAIN found.left /\ found.left[1] = p
        BY <1>1 DEF p
    <2>2. Len(Packages) \in Nat /\ DOMAIN Packages = 1 .. Len(Packages)
        BY HostAssumption
    <2> QED
        BY <1>7, <2>1, <2>2 DEF Passed
<1>14. ASSUME NEW q \in report'.loaded
       PROVE  q \in ToSet(Packages) /\ Runs(q, report'.loaded, cat', bound'["shared"])
    <2>1. /\ report.loaded \subseteq ToSet(Packages)
          /\ \A x \in report.loaded : Runs(x, report.loaded, cat, B)
          /\ report = [loaded |-> report.loaded, failed |-> report.failed]
        BY <1>2 DEF HostInv, PassInv, B
    <2>2. CASE outcome # "registers"
        <3>1. report'.loaded = report.loaded /\ bound' = bound
            BY <1>2, <2>1, <2>2
        <3>2. q \in ToSet(Packages) /\ Runs(q, report.loaded, cat, B)
            BY <1>14, <2>1, <3>1
        <3>3. \A id : has(cat, id) => has(cat', id)
            BY <1>2, <1>6
        <3> QED
            BY <3>1, <3>2, <3>3 DEF Runs, B
    <2>3. CASE outcome = "registers"
        <3> DEFINE S == boundWith(cat', kind.name)
        <3>1. cat' = register(cat, kind) /\ report'.loaded = report.loaded \cup {p}
            BY <1>2, <2>1, <2>3
        <3>2. /\ bound'["shared"] = bind(B, cat', kind.name, p)
            BY <1>2, <2>3 DEF BindOn, HostInv, BindingsInv, Registries, B
        <3>3. /\ DOMAIN bound'["shared"] = DOMAIN B \cup S
              /\ \A i \in DOMAIN bound'["shared"] : bound'["shared"][i] = IF i \in S THEN p ELSE B[i]
            BY <3>2 DEF bind, With, Over
        <3>4. /\ \A id \in IdsOfPackage(p) \ {Star} : has(cat', id) /\ id \in S
              /\ \A id \in S : \E i \in IdsOfPackage(p) : i.name = id.name
            BY <1>1, <1>3, <3>1, PackageBound DEF HostInv, kind
        <3> HIDE DEF S
        <3>5. CASE q = p
            BY <1>1, <3>1, <3>3, <3>4, <3>5 DEF Runs
        <3>6. CASE q # p
            <4>1. q \in report.loaded /\ q \in ToSet(Packages)
                BY <1>14, <2>1, <3>1, <3>6
            <4>2. Runs(q, report.loaded, cat, B)
                BY <2>1, <4>1
            <4>3. ASSUME NEW id \in S
                  PROVE  TakesOver(p, q, id)
                <5>1. \E other \in ToSet(idsOf(PackageKind[p])) : other.name = id.name
                    BY <3>4, <4>3 DEF IdsOfPackage
                <5>2. \E i, j \in DOMAIN Packages : i < j /\ Packages[i] = q /\ Packages[j] = p
                    BY <1>13, <4>1
                <5> QED
                    BY <5>1, <5>2 DEF TakesOver
            <4>4. ASSUME NEW id \in IdsOfPackage(q) \ {Star}
                  PROVE  /\ has(cat', id) /\ id \in DOMAIN bound'["shared"]
                         /\ bound'["shared"][id] \in report'.loaded
                         /\ bound'["shared"][id] = q \/ TakesOver(bound'["shared"][id], q, id)
                <5>1. /\ has(cat, id) /\ id \in DOMAIN B
                      /\ B[id] \in report.loaded /\ (B[id] = q \/ TakesOver(B[id], q, id))
                    BY <4>2, <4>4 DEF Runs
                <5>2. has(cat', id) /\ id \in DOMAIN bound'["shared"]
                    BY <1>6, <3>1, <3>3, <5>1
                <5>3. CASE id \in S
                    BY <3>1, <3>3, <4>3, <5>2, <5>3
                <5>4. CASE id \notin S
                    BY <3>1, <3>3, <5>1, <5>2, <5>4
                <5> QED
                    BY <5>2, <5>3, <5>4
            <4> QED
                BY <4>1, <4>4 DEF Runs
        <3> QED
            BY <3>5, <3>6
    <2> QED
        BY <2>2, <2>3
<1>8. /\ found'.strict = found.strict /\ found' = [left |-> found'.left, strict |-> found'.strict]
      /\ found'.left \in Seq(ToSet(Packages))
      /\ ~found.strict => found'.left = Tail(found.left)
    <2>1. found = [left |-> found.left, strict |-> found.strict]
        BY DEF HostInv, PassInv
    <2>2. found' = [left |-> IF outcome # "registers" /\ found.strict THEN <<>> ELSE Tail(found.left),
                    strict |-> found.strict]
        BY <1>2, <2>1
    <2>3. /\ found'.strict = found.strict
          /\ found'.left = IF outcome # "registers" /\ found.strict THEN <<>> ELSE Tail(found.left)
        BY <2>2
    <2>4. <<>> \in Seq(ToSet(Packages))
        OBVIOUS
    <2> QED
        BY <1>1, <2>2, <2>3, <2>4
<1>9. /\ report' = [loaded |-> report'.loaded, failed |-> report'.failed]
      /\ report'.loaded \cup report'.failed = report.loaded \cup report.failed \cup {p}
    BY <1>2 DEF HostInv, PassInv
<1>10. ~found.strict => report'.loaded \cup report'.failed \cup ToSet(found'.left) = ToSet(Packages)
    BY <1>1, <1>2, <1>8, <1>9 DEF HostInv, PassInv
<1>11. Idle' => ToSet(found'.left) = {}
    BY DEF Idle, ToSet
<1>15. ASSUME ~Idle'
       PROVE  Passed(k + 1, found'.left, report'.loaded)
    <2>1. found'.left = Tail(found.left)
        <3>1. found' = [left |-> IF outcome # "registers" /\ found.strict THEN <<>> ELSE Tail(found.left),
                        strict |-> found.strict]
            BY <1>2 DEF HostInv, PassInv
        <3> QED
            BY <1>15, <3>1 DEF Idle
    <2>2. /\ Len(found.left) \in Nat \ {0} /\ Len(found'.left) = Len(found.left) - 1
          /\ DOMAIN found.left = 1 .. Len(found.left) /\ DOMAIN found'.left = 1 .. Len(found.left) - 1
          /\ \A i \in 1 .. Len(found.left) - 1 : found'.left[i] = found.left[i + 1]
        BY <1>1, <2>1
    <2>3. \A x \in report'.loaded : x \in report.loaded \/ x = p
        BY <1>2 DEF HostInv, PassInv
    <2>4. k + 1 + Len(found'.left) = Len(Packages)
        <3>1. k + Len(found.left) = Len(Packages)
            BY <1>7 DEF Passed
        <3>2. \A l \in Nat \ {0} : k + 1 + (l - 1) = k + l
            OBVIOUS
        <3> QED
            BY <2>2, <3>1, <3>2
    <2>5. \A i \in DOMAIN found'.left : found'.left[i] = Packages[k + 1 + i]
        <3> SUFFICES ASSUME NEW i \in DOMAIN found'.left
                     PROVE  found'.left[i] = Packages[k + 1 + i]
            OBVIOUS
        <3>1. \A l \in Nat \ {0} : \A j \in 1 .. l - 1 : j + 1 \in 1 .. l /\ k + (j + 1) = k + 1 + j
            OBVIOUS
        <3>2. i + 1 \in DOMAIN found.left /\ k + (i + 1) = k + 1 + i
            BY <2>2, <3>1
        <3>3. found'.left[i] = found.left[i + 1]
            BY <2>2
        <3> QED
            BY <1>7, <3>2, <3>3 DEF Passed
    <2>6. \A x \in report'.loaded : \E i \in 1 .. k + 1 : Packages[i] = x
        <3>1. 1 .. k \subseteq 1 .. k + 1 /\ k + 1 \in 1 .. k + 1
            OBVIOUS
        <3>2. \A x \in report.loaded : \E i \in 1 .. k : Packages[i] = x
            BY <1>7 DEF Passed
        <3>3. Packages[k + 1] = p
            BY <1>13
        <3> QED
            BY <2>3, <3>1, <3>2, <3>3
    <2> QED
        BY <2>4, <2>5, <2>6 DEF Passed
<1>12. PassInv'
    BY <1>8, <1>9, <1>10, <1>14, <1>15 DEF PassInv
<1> QED
    BY <1>4, <1>5, <1>10, <1>11, <1>12, <1>14

LEMMA HostStep ==
    ASSUME HostInv, [Next]_vars
    PROVE  HostInv'
<1>1. ASSUME NEW outcome \in Outcomes, Load(outcome)
      PROVE  HostInv'
    <2>1. Sound(cat') /\ BindingsInv' /\ PassInv'
        BY <1>1, LoadStep
    <2>2. UNCHANGED capability
        BY <1>1 DEF Load
    <2>3. ServiceInv'
        BY <2>2 DEF capability, HostInv, ServiceInv
    <2> QED
        BY <2>1, <2>3 DEF HostInv
<1>2. CASE UNCHANGED cat /\ UNCHANGED registries /\ UNCHANGED discovery /\ ServiceInv'
    <2>1. Sound(cat')
        BY <1>2 DEF HostInv
    <2>2. BindingsInv'
        BY <1>2 DEF HostInv, registries, BindingsInv, FallbackOnlyExplicit
    <2>3. PassInv'
        BY <1>2 DEF HostInv, registries, discovery, PassInv, Idle
    <2> QED
        BY <1>2, <2>1, <2>2, <2>3 DEF HostInv
<1>3. CASE Idle /\ UNCHANGED discovery /\ UNCHANGED capability /\ Sound(cat') /\ BindingsInv'
    <2>1. PassInv'
        BY <1>3 DEF HostInv, discovery, PassInv, Idle
    <2>2. ServiceInv'
        BY <1>3 DEF HostInv, capability, ServiceInv
    <2> QED
        BY <1>3, <2>1, <2>2 DEF HostInv
<1>4. ASSUME NEW kind \in Offered, Install(kind)
      PROVE  HostInv'
    <2>1. Sound(cat')
        BY <1>4, RegisterSound DEF Install, HostKinds, HostInv
    <2>2. BindingsInv'
        BY <1>4 DEF Install, registries, HostInv, BindingsInv, FallbackOnlyExplicit
    <2> QED
        BY <1>3, <1>4, <2>1, <2>2 DEF Install, Counted
<1>5. CASE InstallLibrary
    <2>1. Sound(cat')
        BY <1>5, LibrarySound DEF InstallLibrary, HostInv
    <2>2. BindingsInv'
        BY <1>5 DEF InstallLibrary, registries, HostInv, BindingsInv, FallbackOnlyExplicit
    <2> QED
        BY <1>3, <1>5, <2>1, <2>2 DEF InstallLibrary, Counted
<1>6. ASSUME NEW id \in Spellings, Uninstall(id)
      PROVE  HostInv'
    <2>1. Sound(cat')
        BY <1>6, UnregisterSound DEF Uninstall, HostInv
    <2>2. BindingsInv'
        BY <1>6 DEF Uninstall, registries, HostInv, BindingsInv, FallbackOnlyExplicit
    <2> QED
        BY <1>3, <1>6, <2>1, <2>2 DEF Uninstall, Counted
<1>7. ASSUME NEW r \in Registries, NEW id \in Spellings \cup {Star}, NEW e \in Executors, Bind(r, id, e)
      PROVE  HostInv'
    <2>1. id \in Bindable /\ e # NoExecutor
        BY <1>7, HostAssumption DEF Bindable
    <2>2. BindingsInv /\ Sound(cat) /\ BindOn(r, cat, id, e)
        BY <1>7 DEF HostInv, Bind
    <2>3. BindingsInv'
        BY <2>1, <2>2, BindStep
    <2> QED
        BY <1>3, <1>7, <2>2, <2>3 DEF Bind, Counted
<1>8. ASSUME NEW r \in Registries, NEW n \in NodeIds, NEW e \in Executors, BindNode(r, n, e)
      PROVE  HostInv'
    BY <1>3, <1>8 DEF BindNode, Counted, HostInv, BindingsInv, FallbackOnlyExplicit
<1>9. ASSUME NEW f, Fork(f)
      PROVE  HostInv'
    <2>1. /\ bound' = [bound EXCEPT !["fork"] = bound["shared"]]
          /\ latest' = [latest EXCEPT !["fork"] = latest["shared"]]
          /\ starBound' = IF "shared" \in starBound THEN Registries ELSE {}
        BY <1>9 DEF Fork
    <2>2. /\ bound' = [r \in Registries |-> bound["shared"]]
          /\ latest' = [r \in Registries |-> latest["shared"]]
        BY <2>1 DEF HostInv, BindingsInv, Registries
    <2>3. "shared" \in Registries
        BY DEF Registries
    <2>4. \A r \in Registries : bound'[r] = bound["shared"] /\ latest'[r] = latest["shared"]
        BY <2>2
    <2>5. FallbackOnlyExplicit'
        BY <2>1, <2>3, <2>4 DEF HostInv, BindingsInv, FallbackOnlyExplicit
    <2>6. bound' = [r \in Registries |-> bound'[r]] /\ latest' = [r \in Registries |-> latest'[r]]
          /\ starBound' \subseteq Registries
        BY <2>1, <2>2
    <2>7. BindingsInv'
        BY <2>3, <2>4, <2>5, <2>6 DEF HostInv, BindingsInv
    <2> QED
        BY <1>3, <1>9, <2>7 DEF Fork, Counted, HostInv
<1>10. ASSUME NEW strict \in BOOLEAN, Discover(strict)
      PROVE  HostInv'
    <2>1. /\ found' = [left |-> Packages, strict |-> strict]
          /\ report' = [loaded |-> {}, failed |-> {}]
        BY <1>10 DEF Discover
    <2>2. Passed(0, Packages, {})
        BY HostAssumption DEF Passed
    <2>3. PassInv'
        BY <2>1, <2>2, HostAssumption DEF PassInv
    <2> QED
        BY <1>10, <2>3 DEF Discover, registries, capability, HostInv, BindingsInv, FallbackOnlyExplicit,
                           ServiceInv
<1>11. ASSUME NEW c \in Capabilities, NEW s \in Services \cup {NoService}, SetService(c, s)
       PROVE  HostInv'
    <2> DEFINE h == [cap |-> c, service |-> s, call |-> ops]
    <2>1. h.cap = c /\ h.service = s
        OBVIOUS
    <2>2. /\ service' = [service EXCEPT ![c] = s] /\ handles' = handles \cup {h}
          /\ wanted' = {w \in wanted : w.cap # c} \cup {h}
          /\ UNCHANGED cat /\ UNCHANGED registries /\ UNCHANGED discovery
        BY <1>11 DEF SetService
    <2> HIDE DEF h
    <2>3. ServiceInv'
        BY <2>1, <2>2 DEF HostInv, ServiceInv
    <2> QED
        BY <1>2, <2>2, <2>3
<1>12. ASSUME NEW h \in handles, CallHandle(h)
       PROVE  HostInv'
    <2>1. /\ service' = [service EXCEPT ![h.cap] = IF service[h.cap] = h.service THEN NoService ELSE @]
          /\ wanted' = wanted \ {h} /\ handles' = handles
          /\ UNCHANGED cat /\ UNCHANGED registries /\ UNCHANGED discovery
        BY <1>12 DEF CallHandle, Clears
    <2>2. ASSUME NEW c \in Capabilities
          PROVE  /\ service'[c] = NoService \/ \E w \in wanted' : w.cap = c /\ w.service = service'[c]
                 /\ \A w \in wanted' : w.cap = c =>
                       \/ service'[c] = w.service
                       \/ /\ service'[c] = NoService
                          /\ \E g \in handles' : g # w /\ g.cap = c /\ g.service = w.service
        <3>1. /\ service[c] = NoService \/ \E w \in wanted : w.cap = c /\ w.service = service[c]
              /\ \A w \in wanted : w.cap = c =>
                    \/ service[c] = w.service
                    \/ service[c] = NoService /\ \E g \in handles : g # w /\ g.cap = c /\ g.service = w.service
              /\ \A v, w \in wanted : v.cap = w.cap => v = w
            BY DEF HostInv, ServiceInv
        <3>2. service'[c] = IF h.cap = c /\ service[c] = h.service THEN NoService ELSE service[c]
            BY <2>1 DEF HostInv, ServiceInv
        <3> QED
            BY <2>1, <3>1, <3>2
    <2>3. ServiceInv'
        BY <2>1, <2>2 DEF HostInv, ServiceInv
    <2> QED
        BY <1>2, <2>1, <2>3
<1>14. CASE Reset
    <2>1. ServiceInv'
        BY <1>14 DEF Reset, ServiceInv
    <2> QED
        BY <1>2, <1>14, <2>1 DEF Reset
<1>13. CASE UNCHANGED vars
    BY <1>2, <1>13 DEF vars, registries, discovery, HostInv, ServiceInv
<1> QED
    BY <1>1, <1>4, <1>5, <1>6, <1>7, <1>8, <1>9, <1>10, <1>11, <1>12, <1>13, <1>14 DEF Next

LEMMA HostInit ==
    ASSUME Init
    PROVE  HostInv
<1>1. found.left = <<>> /\ <<>> \in Seq(ToSet(Packages))
    BY DEF Init
<1> QED
    BY <1>1, InitBindings, EmptySound DEF Init, HostInv, PassInv, Idle, ServiceInv

THEOREM HostInvariant == Spec => []HostInv
    BY HostInit, HostStep, PTL DEF Spec

\* executors.py: whichever of its own spellings an override was bound under and
\* whichever of them a document uses, a shipped kind runs the executor meant for it
\* last, as long as nobody puts a vendor of its own before a shipped name
\* (NamesAssumption): a binding of "@acme/user_input" reaches "user_input" too.
THEOREM OverridesReachEverySpelling == Spec => []EverySpellingOverridden
<1>1. ASSUME HostInv
      PROVE  EverySpellingOverridden
    <2>1. ASSUME NEW r \in Registries, NEW k \in WithExecutor, latest[r][k] # NoExecutor, NEW id \in Ids(k)
          PROVE  resolveKind(bound[r], cat, id) = latest[r][k]
        BY <1>1, <2>1, BoundFirst DEF HostInv, BindingsInv
    <2> QED
        BY <2>1 DEF EverySpellingOverridden, resolve_for, Ids
<1> QED
    BY <1>1, HostInvariant, PTL

\* A shipped kind is walked past or has an executor, under all its ids, whatever
\* was installed, removed, bound or discovered since.
THEOREM ShippedKindsRun == Spec => []WalkedPastOrRuns
<1>1. ASSUME HostInv
      PROVE  WalkedPastOrRuns
    <2>1. ASSUME NEW k \in WithExecutor, NEW id \in Ids(k)
          PROVE  resolveKind(bound["shared"], cat, id) # NoExecutor
        <3>1. "shared" \in Registries
            BY DEF Registries
        <3> QED
            BY <1>1, <2>1, <3>1, BoundFirst DEF HostInv, BindingsInv
    <2>2. ASSUME NEW k \in DOMAIN Library \ (WithExecutor \cup {"agent"}), NEW id \in Ids(k)
          PROVE  never_executes(id, cat)
        <3>1. k \in {"note", "lane", "terminal_lane"} /\ Library[k].aliases = <<>>
            BY <2>2, ExecutorsAssumption
        <3>2. ToSet(<<>>) = {}
            BY DEF ToSet
        <3>3. id \in {Id("pa", k), Bare(k), Id("fancy", k)}
            BY <2>2, <3>1, <3>2, ShippedKind
        <3>4. id.name = k /\ id.ns \in {"", "pa", "fancy"}
            <4>1. CASE id = Id("pa", k)
                BY <4>1 DEF Id
            <4>2. CASE id = Bare(k)
                BY <4>2 DEF Id, Bare
            <4>3. CASE id = Id("fancy", k)
                BY <4>3 DEF Id
            <4> QED
                BY <3>3, <4>1, <4>2, <4>3
        <3>5. matches(id, k)
            BY <3>4 DEF matches
        <3> QED
            BY <3>1, <3>5 DEF never_executes
    <2> QED
        BY <2>1, <2>2 DEF WalkedPastOrRuns, Ids
<1> QED
    BY <1>1, HostInvariant, PTL

\* The registries hold what somebody registered and did not take back: no alias
\* without its kind, no fallback nobody bound, and the service installed last and not
\* taken back, unless an earlier installation of the very object was taken back late.
THEOREM RegistriesStaySound == Spec => []RegistriesAreSound
<1>1. ASSUME HostInv
      PROVE  NoDanglingAlias /\ FallbackOnlyExplicit
    BY <1>1 DEF HostInv, NoDanglingAlias, Sound, BindingsInv
<1>2. ASSUME HostInv
      PROVE  LateUnregisterIsHarmless
    <2> SUFFICES ASSUME NEW c \in Capabilities
                 PROVE  \/ Wanted(c) = IF c \in Satisfied THEN {service[c]} ELSE {}
                        \/ InstalledBefore(c) /\ c \notin Satisfied
        BY DEF LateUnregisterIsHarmless
    <2>1. /\ service[c] = NoService \/ \E w \in wanted : w.cap = c /\ w.service = service[c]
          /\ \A w \in wanted : w.cap = c =>
                \/ service[c] = w.service
                \/ service[c] = NoService /\ \E h \in handles : h # w /\ h.cap = c /\ h.service = w.service
          /\ \A v, w \in wanted : v.cap = w.cap => v = w
        BY <1>2 DEF HostInv, ServiceInv
    <2>2. c \in Satisfied <=> service[c] # NoService
        BY DEF Satisfied
    <2>3. \A x : x \in Wanted(c) <=> x # NoService /\ \E w \in wanted : w.cap = c /\ w.service = x
        BY DEF Wanted
    <2>4. CASE service[c] # NoService
        <3>1. Wanted(c) = {service[c]}
            BY <2>1, <2>3, <2>4
        <3> QED
            BY <2>2, <2>4, <3>1
    <2>5. CASE service[c] = NoService
        <3>1. CASE \E w \in wanted : w.cap = c /\ w.service # NoService
            BY <2>1, <2>2, <2>5, <3>1 DEF InstalledBefore
        <3>2. CASE ~\E w \in wanted : w.cap = c /\ w.service # NoService
            <4>1. Wanted(c) = {}
                BY <2>3, <3>2
            <4> QED
                BY <2>2, <2>5, <4>1
        <3> QED
            BY <3>1, <3>2
    <2> QED
        BY <2>4, <2>5
<1>3. HostInv => RegistriesAreSound
    BY <1>1, <1>2 DEF RegistriesAreSound
<1> QED
    BY <1>3, HostInvariant, PTL

\* discovery.py: a package that is reported as loaded runs under all its ids, but for
\* those a later package that loaded has taken over, and a lenient pass accounts for
\* every package.
THEOREM DiscoveryTellsTheTruth == Spec => DiscoveryIsTruthful
<1> DEFINE Truthful ==
        \A outcome \in Outcomes :
            Load(outcome) =>
                /\ \A p \in report'.loaded : \A id \in ToSet(idsOf(PackageKind[p])) \ {Star} :
                      /\ has(cat', id)
                      /\ \E q \in report'.loaded :
                            /\ q = p \/ TakesOver(q, p, id)
                            /\ resolveKind(bound'["shared"], cat', id) = q
                /\ Idle' /\ ~found.strict =>
                      report'.loaded \cup report'.failed = ToSet(Packages)
<1>1. HostInv /\ [Next]_vars => [Truthful]_vars
    <2> SUFFICES ASSUME HostInv, NEW outcome \in Outcomes, Load(outcome)
                 PROVE  /\ \A p \in report'.loaded : \A id \in ToSet(idsOf(PackageKind[p])) \ {Star} :
                              /\ has(cat', id)
                              /\ \E q \in report'.loaded :
                                    /\ q = p \/ TakesOver(q, p, id)
                                    /\ resolveKind(bound'["shared"], cat', id) = q
                        /\ Idle' /\ ~found.strict =>
                              report'.loaded \cup report'.failed = ToSet(Packages)
        OBVIOUS
    <2>1. /\ Sound(cat')
          /\ \A p \in report'.loaded : Runs(p, report'.loaded, cat', bound'["shared"])
          /\ Idle' /\ ~found.strict => report'.loaded \cup report'.failed = ToSet(Packages)
        BY LoadStep
    <2> QED
        BY <2>1, BoundFirst DEF Runs, IdsOfPackage
<1> QED
    BY <1>1, HostInvariant, PTL DEF Spec, DiscoveryIsTruthful
=============================================================================
