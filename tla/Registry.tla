------------------------------- MODULE Registry -------------------------------
(***************************************************************************)
(* The names of node kinds (registry/kind_id.py), the catalogue of kinds   *)
(* (NodeKindRegistry, registry/registry.py) and the executor bindings      *)
(* (ExecutorRegistry, executors.py), as operators on their values.         *)
(*                                                                         *)
(* An id is a namespace and a bare name; "" is the namespace of a bare     *)
(* name.  A catalogue holds the kinds by canonical id and the aliases; a   *)
(* set of bindings is a function from ids to executors.                    *)
(***************************************************************************)
EXTENDS SequencesExt

CONSTANTS
    Library,        \* the kind literals of registry/builtin.py, by bare name
    NoExecutor

Id(ns, name) == [ns |-> ns, name |-> name]
Bare(name) == Id("", name)

builtin_aliases(name) == <<Bare(name), Id("fancy", name)>>

\* fancy-flow's own spellings only: @acme/note is not the built-in note.
matchesCanonical(id, name) == id \in {Bare(name), Id("pa", name)}     \* mistake
matches(id, name) == id.name = name /\ id.ns \in {"", "pa", "fancy"}

\* Every way to write id, the given one first.  Repetitions do not matter to a
\* reader that takes the first hit, and are kept.
variants(id) == <<id, Id("pa", id.name), Id("fancy", id.name), Bare(id.name)>>

-----------------------------------------------------------------------------
(* The catalogue *)

Kind(name, aliases, category) == [name |-> name, aliases |-> aliases, category |-> category]

idsOf(kind) == <<kind.name>> \o kind.aliases

EmptyCatalogue == [kinds |-> [i \in {} |-> NoExecutor], aliases |-> [i \in {} |-> NoExecutor]]

Over(f, g) == [x \in DOMAIN f \cup DOMAIN g |-> IF x \in DOMAIN g THEN g[x] ELSE f[x]]
With(f, S, v) == Over(f, [x \in S |-> v])
Without(f, S) == [x \in DOMAIN f \ S |-> f[x]]

\* An alias goes to whoever claimed it last; what the kind claimed in an earlier
\* registration stays.
register(cat, kind) ==
    [kinds   |-> With(cat.kinds, {kind.name}, kind),
     aliases |-> With(cat.aliases, ToSet(kind.aliases), kind.name)]

\* resolve_kind_id, as a set of at most one id.
resolve_kind_id(cat, id) ==
    IF id \in DOMAIN cat.kinds THEN {id}
    ELSE {cat.aliases[i] : i \in {id} \cap DOMAIN cat.aliases} \cap DOMAIN cat.kinds

has(cat, id) == resolve_kind_id(cat, id) # {}

kindOf(cat, id) == cat.kinds[CHOOSE name \in resolve_kind_id(cat, id) : TRUE]

ids_for(cat, id) == IF has(cat, id) THEN idsOf(kindOf(cat, id)) ELSE <<>>

unregisterDeclared(cat, id) ==                                        \* mistake
    LET name == IF has(cat, id) THEN kindOf(cat, id).name ELSE id
    IN  [kinds   |-> Without(cat.kinds, {name}),
         aliases |-> Without(cat.aliases, ToSet(ids_for(cat, id)))]

\* By any of its ids, with every alias that points at it.
unregister(cat, id) ==
    LET name == IF has(cat, id) THEN kindOf(cat, id).name ELSE id
    IN  [kinds   |-> Without(cat.kinds, {name}),
         aliases |-> Without(cat.aliases, {a \in DOMAIN cat.aliases : cat.aliases[a] = name})]

(***************************************************************************)
(* never_executes: what the engine walks past.  The shipped kinds by id,   *)
(* whatever the catalogue holds; any other by the category of its kind.    *)
(***************************************************************************)
never_executes(id, cat) ==
    \/ matches(id, "note") \/ matches(id, "lane") \/ matches(id, "terminal_lane")
    \/ has(cat, id) /\ kindOf(cat, id).category \in {"annotation", "layout"}

-----------------------------------------------------------------------------
(* The kinds the package ships *)

\* _canonicalize
Shipped(name) ==
    [Library[name] EXCEPT
        !.name = Id("pa", name),
        !.aliases = builtin_aliases(name) \o @]

\* kind_id_index: every id a shipped kind answers to, by bare name.
kind_id_index == [name \in DOMAIN Library |-> idsOf(Shipped(name))]

\* register(): all of them, into a catalogue, one after the other.  No two claim
\* an id, so it does not matter in which order.
registerLibrary(cat) ==
    LET names == DOMAIN Library
        aliases == UNION {ToSet(Shipped(name).aliases) : name \in names}
        owner(a) == CHOOSE name \in names : a \in ToSet(Shipped(name).aliases)
    IN  [kinds   |-> Over(cat.kinds, [id \in {Id("pa", name) : name \in names} |-> Shipped(id.name)]),
         aliases |-> Over(cat.aliases, [a \in aliases |-> Id("pa", owner(a))])]

(***************************************************************************)
(* What the table of literals in builtin.py keeps to, and the code that    *)
(* reads it relies on: two shipped kinds have no id with the same bare     *)
(* name, and none of them answers to "*".                                  *)
(***************************************************************************)
ASSUME LibraryAssumption ==
    /\ \A k \in DOMAIN Library :
          /\ Library[k] = Kind(Library[k].name, Library[k].aliases, Library[k].category)
          /\ Library[k].aliases \in Seq(ToSet(Library[k].aliases))
          /\ Bare("*") \notin ToSet(kind_id_index[k])
    /\ \A k, l \in DOMAIN Library :
          \A i \in ToSet(kind_id_index[k]), j \in ToSet(kind_id_index[l]) : i.name = j.name => k = l

-----------------------------------------------------------------------------
(* Bindings *)

Star == Bare("*")

\* _alias_ids_for: the ids bound along with id, if anybody knows the kind.
aliasIdsByConvention(cat, id) ==                                      \* mistake
    IF has(cat, id) \/ id.name \in DOMAIN Library
    THEN ToSet(variants(id)) \ {id, Star} ELSE {}
aliasIdsWithStar(cat, id) == ToSet(ids_for(cat, id) \o variants(id)) \ {id}   \* mistake
aliasIdsFor(cat, id) ==
    LET declared ==
            IF has(cat, id) THEN ids_for(cat, id)
            ELSE IF id.name \in DOMAIN Library THEN kind_id_index[id.name] ELSE <<>>
    IN  IF declared = <<>> THEN {} ELSE ToSet(declared \o variants(id)) \ {id, Star}

\* The ids that are bound when id is.  The fallback is a sentinel: it has no
\* other spelling.
boundWith(cat, id) == {id} \cup (IF id = Star THEN {} ELSE aliasIdsFor(cat, id))

bind(bound, cat, id, executor) == With(bound, boundWith(cat, id), executor)

\* executors(): each of the kinds with an executor, under every id it answers
\* to; the executor of a shipped kind goes by the kind's bare name.
idsBoundFor(cat, name) == UNION {boundWith(cat, id) : id \in ToSet(kind_id_index[name])}

bindLibrary(cat, names) ==
    [id \in UNION {idsBoundFor(cat, name) : name \in names} |->
        CHOOSE name \in names : id \in idsBoundFor(cat, name)]

candidates(cat, id) == <<id>> \o ids_for(cat, id) \o variants(id)

\* resolve_for, below the binding of the node itself: the first candidate that
\* is bound, or the fallback.
resolveKind(bound, cat, id) ==
    LET hit == SelectInSeq(candidates(cat, id), LAMBDA c : c \in DOMAIN bound)
    IN  IF hit > 0 THEN bound[candidates(cat, id)[hit]]
        ELSE IF Star \in DOMAIN bound THEN bound[Star]
        ELSE NoExecutor

resolve_for(byNode, bound, cat, node, id) ==
    IF node \in DOMAIN byNode THEN byNode[node] ELSE resolveKind(bound, cat, id)
=============================================================================
