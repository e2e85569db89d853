--------------------------------- MODULE Host ---------------------------------
(***************************************************************************)
(* What a host does to the registries before and between its runs: it      *)
(* installs and removes kinds (Registry), binds executors on the shared    *)
(* registry and on a fork of it, loads the node packages it finds          *)
(* (discovery.py), and installs the services nodes ask for                 *)
(* (capabilities/__init__.py).  All of it is module state that outlives a  *)
(* run, changed by code that does not know of the other.                   *)
(***************************************************************************)
EXTENDS Registry, Naturals, FiniteSets

CONSTANTS
    WithExecutor,       \* the shipped kinds executors() binds
    Offered,            \* the kinds the host may install itself
    Spellings,          \* the ids the host and its documents use
    Executors,          \* the executors the host binds
    NodeIds,            \* the nodes it may bind one to
    Packages,           \* the entry points, in the order they are found
    PackageKind,        \* PackageKind[p]: what p's register installs
    Capabilities,       \* llm, workflow_resolver, terminal
    Services,           \* the objects installed as a capability
    NoService,          \* None
    MaxOps              \* bound: calls of the host

ASSUME HostAssumption ==
    /\ WithExecutor \subseteq DOMAIN Library
    /\ MaxOps \in Nat
    /\ NoService \notin Services
    /\ Packages \in Seq(ToSet(Packages)) /\ ToSet(Packages) \subseteq DOMAIN PackageKind
    /\ NoExecutor \notin Executors \cup ToSet(Packages) \cup WithExecutor

\* The names of shipped kinds, "user_input" or "llm_branch", as a host meets them.
ShippedIds == UNION {ToSet(kind_id_index[k]) : k \in DOMAIN Library}
ShippedNames == {id.name : id \in ShippedIds}

(***************************************************************************)
(* Of the shipped kinds those the engine walks past have no executor, and  *)
(* "agent", which is the host's to bind; all the others have one.          *)
(***************************************************************************)
ASSUME ExecutorsAssumption ==
    \A k \in DOMAIN Library \ (WithExecutor \cup {"agent"}) :
        k \in {"note", "lane", "terminal_lane"} /\ Library[k].aliases = <<>>

HostKinds == Offered \cup {PackageKind[p] : p \in ToSet(Packages)}

(***************************************************************************)
(* Hosts and packages name their own kinds in a way of their own, and      *)
(* neither they nor a document put a vendor of their own before a shipped  *)
(* name.  Nobody calls a kind "*"; it may be an alias.                     *)
(***************************************************************************)
ASSUME NamesAssumption ==
    /\ \A kind \in HostKinds :
          /\ kind = Kind(kind.name, kind.aliases, kind.category)
          /\ kind.aliases \in Seq(ToSet(kind.aliases))
          /\ \A id \in ToSet(idsOf(kind)) : id.name \notin ShippedNames
    /\ \A id \in Spellings : id \in ShippedIds \/ id.name \notin DOMAIN Library
    /\ \A p \in ToSet(Packages) : PackageKind[p].name # Star

Registries == {"shared", "fork"}
Outcomes == {"import_error", "no_register", "raises_midway", "registers"}

VARIABLES
    cat,        \* the kind catalogue
    bound,      \* bound[r]: the kind bindings of an executor registry
    byNode,     \* byNode[r]: its node bindings
    found,      \* the entry points a discovery pass has left, and whether it is strict
    report,     \* DiscoveryResult: the names that loaded and the names that failed
    service,    \* service[c]: the installed service
    handles,    \* the unregister callables handed out, one for each installation
    ops,        \* how many calls were made
    latest,     \* history: latest[r][k], the executor meant for shipped kind k, or
                \* NoExecutor when it was bound under a former name nobody knew
    starBound,  \* history: the registries somebody bound a fallback on
    wanted      \* history: the callables of the installations neither replaced nor
                \* taken back, at most one for each capability

vars == <<cat, bound, byNode, found, report, service, handles, ops, latest, starBound, wanted>>
registries == <<bound, byNode, latest, starBound>>
discovery == <<found, report>>
capability == <<service, handles, wanted>>

Idle == found.left = <<>>

Counted == Idle /\ ops < MaxOps /\ ops' = ops + 1

-----------------------------------------------------------------------------
(* Kinds *)

Install(kind) ==
    /\ Counted
    /\ cat' = register(cat, kind)
    /\ UNCHANGED <<registries, discovery, capability>>

InstallLibrary ==
    /\ Counted
    /\ cat' = registerLibrary(cat)
    /\ UNCHANGED <<registries, discovery, capability>>

Uninstall(id) ==
    /\ Counted
    /\ cat' = unregister(cat, id)
    /\ UNCHANGED <<registries, discovery, capability>>

-----------------------------------------------------------------------------
(* Executors *)

\* The shipped kinds id stands for, in the mind of who writes it.
Means(id) == {k \in WithExecutor : id \in ToSet(kind_id_index[k])}

\* "llm_branch" is known to mean llm_router only where the catalogue says so.
Known(c, id) == has(c, id) \/ id.name \in DOMAIN Library

BindOn(r, c, id, e) ==
    /\ bound' = [bound EXCEPT ![r] = bind(@, c, id, e)]
    /\ latest' = [latest EXCEPT ![r] =
                     [k \in WithExecutor |->
                         IF k \notin Means(id) THEN @[k] ELSE IF Known(c, id) THEN e ELSE NoExecutor]]
    /\ starBound' = IF id = Star THEN starBound \cup {r} ELSE starBound

Bind(r, id, e) ==
    /\ Counted
    /\ BindOn(r, cat, id, e)
    /\ UNCHANGED <<cat, byNode, discovery, capability>>

BindNode(r, n, e) ==
    /\ Counted
    /\ byNode' = [byNode EXCEPT ![r] = With(@, {n}, e)]
    /\ UNCHANGED <<cat, bound, latest, starBound, discovery, capability>>

\* fork, or without_node_bindings: what a child graph runs with.
Fork(nodeBindings) ==
    /\ Counted
    /\ bound' = [bound EXCEPT !["fork"] = bound["shared"]]
    /\ byNode' = [byNode EXCEPT !["fork"] = nodeBindings]
    /\ latest' = [latest EXCEPT !["fork"] = latest["shared"]]
    /\ starBound' = IF "shared" \in starBound THEN Registries ELSE {}
    /\ UNCHANGED <<cat, discovery, capability>>

-----------------------------------------------------------------------------
(* load_installed_kinds *)

Discover(strict) ==
    /\ Counted
    /\ found' = [left |-> Packages, strict |-> strict]
    /\ report' = [loaded |-> {}, failed |-> {}]
    /\ UNCHANGED <<cat, registries, capability>>

LoadReportsFirst(outcome) ==          \* mistake: reported before it registered
    LET p == Head(found.left)
    IN  /\ ~Idle
        /\ cat' = IF outcome \in {"raises_midway", "registers"} THEN register(cat, PackageKind[p]) ELSE cat
        /\ report' = [report EXCEPT !.loaded = @ \cup (IF outcome = "import_error" THEN {} ELSE {p})]
        /\ IF outcome = "registers" THEN BindOn("shared", cat', PackageKind[p].name, p)
           ELSE UNCHANGED <<bound, latest, starBound>>
        /\ found' = [found EXCEPT !.left = Tail(@)]
        /\ UNCHANGED <<byNode, capability, ops>>

\* One entry point: a package that raises midway has installed its kind and not
\* bound its executor.  A strict pass ends with the first failure.
Load(outcome) ==
    LET p == Head(found.left)
        kind == PackageKind[p]
    IN  /\ ~Idle
        /\ cat' = IF outcome \in {"raises_midway", "registers"} THEN register(cat, kind) ELSE cat
        /\ IF outcome = "registers"
           THEN /\ BindOn("shared", cat', kind.name, p)
                /\ report' = [report EXCEPT !.loaded = @ \cup {p}]
           ELSE /\ report' = [report EXCEPT !.failed = @ \cup {p}]
                /\ UNCHANGED <<bound, latest, starBound>>
        /\ found' = [found EXCEPT !.left =
                         IF outcome # "registers" /\ found.strict THEN <<>> ELSE Tail(@)]
        /\ UNCHANGED <<byNode, capability, ops>>

-----------------------------------------------------------------------------
(* Capabilities *)

\* set_llm_client and its two siblings, with None or any object, a new one or one
\* that was installed before.  The callable it returns closes over the object; the
\* number of the call tells it from the others.
SetService(c, s) ==
    LET h == [cap |-> c, service |-> s, call |-> ops]
    IN  /\ Counted
        /\ service' = [service EXCEPT ![c] = s]
        /\ handles' = handles \cup {h}
        /\ wanted' = {w \in wanted : w.cap # c} \cup {h}
        /\ UNCHANGED <<cat, registries, discovery>>

ClearsAny(h) == service[h.cap] # NoService     \* mistake
Clears(h) == service[h.cap] = h.service

\* unregister, perhaps long after another service was installed
CallHandle(h) ==
    /\ Counted
    /\ service' = [service EXCEPT ![h.cap] = IF Clears(h) THEN NoService ELSE @]
    /\ wanted' = wanted \ {h}
    /\ UNCHANGED <<cat, registries, discovery, handles>>

\* reset
Reset ==
    /\ Counted
    /\ service' = [c \in Capabilities |-> NoService]
    /\ wanted' = {}
    /\ UNCHANGED <<cat, registries, discovery, handles>>

\* status
Satisfied == {c \in Capabilities : service[c] # NoService}

-----------------------------------------------------------------------------
Init ==
    /\ cat = EmptyCatalogue
    /\ bound = [r \in Registries |-> bindLibrary(cat, WithExecutor)]
    /\ byNode = [r \in Registries |-> [n \in {} |-> NoExecutor]]
    /\ found = [left |-> <<>>, strict |-> FALSE]
    /\ report = [loaded |-> {}, failed |-> {}]
    /\ service = [c \in Capabilities |-> NoService]
    /\ handles = {}
    /\ ops = 0
    /\ latest = [r \in Registries |-> [k \in WithExecutor |-> k]]
    /\ starBound = {}
    /\ wanted = {}

Next ==
    \/ \E kind \in Offered : Install(kind)
    \/ InstallLibrary
    \/ \E id \in Spellings : Uninstall(id)
    \/ \E r \in Registries, id \in Spellings \cup {Star}, e \in Executors : Bind(r, id, e)
    \/ \E r \in Registries, n \in NodeIds, e \in Executors : BindNode(r, n, e)
    \/ \E f \in {byNode["shared"], [n \in {} |-> NoExecutor]} : Fork(f)
    \/ \E strict \in BOOLEAN : Discover(strict)
    \/ \E outcome \in Outcomes : Load(outcome)
    \/ \E c \in Capabilities, s \in Services \cup {NoService} : SetService(c, s)
    \/ \E h \in handles : CallHandle(h)
    \/ Reset

Spec == Init /\ [][Next]_vars
-----------------------------------------------------------------------------
(* Properties *)

\* "Binding user_input binds @particle-academy/user_input and @fancy/user_input
\* with it": in whatever spelling a document names a shipped kind, it runs the
\* last executor meant for that kind, under whatever spelling that one was
\* bound, whether the catalogue held the kind then, holds it now, or neither; only
\* a binding of the node itself comes first.  The exception is a kind last bound
\* under a former name while no catalogue knew it: that reached one spelling.  Left
\* out is who binds a shipped name behind a vendor of its own, "@acme/user_input":
\* bind takes it for the shipped kind (NamesAssumption).
EverySpellingOverridden ==
    \A r \in Registries, k \in WithExecutor, n \in NodeIds :
        latest[r][k] # NoExecutor =>
            \A id \in ToSet(kind_id_index[k]) :
                resolve_for(byNode[r], bound[r], cat, n, id) =
                    IF n \in DOMAIN byNode[r] THEN byNode[r][n] ELSE latest[r][k]

\* "The * slot may only ever be written by an explicit bind": no kind becomes
\* the executor of every unmatched node by answering to it.
FallbackOnlyExplicit ==
    \A r \in Registries : Star \in DOMAIN bound[r] <=> r \in starBound

\* "Any two of them disagreeing is a defect nobody would see": a shipped kind is
\* walked past or has an executor, under every spelling, whether or not its
\* definition was installed and whatever was installed or removed since.
WalkedPastOrRuns ==
    \A k \in DOMAIN Library \ {"agent"} :
        \A id \in ToSet(kind_id_index[k]) :
            never_executes(id, cat) \/ resolveKind(bound["shared"], cat, id) # NoExecutor

\* Unregistering removes "every alias pointing at it", those of an earlier
\* registration included: no alias waits to name the next kind of that name.
NoDanglingAlias == \A a \in DOMAIN cat.aliases : cat.aliases[a] \in DOMAIN cat.kinds

\* Package q is found after p and has an id of this name too: what it registers
\* takes the name over.
TakesOver(q, p, id) ==
    /\ \E i, j \in DOMAIN Packages : i < j /\ Packages[i] = p /\ Packages[j] = q
    /\ \E other \in ToSet(idsOf(PackageKind[q])) : other.name = id.name

\* A package that `loaded` runs: every id of its kind resolves, and to the executor
\* of that package, or to the one of a later package that loaded and has the name
\* too - never to one of a package that failed, nor to none.  "*" is nobody's id.
\* And a pass that was not strict accounts for every package it found.
DiscoveryIsTruthful ==
    [][\A outcome \in Outcomes :
          Load(outcome) =>
              /\ \A p \in report'.loaded : \A id \in ToSet(idsOf(PackageKind[p])) \ {Star} :
                    /\ has(cat', id)
                    /\ \E q \in report'.loaded :
                          /\ q = p \/ TakesOver(q, p, id)
                          /\ resolveKind(bound'["shared"], cat', id) = q
              /\ Idle' /\ ~found.strict =>
                    report'.loaded \cup report'.failed = ToSet(Packages)]_vars

\* The service of c that was installed last and not taken back, and whether the very
\* object had been installed as c before.
Wanted(c) == {w.service : w \in {v \in wanted : v.cap = c}} \ {NoService}
InstalledBefore(c) ==
    \E w \in wanted, h \in handles : w.cap = c /\ h.cap = c /\ h # w /\ h.service = w.service

\* "Unregistering a REPLACED host does not clear the current one", in whatever
\* order the callables are called, and status() says what is there - but for an
\* object that is installed a second time: the callable of its first installation
\* tells by identity alone, and clears the second.
LateUnregisterIsHarmless ==
    \A c \in Capabilities :
        \/ Wanted(c) = IF c \in Satisfied THEN {service[c]} ELSE {}
        \/ InstalledBefore(c) /\ c \notin Satisfied

\* The registries hold what somebody registered and did not take back: no name, no
\* fallback and no service besides.
RegistriesAreSound == NoDanglingAlias /\ FallbackOnlyExplicit /\ LateUnregisterIsHarmless
=============================================================================
