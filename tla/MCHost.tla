-------------------------------- MODULE MCHost --------------------------------
(***************************************************************************)
(* A host with a few of the shipped kinds and three node packages.         *)
(***************************************************************************)
EXTENDS Host

CoreLibrary ==
    [user_input |-> Kind("user_input", <<>>, "human"),
     llm_router |-> Kind("llm_router", <<Bare("llm_branch"), Id("fancy", "llm_branch")>>, "ai"),
     note |-> Kind("note", <<>>, "custom")]

Thing == Kind(Id("acme", "thing"), <<Bare("acme_thing")>>, "io")
ThingBefore == Kind(Id("acme", "thing"), <<Bare("acme_thing"), Bare("old_thing")>>, "io")
AnswersToAll == Kind(Id("acme", "any"), <<Star>>, "io")

KindsOfHost == {ThingBefore, AnswersToAll}
\* The second package has a kind of the first's name, the third takes its alias.
PackagesFound == <<"p", "q", "r">>
KindsOfPackages ==
    [p |-> Thing,
     q |-> Kind(Id("acme", "thing"), <<Bare("acme_frame"), Star>>, "layout"),
     r |-> Kind(Id("acme", "frame"), <<Bare("acme_thing")>>, "layout")]

HostSpellings ==
    {Bare("user_input"), Id("fancy", "user_input"), Id("pa", "llm_router"), Bare("llm_branch"),
     Id("acme", "thing"), Id("acme", "any")}

\* Registered and bound in the order of the table, as the code does it.
ASSUME OneAfterTheOther ==
    LET order == SetToSeq(DOMAIN Library)
        bindAll(b, name) ==
            FoldLeft(LAMBDA c, id : bind(c, EmptyCatalogue, id, name), b, kind_id_index[name])
    IN  /\ registerLibrary(EmptyCatalogue) =
              FoldLeft(LAMBDA c, name : register(c, Shipped(name)), EmptyCatalogue, order)
        /\ bindLibrary(EmptyCatalogue, DOMAIN Library) =
              FoldLeft(bindAll, [i \in {} |-> NoExecutor], order)
=============================================================================
