------------------------------ MODULE MCRunLoop ------------------------------
(***************************************************************************)
(* Small runs driven by run_to_completion.                                 *)
(***************************************************************************)
EXTENDS RunLoop, TLC

On(src, port, tgt) == [source |-> src, handle |-> port, target |-> tgt]

\* A step s that may fail, an approval g it may ask for, and beside the approval a
\* lane the frontier hands out and the engine walks past.
Asked ==
    [order |-> <<"s", "g", "lane">>,
     edges |-> {On("s", "ask", "g"), On("s", "out", "lane")},
     notes |-> {}, layout |-> {"lane"}]

AskedChoices == [s |-> {{"out"}, {"ask", "out"}}, g |-> {{}}, lane |-> {{}}]
AskedTries == [s |-> 2, g |-> 1, lane |-> 1]

FilledIn == [g |-> "approved"]

DriverSymmetry == Permutations(Drivers)
=============================================================================
