---------------------------- MODULE MCTerminals ----------------------------
(***************************************************************************)
(* Two terminal lanes, short plans over them, and processes that colour,   *)
(* echo, stay silent or leave an escape unfinished.                        *)
(***************************************************************************)
EXTENDS Terminals

N(id, kind, timed, lenient) == [id |-> id, kind |-> kind, timed |-> timed, lenient |-> lenient]

\* b is in a plain lane drawn inside l1; out is in none; x and y name each other.
MCParent ==
    [a |-> "l1", b |-> "box", box |-> "l1", c |-> "l2", l1 |-> "none", l2 |-> "none",
     out |-> "x", x |-> "y", y |-> "x"]

\* A timed run whose failure is handed on, then a wait without a timeout.
TwoCommands == <<N("a", "run", TRUE, TRUE), N("b", "run", FALSE, FALSE)>>

\* A prompt, an await that may give up and one that must not.
Conversation ==
    <<N("a", "send", FALSE, FALSE), N("b", "await", TRUE, TRUE), N("a", "await", TRUE, FALSE)>>

\* Two lanes; the second one may fail to open.
TwoLanes == <<N("a", "run", TRUE, FALSE), N("c", "send", FALSE, TRUE), N("c", "await", TRUE, TRUE)>>

OutsideLanes == <<N("a", "send", FALSE, FALSE), N("out", "run", TRUE, FALSE)>>

MCPlans == {TwoCommands, Conversation, TwoLanes, OutsideLanes}

Colour == <<ESC, LBracket, <<"param", 0>>, <<"final", 0>>>>
LoneEscape == <<ESC, <<"blank", 0>>>>

MCReplies(p, i) ==
    IF p[i].kind = "run"
    THEN {<<<<"echo", i>>>>, <<<<"echo", i>>, <<"nonzero", i>>>>,
          <<<<"echo", i>>>> \o Colour \o <<<<"zero", i>>>>}
    ELSE {<<>>, Colour \o <<<<"prompt", i>>>>}

MCBanners == {LoneEscape, <<<<"prompt", 0>>>>}
=============================================================================
