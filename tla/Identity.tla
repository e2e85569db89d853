------------------------------- MODULE Identity -------------------------------
(***************************************************************************)
(* What names one execution of one node (runtime/identity.py) and what a   *)
(* run reports when it did not succeed (runtime/pause.py).                 *)
(*                                                                         *)
(* An id is a sequence of characters, of which only "/", "#" and "%"       *)
(* matter; an occurrence is a set of at most one number.                   *)
(***************************************************************************)
EXTENDS SequencesExt, Integers

escaped(c) ==
    CASE c = "%" -> <<"%", "2", "5">>
      [] c = "/" -> <<"%", "2", "F">>
      [] c = "#" -> <<"%", "2", "3">>
      [] OTHER   -> <<c>>

escape_segment_plain(value) == value                                             \* mistake
escape_segment(value) == FlattenSeq([i \in DOMAIN value |-> escaped(value[i])])

\* A number as text.
digits == <<"0", "1", "2", "3", "4", "5", "6", "7", "8", "9">>
decimal[n \in Nat] == (IF n < 10 THEN <<>> ELSE decimal[n \div 10]) \o <<digits[(n % 10) + 1]>>

\* Occurrence 0 is one.
render(value, occurrence) ==
    escape_segment(value)
        \o (IF occurrence = {} THEN <<>> ELSE <<"#">> \o decimal[CHOOSE n \in occurrence : TRUE])

\* The attempt is not in the key.
step_key(path, id) ==
    FlattenSeq([i \in DOMAIN path |-> path[i] \o <<"/">>]) \o render(id, {})

descend_flat(path, id, occurrence) == path                                       \* mistake
descend(path, id, occurrence) == Append(path, render(id, occurrence))

\* May this attempt reuse the key?  `window` is how long the provider remembers
\* one; none means for ever, and 0 not at all.
is_replay_safe(window, attempt, elapsed) ==
    attempt <= 1 \/ window = {} \/ \E w \in window : w > 0 /\ elapsed <= w

-----------------------------------------------------------------------------
Succeeds == [is |-> "ok"]
Fails == [is |-> "failed"]
Pauses(id) == [is |-> "paused", id |-> id]

\* Pause.decode is anchored at the start of the reason, so a pause inside another
\* message is none.
IsPause(result) == result.is = "paused"
=============================================================================
