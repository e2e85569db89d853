----------------------------- MODULE Transcript -----------------------------
(***************************************************************************)
(* TerminalTranscript (runtime/terminal.py): output that arrives in chunks *)
(* cut anywhere, its escape sequences removed, kept for a wait to match.   *)
(*                                                                         *)
(* A character is a pair <<class, number>>.  The classes below are the     *)
(* ones the pattern _ANSI tells apart; any other class is text that        *)
(* continues no escape sequence, such as a blank or a line end.            *)
(***************************************************************************)
EXTENDS Naturals, Sequences, FiniteSetsExt

CONSTANTS
    MaxPending,     \* _MAX_PENDING_ESCAPE
    MaxBuffer       \* _MAX_BUFFER

ASSUME BoundsAssumption == MaxPending \in Nat \ {0} /\ MaxBuffer \in Nat \ {0}

ESC == <<"esc", 0>>
LBracket == <<"[", 0>>
RBracket == <<"]", 0>>
BEL == <<"bel", 0>>
Backslash == <<"backslash", 0>>

Character == STRING \X Nat

Class(c) == c[1]

-----------------------------------------------------------------------------
(* _ANSI.  The ends at which each of its three alternatives matches the    *)
(* ESC at i; the regular expression takes the first alternative that does. *)

CsiEnds(s, i) ==
    {j \in i + 2 .. Len(s) :
        /\ s[i + 1] = LBracket
        /\ Class(s[j]) = "final"
        /\ \A k \in i + 2 .. j - 1 : Class(s[k]) = "param"}

OscEnds(s, i) ==
    {j \in i + 2 .. Len(s) :
        /\ s[i + 1] = RBracket
        /\ \/ s[j] = BEL /\ \A k \in i + 2 .. j - 1 : s[k] \notin {BEL, ESC}
           \/ /\ j > i + 2 /\ s[j] = Backslash /\ s[j - 1] = ESC
              /\ \A k \in i + 2 .. j - 2 : s[k] \notin {BEL, ESC}}

\* "]" and "\" are in the range of two-character escapes, "[" is not.
TwoEnds(s, i) ==
    {j \in {i + 1} \cap DOMAIN s : s[j] \in {RBracket, Backslash} \/ Class(s[j]) = "upper"}

\* Output that may be cut into chunks anywhere: no escape is left behind by the
\* end of the output, none begins an operating system command, and a control
\* sequence ends before append gives it up.
CutSafely(s) ==
    \A i \in DOMAIN s : s[i] = ESC =>
        /\ i < Len(s) /\ s[i + 1] # RBracket
        /\ s[i + 1] = LBracket => \E j \in CsiEnds(s, i) : j - i <= MaxPending

\* Where the escape sequence that begins at i ends, 0 when none begins there.
EscapeEnd(s, i) ==
    LET ends == <<CsiEnds(s, i), OscEnds(s, i), TwoEnds(s, i)>>
        matching == {a \in 1..3 : ends[a] # {}}
    IN  IF s[i] # ESC \/ matching = {} THEN 0 ELSE Min(ends[Min(matching)])

\* _ANSI.sub("", s): what a person reads.
Strip(s) ==
    LET from[i \in 1 .. Len(s) + 1] ==
            IF i > Len(s) THEN <<>>
            ELSE IF EscapeEnd(s, i) = 0 THEN <<s[i]>> \o from[i + 1]
            ELSE from[EscapeEnd(s, i) + 1]
    IN  from[1]

-----------------------------------------------------------------------------
Empty == [text |-> <<>>, tail |-> <<>>]

\* How much of the tail can be stripped now.
EverythingIsSafe(tail) == Len(tail)     \* mistake: strip chunk by chunk

NeverHopeless(tail) ==      \* mistake: an escape is waited for without limit
    LET escapes == {i \in DOMAIN tail : tail[i] = ESC}
    IN  IF escapes = {} \/ EscapeEnd(tail, Max(escapes)) # 0
        THEN Len(tail) ELSE Max(escapes) - 1

SafeLength(tail) ==
    LET escapes == {i \in DOMAIN tail : tail[i] = ESC}
        last == Max(escapes)
        complete == EscapeEnd(tail, last) # 0
        hopeless == Len(tail) - (last - 1) > MaxPending
    IN  IF escapes = {} \/ complete \/ hopeless THEN Len(tail) ELSE last - 1

Excess(s) == IF Len(s) > MaxBuffer THEN Len(s) - MaxBuffer ELSE 0

Stripped(t, chunk) ==
    LET tail == t.tail \o chunk
    IN  t.text \o Strip(SubSeq(tail, 1, SafeLength(tail)))

\* append, but for waking the waiters.
Feed(t, chunk) ==
    LET tail == t.tail \o chunk
        text == Stripped(t, chunk)
    IN  [text |-> SubSeq(text, Excess(text) + 1, Len(text)),
         tail |-> SubSeq(tail, SafeLength(tail) + 1, Len(tail))]

\* The first index of the text that the pattern, a set of characters, matches.
Hits(t, pattern) == {i \in DOMAIN t.text : t.text[i] \in pattern}

\* check: a match takes the text up to its end.
LeaveMatch(t, pattern) == t       \* mistake: the match stays in the buffer

TakeMatch(t, pattern) ==
    [t EXCEPT !.text = SubSeq(@, Min(Hits(t, pattern)) + 1, Len(@))]

TextThrough(t, pattern) == SubSeq(t.text, 1, Min(Hits(t, pattern)))
=============================================================================
