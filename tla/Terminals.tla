------------------------------ MODULE Terminals ------------------------------
(***************************************************************************)
(* One run of FlowRunner.arun over terminal nodes: TerminalSessions and    *)
(* wait_for (runtime/terminal.py), the nodes of nodes/terminal.py, and the *)
(* part of the walk that starts nodes and closes sessions                  *)
(* (engine/runner.py).  The processes, the host that spawns them, the      *)
(* timers and the caller who may abort the run act between any two awaits. *)
(*                                                                         *)
(* A plan is the list of nodes the walk starts, in order.  A node:         *)
(*   id        its id; lanes follow from Parent                            *)
(*   kind      "run", "send", "await": terminal_run, _send, _await         *)
(*   timed     whether its timeout is positive                             *)
(*   lenient   a run: failOnNonZero is off; an await: onTimeout continues; *)
(*             a send: clearFirst                                          *)
(* A process answers what is typed by one of Replies(node), a sequence of  *)
(* characters it prints when it likes; <<"echo", i>> echoes the command of *)
(* node i, <<"zero", i>> and <<"nonzero", i>> are its exit marker,         *)
(* <<"prompt", i>> what an await waits for.                                *)
(***************************************************************************)
EXTENDS Transcript

CONSTANTS
    Plans,
    Parent,         \* Parent[n]: the parent_id of n, NoLane if none
    TerminalLanes,  \* the nodes of kind terminal_lane
    NoLane,
    Banners,        \* what a process may print when it is spawned
    Replies(_, _),  \* Replies(plan, i): the answers to what node i types
    MaxChunk        \* a process prints at most so many characters at once

Ids == DOMAIN Parent

ASSUME LanesAssumption ==
    /\ Parent \in [Ids -> Ids \cup {NoLane}]
    /\ TerminalLanes \subseteq Ids
    /\ NoLane \notin Ids
    /\ MaxChunk \in Nat \ {0}

NodeRecord ==
    [id : Ids, kind : {"run", "send", "await"}, timed : BOOLEAN, lenient : BOOLEAN]

ASSUME PlansAssumption == Plans \subseteq Seq(NodeRecord) \ {<<>>}

\* The number of a prompt names what it was printed for, the start of the
\* terminal or the answer to a node; it is printed once.
PromptOnce(s, n) ==
    /\ \A i \in DOMAIN s : Class(s[i]) = "prompt" => s[i] = <<"prompt", n>>
    /\ \A i, j \in DOMAIN s : s[i] = s[j] /\ Class(s[i]) = "prompt" => i = j

\* What a process prints is text that chunks may cut anywhere.
ASSUME OutputAssumption ==
    /\ \A b \in Banners : b \in Seq(Character) /\ CutSafely(b) /\ PromptOnce(b, 0)
    /\ \A p \in Plans : \A i \in DOMAIN p : \A r \in Replies(p, i) :
          r \in Seq(Character) /\ CutSafely(r) /\ PromptOnce(r, i)

VARIABLES
    plan,
    pos,            \* the index of the current node
    at,             \* where the walk is
    verdict,        \* verdict[i]: how node i's wait, or the node, ended
    aborted,        \* signal.aborted
    failed,         \* the walk has an error
    session,        \* session[l]: not opened, in _open, or closed
    process,        \* process[l]: the terminal's process
    transcript,     \* _transcripts
    watcher,        \* _exits: the shared task awaiting wait_exit
    screen,         \* screen[l]: what the process has still to print
    settled,        \* what check() found for the current wait
    timer,          \* the current wait's timeout task
    heard,          \* history: what was printed since the transcript was cleared
    gone            \* history: how many visible characters of that were taken or dropped

walk == <<plan, pos, at, verdict, aborted, failed>>
wait == <<settled, timer>>
lanes == <<session, process, transcript, watcher, screen, heard, gone>>
vars == <<walk, wait, lanes>>

Nothing == [done |-> FALSE, text |-> <<>>, found |-> <<"none", 0>>]
Undecided == [status |-> "none", text |-> <<>>, found |-> <<"none", 0>>]

Statuses == {"none", "done", "failed", "matched", "timeout", "exited"}

Node == plan[pos]

-----------------------------------------------------------------------------
(* lane_for: the nearest ancestor that is a terminal lane, the node itself *)
(* excepted.  The walk up stops at a repetition; going on instead finds    *)
(* nothing new, since the same ids come again.                             *)
LaneFor(n) ==
    LET up[k \in 0 .. Cardinality(Ids)] ==
            IF k = 0 THEN n ELSE IF up[k - 1] = NoLane THEN NoLane ELSE Parent[up[k - 1]]
        nearest == {k \in 1 .. Cardinality(Ids) :
                        /\ up[k] \in TerminalLanes \ {n}
                        /\ \A j \in 1 .. k - 1 : up[j] \notin TerminalLanes \ {n}}
    IN  IF nearest = {} THEN NoLane ELSE up[CHOOSE k \in nearest : TRUE]

Lane == LaneFor(Node.id)

\* What the wait of the current node looks for: the digits of its own marker,
\* so not the echo of the command, or the prompt.
Pattern ==
    IF Node.kind = "run" THEN {<<c, pos>> : c \in {"zero", "nonzero"}}
    ELSE {<<"prompt", i>> : i \in 0 .. Len(plan)}

-----------------------------------------------------------------------------
Init ==
    /\ plan \in Plans
    /\ pos = 1
    /\ at = "head"
    /\ verdict = [i \in DOMAIN plan |-> Undecided]
    /\ aborted = FALSE
    /\ failed = FALSE
    /\ session = [l \in TerminalLanes |-> "none"]
    /\ process = [l \in TerminalLanes |-> "none"]
    /\ transcript = [l \in TerminalLanes |-> Empty]
    /\ watcher = [l \in TerminalLanes |-> "none"]
    /\ screen = [l \in TerminalLanes |-> <<>>]
    /\ settled = Nothing
    /\ timer = "off"
    /\ heard = [l \in TerminalLanes |-> <<>>]
    /\ gone = [l \in TerminalLanes |-> 0]

-----------------------------------------------------------------------------
(* The walk *)

\* The current node ended: the next one, or the closing of the sessions.  An
\* error breaks the loop at once.
ReturnOnError(result, ok) ==    \* mistake: an error returns from the walk
    /\ verdict' = [verdict EXCEPT ![pos] = result]
    /\ failed' = ~ok
    /\ pos' = IF ok /\ pos < Len(plan) THEN pos + 1 ELSE pos
    /\ at' = IF ~ok THEN "ended" ELSE IF pos < Len(plan) THEN "head" ELSE "closing"
    /\ UNCHANGED <<plan, aborted>>

EndNode(result, ok) ==
    /\ verdict' = [verdict EXCEPT ![pos] = result]
    /\ failed' = ~ok
    /\ pos' = IF ok /\ pos < Len(plan) THEN pos + 1 ELSE pos
    /\ at' = IF ok /\ pos < Len(plan) THEN "head" ELSE "closing"
    /\ UNCHANGED <<plan, aborted>>

\* Between two nodes the walk looks at the signal first; an abort is raised
\* through the walk, past the closing of the sessions.
RaiseAborted ==
    /\ at = "head"
    /\ aborted
    /\ at' = "raised"
    /\ UNCHANGED <<plan, pos, verdict, aborted, failed, wait, lanes>>

\* The run's own timeout is looked at next; it is an error like a node's.
RunTimesOut ==
    /\ at = "head"
    /\ ~aborted
    /\ failed' = TRUE
    /\ at' = "closing"
    /\ UNCHANGED <<plan, pos, verdict, aborted, wait, lanes>>

StartNode ==
    /\ at = "head"
    /\ ~aborted
    /\ IF Lane = NoLane
       THEN EndNode([Undecided EXCEPT !.status = "failed"], FALSE)
       ELSE /\ at' = "started"
            /\ UNCHANGED <<plan, pos, verdict, aborted, failed>>
    /\ UNCHANGED <<wait, lanes>>

\* TerminalSessions.session on first use: the host spawns a process, the
\* transcript listens and the exit watcher runs from then on.
OpenTerminal ==
    /\ at = "started"
    /\ session[Lane] = "none"
    /\ session' = [session EXCEPT ![Lane] = "open"]
    /\ process' = [process EXCEPT ![Lane] = "alive"]
    /\ watcher' = [watcher EXCEPT ![Lane] = "pending"]
    /\ \E b \in Banners : screen' = [screen EXCEPT ![Lane] = b]
    /\ UNCHANGED <<walk, wait, transcript, heard, gone>>

\* No host is registered, or its open raises.
OpenFails ==
    /\ at = "started"
    /\ session[Lane] = "none"
    /\ EndNode([Undecided EXCEPT !.status = "failed"], FALSE)
    /\ UNCHANGED <<wait, lanes>>

\* terminal_run clears the transcript before it types, terminal_send on demand.
Clears == Node.kind = "run" \/ Node.lenient

ClearFirst ==
    /\ transcript' = IF Clears THEN [transcript EXCEPT ![Lane] = Empty] ELSE transcript
    /\ heard' = IF Clears THEN [heard EXCEPT ![Lane] = <<>>] ELSE heard
    /\ gone' = IF Clears THEN [gone EXCEPT ![Lane] = 0] ELSE gone

\* The write of a run or a send; a run goes on to wait for its marker.
Type ==
    /\ at = "started"
    /\ Node.kind \in {"run", "send"}
    /\ session[Lane] = "open"
    /\ ClearFirst
    /\ \E reply \in IF process[Lane] = "alive" THEN Replies(plan, pos) ELSE {<<>>} :
          screen' = [screen EXCEPT ![Lane] = @ \o reply]
    /\ IF Node.kind = "run"
       THEN /\ at' = "typed"
            /\ UNCHANGED <<plan, pos, verdict, aborted, failed>>
       ELSE EndNode([Undecided EXCEPT !.status = "done"], TRUE)
    /\ UNCHANGED <<wait, session, process, watcher>>

\* Writing to a terminal whose process ended may raise.
TypeFails ==
    /\ at = "started"
    /\ Node.kind \in {"run", "send"}
    /\ session[Lane] = "open"
    /\ process[Lane] = "dead"
    /\ ClearFirst
    /\ EndNode([Undecided EXCEPT !.status = "failed"], FALSE)
    /\ UNCHANGED <<wait, session, process, watcher, screen>>

-----------------------------------------------------------------------------
(* wait_for *)

\* How a node ends with the result of its wait.
Succeeds(status, found) ==
    \/ /\ status = "matched"
       /\ Node.kind = "await" \/ Class(found) = "zero" \/ Node.lenient
    \/ /\ status = "timeout"
       /\ Node.kind = "await" /\ Node.lenient

EndWait(status, text, found) ==
    /\ EndNode([status |-> status, text |-> text, found |-> found], Succeeds(status, found))
    /\ timer' = "off"
    /\ settled' = Nothing

\* check(): a match found in t is taken and decides the wait; t is then the
\* lane's transcript without it.
Found(t) == Hits(t, Pattern) # {}

ResultIn(t) == [done |-> TRUE, text |-> TextThrough(t, Pattern),
                found |-> t.text[Min(Hits(t, Pattern))]]

Waits == at = "typed" \/ (at = "started" /\ Node.kind = "await")

\* What has already arrived is looked at before the wait subscribes.
MatchAtOnce ==
    LET t == transcript[Lane]
    IN  /\ Waits
        /\ session[Lane] = "open"
        /\ Found(t)
        /\ transcript' = [transcript EXCEPT ![Lane] = TakeMatch(t, Pattern)]
        /\ gone' = [gone EXCEPT ![Lane] = @ + Len(TextThrough(t, Pattern))]
        /\ EndWait("matched", ResultIn(t).text, ResultIn(t).found)
        /\ UNCHANGED <<session, process, watcher, screen, heard>>

WaitUnchecked ==    \* mistake: subscribes before it looks at what has arrived
    /\ Waits
    /\ session[Lane] = "open"
    /\ at' = "waiting"
    /\ timer' = IF Node.timed THEN "running" ELSE "off"
    /\ UNCHANGED <<plan, pos, verdict, aborted, failed, settled, lanes>>

StartWait ==
    /\ Waits
    /\ session[Lane] = "open"
    /\ ~Found(transcript[Lane])
    /\ at' = "waiting"
    /\ timer' = IF Node.timed THEN "running" ELSE "off"
    /\ UNCHANGED <<plan, pos, verdict, aborted, failed, settled, lanes>>

\* The futures of asyncio.wait: the match, the timer and the lane's exit watcher.
ExitIgnored == FALSE    \* mistake: the wait does not race the exit

ExitKnown == watcher[Lane] \in {"exited", "broken"}

AnyDone == settled.done \/ timer = "fired" \/ ExitKnown

OutcomeExitFirst ==     \* mistake: the exit is looked at before the match
    IF watcher[Lane] = "exited" THEN "exited"
    ELSE IF settled.done THEN "matched" ELSE "timeout"

\* A match wins, then the exit; a watcher that raised says nothing.
Outcome ==
    IF settled.done THEN "matched"
    ELSE IF watcher[Lane] = "exited" THEN "exited" ELSE "timeout"

\* The wait's coroutine goes on.  Without a match it takes all the text; the
\* timer is cancelled, the watcher is left alone.
Resume ==
    LET t == transcript[Lane]
    IN  /\ at = "waiting"
        /\ AnyDone
        /\ IF Outcome = "matched"
           THEN /\ EndWait("matched", settled.text, settled.found)
                /\ UNCHANGED <<transcript, gone>>
           ELSE /\ EndWait(Outcome, t.text, Nothing.found)
                /\ transcript' = [transcript EXCEPT ![Lane].text = <<>>]
                /\ gone' = [gone EXCEPT ![Lane] = @ + Len(t.text)]
        /\ UNCHANGED <<session, process, watcher, screen, heard>>

-----------------------------------------------------------------------------
(* Closing, on every path of the walk that ends with a result *)

CloseTerminal ==
    /\ at = "closing"
    /\ \E l \in TerminalLanes :
        /\ session[l] = "open"
        /\ session' = [session EXCEPT ![l] = "closed"]
        /\ transcript' = [transcript EXCEPT ![l] = Empty]
        /\ watcher' = [watcher EXCEPT ![l] = IF @ = "pending" THEN "cancelled" ELSE @]
        /\ screen' = [screen EXCEPT ![l] = <<>>]
        /\ heard' = [heard EXCEPT ![l] = <<>>]
        /\ gone' = [gone EXCEPT ![l] = 0]
        \* The host's close may raise; that is logged and changes nothing here.
        /\ \E p \in {"dead", process[l]} : process' = [process EXCEPT ![l] = p]
    /\ UNCHANGED <<walk, wait>>

EndRun ==
    /\ at = "closing"
    /\ \A l \in TerminalLanes : session[l] # "open"
    /\ at' = "ended"
    /\ UNCHANGED <<plan, pos, verdict, aborted, failed, wait, lanes>>

-----------------------------------------------------------------------------
(* The processes, the timers and the caller *)

\* The process prints a chunk; the transcript appends it and wakes the wait.
Speak(l) ==
    /\ session[l] = "open"
    /\ screen[l] # <<>>
    /\ \E k \in 1 .. Min({MaxChunk, Len(screen[l])}) :
        LET chunk == SubSeq(screen[l], 1, k)
            t == Feed(transcript[l], chunk)
            dropped == Excess(Stripped(transcript[l], chunk))
            wakes == at = "waiting" /\ Lane = l /\ ~settled.done /\ Found(t)
        IN  /\ screen' = [screen EXCEPT ![l] = SubSeq(@, k + 1, Len(@))]
            /\ heard' = [heard EXCEPT ![l] = @ \o chunk]
            /\ IF wakes
               THEN /\ settled' = ResultIn(t)
                    /\ transcript' = [transcript EXCEPT ![l] = TakeMatch(t, Pattern)]
                    /\ gone' = [gone EXCEPT ![l] = @ + dropped + Len(ResultIn(t).text)]
               ELSE /\ transcript' = [transcript EXCEPT ![l] = t]
                    /\ gone' = [gone EXCEPT ![l] = @ + dropped]
                    /\ UNCHANGED settled
    /\ UNCHANGED <<walk, timer, session, process, watcher>>

\* A process ends by itself; what it printed may still be on its way.
Die(l) ==
    /\ process[l] = "alive"
    /\ process' = [process EXCEPT ![l] = "dead"]
    /\ UNCHANGED <<walk, wait, session, transcript, watcher, screen, heard, gone>>

\* wait_exit returns once the process ended, or raises.
WatcherEnds(l) ==
    /\ watcher[l] = "pending"
    /\ \/ process[l] = "dead" /\ watcher' = [watcher EXCEPT ![l] = "exited"]
       \/ watcher' = [watcher EXCEPT ![l] = "broken"]
    /\ UNCHANGED <<walk, wait, session, process, transcript, screen, heard, gone>>

TimerFires ==
    /\ timer = "running"
    /\ timer' = "fired"
    /\ UNCHANGED <<walk, settled, lanes>>

Abort ==
    /\ ~aborted
    /\ at \notin {"ended", "raised"}
    /\ aborted' = TRUE
    /\ UNCHANGED <<plan, pos, at, verdict, failed, wait, lanes>>

Walk ==
    \/ RaiseAborted \/ StartNode \/ OpenTerminal \/ OpenFails \/ Type \/ TypeFails
    \/ MatchAtOnce \/ StartWait \/ Resume \/ CloseTerminal \/ EndRun

Next ==
    \/ Walk
    \/ RunTimesOut
    \/ TimerFires
    \/ Abort
    \/ \E l \in TerminalLanes : Speak(l) \/ Die(l) \/ WatcherEnds(l)

Spec == Init /\ [][Next]_vars

\* The event loop resumes what can go on, timers fire, and wait_exit returns
\* once the process ended.  Processes need not print, nor end.
FairSpec ==
    /\ Spec
    /\ WF_vars(Walk)
    /\ WF_vars(TimerFires)
    /\ \A l \in TerminalLanes : WF_vars(process[l] = "dead" /\ WatcherEnds(l))

-----------------------------------------------------------------------------
\* The variables have their types, and the buffers of every transcript keep
\* within the two bounds of the code.
TypeOK ==
    /\ pos \in DOMAIN plan
    /\ at \in {"head", "started", "typed", "waiting", "closing", "ended", "raised"}
    /\ \A i \in DOMAIN plan : verdict[i].status \in Statuses
    /\ aborted \in BOOLEAN /\ failed \in BOOLEAN
    /\ session \in [TerminalLanes -> {"none", "open", "closed"}]
    /\ process \in [TerminalLanes -> {"none", "alive", "dead"}]
    /\ watcher \in [TerminalLanes -> {"none", "pending", "exited", "broken", "cancelled"}]
    /\ timer \in {"off", "running", "fired"}
    /\ \A l \in TerminalLanes :
          Len(transcript[l].text) <= MaxBuffer /\ Len(transcript[l].tail) <= MaxPending

\* However the output was cut into chunks, a transcript holds what a person
\* reads of all that was printed since it was cleared, less what waits took and
\* what the cap dropped from the front; an unfinished escape is kept aside.  This
\* is of output as OutputAssumption has it: no operating system commands, no escape
\* left unfinished at the end, none longer than append waits for.
NothingLost ==
    \A l \in TerminalLanes :
        LET visible == Strip(heard[l])
        IN  transcript[l].text \o transcript[l].tail
                = SubSeq(visible, gone[l] + 1, Len(visible))

\* The transcripts keep within their bounds, and nothing else is dropped from them.
TranscriptsAreSound == TypeOK /\ NothingLost

Answered(i) == verdict[i].status = "matched"

\* A run succeeds on the exit status of its own command, never on the echo of
\* what it typed; no printed prompt answers two awaits of a lane.
AnswersAreOwn ==
    /\ \A i \in DOMAIN plan :
          Answered(i) /\ plan[i].kind = "run"
              => verdict[i].found \in {<<"zero", i>>, <<"nonzero", i>>}
    /\ \A i, j \in DOMAIN plan :
          Answered(i) /\ Answered(j) /\ i # j /\ LaneFor(plan[i].id) = LaneFor(plan[j].id)
              => verdict[i].found # verdict[j].found

\* A wait that ends says the truth: "timeout" only when its timer fired, or the
\* host's watcher broke, and the process is not known to be dead; "exited" only
\* when it is; and neither throws away an answer that arrived.
WaitsEndTruthfully ==
    [][at = "waiting" /\ at' # "waiting" =>
          LET result == verdict'[pos]
          IN  /\ result.status = "timeout"
                     => /\ timer = "fired" \/ watcher[Lane] = "broken"
                        /\ watcher[Lane] # "exited"
              /\ result.status = "exited"
                     => watcher[Lane] = "exited" /\ process[Lane] = "dead"
              /\ result.status # "matched"
                     => /\ ~settled.done
                        /\ \A i \in DOMAIN result.text : result.text[i] \notin Pattern]_vars

\* A run that reports a result has closed every terminal it opened, whether it
\* succeeded, failed, timed out or could not open another one.
NoTerminalLeftOpen ==
    at = "ended" => \A l \in TerminalLanes :
        session[l] # "open" /\ watcher[l] # "pending" /\ transcript[l] = Empty

\* A wait with a timeout ends, and so does one whose process died, although the
\* process never answers.
WaitsEnd ==
    (at = "waiting" /\ (Node.timed \/ process[Lane] = "dead")) ~> at # "waiting"
-----------------------------------------------------------------------------
(* The invariant behind NoTerminalLeftOpen and WaitsEndTruthfully *)

\* A node that got past the start of its executor has a lane.
InALane == at \in {"started", "typed", "waiting"} => Lane \in TerminalLanes

\* An unsettled wait has looked at all that arrived: its answer is not in the text.
WaitMissesNothing == at = "waiting" /\ ~settled.done => ~Found(transcript[Lane])

ExitedMeansDead == \A l \in TerminalLanes : watcher[l] = "exited" => process[l] = "dead"

\* A lane without an open session has neither watcher nor output.
ClosedIsSilent ==
    \A l \in TerminalLanes :
        session[l] # "open" => watcher[l] # "pending" /\ transcript[l] = Empty

TerminalsInv ==
    /\ plan \in Plans
    /\ pos \in DOMAIN plan
    /\ verdict = [i \in DOMAIN plan |-> verdict[i]]
    /\ session = [l \in TerminalLanes |-> session[l]]
    /\ process = [l \in TerminalLanes |-> process[l]]
    /\ watcher = [l \in TerminalLanes |-> watcher[l]]
    /\ transcript = [l \in TerminalLanes |-> transcript[l]]
    /\ InALane
    /\ WaitMissesNothing
    /\ ExitedMeansDead
    /\ ClosedIsSilent
    /\ at = "ended" => \A l \in TerminalLanes : session[l] # "open"
=============================================================================
