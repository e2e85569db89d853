----------------------------- MODULE ClaimStore -----------------------------
(***************************************************************************)
(* The node rows of one run and the operations of InMemoryClaimStore       *)
(* (durable/state.py), each of which the store executes under its lock.    *)
(*                                                                         *)
(* A store is a function from node ids to rows.  A node the dictionary     *)
(* does not hold has the row NoRow.  A row keeps the status, the owner     *)
(* token, the number of attempts and the ports the node lit; the output    *)
(* value and the error text decide nothing here and are left out.          *)
(***************************************************************************)
EXTENDS Naturals, FiniteSets

CONSTANT NoOwner    \* the owner of a row no worker claimed

\* NodeRunStatus.SETTLED and NodeRunStatus.HELD
SettledWithOutput == {"completed", "failed"}      \* mistake: skipped forgotten
SETTLED == {"completed", "skipped", "failed"}
HELD == {"claimed", "paused"}
Statuses == SETTLED \cup HELD \cup {"none"}

Row(owners, ports) ==
    [status : Statuses, owner : owners \cup {NoOwner}, attempts : Nat, ports : SUBSET ports]

NoRow == [status |-> "none", owner |-> NoOwner, attempts |-> 0, ports |-> {}]

Settled(store) == {n \in DOMAIN store : store[n].status \in SETTLED}
Held(store) == {n \in DOMAIN store : store[n].status \in HELD}

(***************************************************************************)
(* claim: a new row for a node nobody holds; a caller re-enters its own    *)
(* claimed or paused row; everything else is a lost race.                  *)
(***************************************************************************)
OwnClaimAnyOwner(row, o) == row.status \in HELD                          \* mistake
OwnClaimRunningOnly(row, o) == row.status = "claimed" /\ row.owner = o    \* mistake
OwnClaim(row, o) == row.status \in HELD /\ row.owner = o

CanClaimUnheld(store, n, o) == store[n].status \notin HELD \/ OwnClaim(store[n], o)  \* mistake
CanClaim(store, n, o) == store[n].status = "none" \/ OwnClaim(store[n], o)

\* A first claim of the absent row is attempt 1; a re-entry keeps the rest.
Claim(store, n, o) ==
    [store EXCEPT ![n] = [status |-> "claimed", owner |-> o,
                          attempts |-> store[n].attempts + 1, ports |-> store[n].ports]]

\* _entry creates a claimed row when there is none; complete, fail and pause
\* then write it whatever its status is.
Entry(row) == IF row.status = "none" THEN [row EXCEPT !.status = "claimed"] ELSE row

Complete(store, n, ports) ==
    [store EXCEPT ![n] = [Entry(store[n]) EXCEPT !.status = "completed", !.ports = ports]]

Fail(store, n) ==
    [store EXCEPT ![n] = [Entry(store[n]) EXCEPT !.status = "failed", !.ports = {}]]

Pause(store, n) ==
    [store EXCEPT ![n] = [Entry(store[n]) EXCEPT !.status = "paused", !.ports = {}]]

\* skip returns False, and writes nothing, when the row is already settled.
SkipsAnything(store, n) == TRUE     \* mistake
SkipsNow(store, n) == store[n].status \notin SETTLED

Skip(store, n) ==
    IF SkipsNow(store, n)
    THEN [store EXCEPT ![n] = [Entry(store[n]) EXCEPT !.status = "skipped", !.ports = {}]]
    ELSE store

\* release forgets the row, whatever it holds.
Release(store, n) == [store EXCEPT ![n] = NoRow]
=============================================================================
