------------------------------ MODULE OutboxWalk ------------------------------
(***************************************************************************)
(* The log and the relay as one consumer's module needs them: rows         *)
(* appended in event_seq order, a walk over the pending ones that starts   *)
(* over at any row (a batch may end anywhere), attempts that are counted   *)
(* and run out.  OutboxRelay has the relay in detail.                      *)
(***************************************************************************)
EXTENDS Naturals, Sequences

CONSTANTS
    MAX_ATTEMPTS,  \* of outbox_relay.py
    MaxFaults      \* bound: failures of any kind

ASSUME WalkAssumption == MAX_ATTEMPTS \in Nat \ {0} /\ MaxFaults \in Nat

VARIABLES
    log,       \* event_store rows, in event_seq order
    status,    \* of each event in the outbox
    attempts,  \* failed publishes of each event
    cursor,    \* the last event this drain has published, 0 at its start
    faults     \* failures so far

walkVars == <<log, status, attempts, cursor, faults>>

Events  == DOMAIN log
Pending == {e \in Events : status[e] = "pending"}
Ahead   == {e \in Pending : e > cursor}
NextRow == CHOOSE e \in Ahead : \A f \in Ahead : e <= f
Quiet   == Pending = {}
Fault   == faults < MaxFaults /\ faults' = faults + 1

WalkInit ==
    /\ log = <<>>
    /\ status = <<>>
    /\ attempts = <<>>
    /\ cursor = 0
    /\ faults = 0

\* append_many: the rows of one batch and their outbox rows, with the outbox
\* otherwise as given.
Commit(events, statuses, counts) ==
    /\ log' = log \o events
    /\ status' = statuses \o [i \in DOMAIN events |-> "pending"]
    /\ attempts' = counts \o [i \in DOMAIN events |-> 0]

append_many(events) ==
    /\ Commit(events, status, attempts)
    /\ UNCHANGED cursor

\* The row in hand is marked; its handlers have appended events.
SettleDispatched(events) ==
    /\ Commit(events, [status EXCEPT ![NextRow] = "dispatched"], attempts)
    /\ cursor' = NextRow

SettleFailed(events) ==
    LET counts == [attempts EXCEPT ![NextRow] = @ + 1]
    IN /\ Commit(events,
                 [status EXCEPT ![NextRow] =
                     IF counts[NextRow] >= MAX_ATTEMPTS THEN "dead" ELSE @],
                 counts)
       /\ cursor' = NextRow

\* A crash, or a failing mark_*: the row stays as it was, and the walk starts
\* over, in this process or the next.
SettleNot(events) ==
    /\ Commit(events, status, attempts)
    /\ cursor' = 0

\* The next drain.  With nothing pending behind the cursor it would go on
\* where this one is.
StartOver ==
    /\ \E e \in Pending : e <= cursor
    /\ cursor' = 0
    /\ UNCHANGED <<log, status, attempts, faults>>

WalkTypeOK ==
    /\ status \in [Events -> {"pending", "dispatched", "dead"}]
    /\ attempts \in [Events -> 0..MAX_ATTEMPTS]
    /\ cursor \in {0} \cup Events
    /\ faults \in 0..MaxFaults
=============================================================================
