---------------------------- MODULE CapacityLedger ----------------------------
(***************************************************************************)
(* The downtime ledger of one machine: the capacity tracker and the MRP    *)
(* impact handler (services/subscribers), the rows they write through      *)
(* MachineDowntimeRepository, and the relay that publishes the machine's   *)
(* StateChanged events to them, retries what failed and starts over after  *)
(* a crash.  Only the relay's thread writes these tables.                  *)
(*                                                                         *)
(* Times are whole hours and lost_qty is hours * Rate, nominal_rate times  *)
(* efficiency; rounding is left out.  The relay's own guarantees are in    *)
(* OutboxRelay; here a failed publish stays pending until it has used its  *)
(* attempts, and drains walk the pending events in event_seq order.        *)
(*                                                                         *)
(* runs, closer and charged are history variables: the tables do not hold  *)
(* what they tell, and no step reads them.                                 *)
(***************************************************************************)
EXTENDS StateMachine, Integers, FiniteSets

CONSTANTS
    Origin,        \* the machine's state when the ledger was empty
    Rate,          \* units lost per hour; 0 is a machine without capacity row
    Zones,         \* whether an event's time is "aware" or "naive"
    MaxLag,        \* how far behind the last event's time one may be stamped
    MAX_ATTEMPTS,  \* of outbox_relay.py
    MaxEvents,     \* bound: StateChanged events
    MaxTime,       \* bound: event times
    MaxFaults      \* bound: failures of any kind

ASSUME LedgerAssumption ==
    /\ Origin \in VALID_STATES
    /\ Rate \in Nat
    /\ Zones \subseteq {"naive", "aware"} /\ Zones # {}
    /\ MaxLag \in Nat
    /\ MAX_ATTEMPTS \in Nat \ {0}
    /\ MaxEvents \in Nat
    /\ MaxTime \in Nat \ {0}
    /\ MaxFaults \in Nat

VARIABLES
    history,   \* the machine's StateChanged events, in event_seq order
    status,    \* of each event in the outbox
    attempts,  \* failed publishes of each event
    cursor,    \* the last event this drain has published, 0 at its start
    pc,        \* where on_state_changed stands with it
    found,     \* the row get_open returned
    raised,    \* publish() has collected a failure
    downtime,  \* machine_downtime_log, in id order
    losses,    \* capacity_loss_daily, in id order
    faults,    \* failures so far
    runs,      \* how often each event was published
    closer,    \* the event whose publish closed each downtime row, 0 if open
    charged    \* the downtime row each loss was computed from

tables    == <<downtime, losses, closer, charged>>
relayVars == <<status, attempts, cursor, raised>>
vars      == <<history, relayVars, pc, found, tables, faults, runs>>

Events == DOMAIN history

Open == -1       \* end_time IS NULL
NoRow == 0

Fault == faults < MaxFaults /\ faults' = faults + 1

-----------------------------------------------------------------------------
\* The demonstration row of mysql/init.sql is closed and of no event.
Init ==
    /\ history = <<>>
    /\ status = <<>>
    /\ attempts = <<>>
    /\ cursor = 0
    /\ pc = "idle"
    /\ found = NoRow
    /\ raised = FALSE
    /\ downtime = <<>>
    /\ losses = <<>>
    /\ faults = 0
    /\ runs = <<>>
    /\ closer = <<>>
    /\ charged = <<>>

-----------------------------------------------------------------------------
(* The machine's actor appends a transition.  Samples and commands are     *)
(* stamped by different clocks, so a later event may carry an earlier      *)
(* time.  Events stamped before utils.clock made every time tz-aware are   *)
(* naive, and precede those stamped since.                                 *)

LastState == IF history = <<>> THEN Origin ELSE history[Len(history)].to
LastTime  == IF history = <<>> THEN 0 ELSE history[Len(history)].at

Transition(to, at, zone) ==
    /\ Len(history) < MaxEvents
    /\ to # LastState
    /\ at + MaxLag >= LastTime
    /\ zone = "naive" => \A e \in Events : history[e].zone = "naive"
    /\ history' = Append(history,
                     [from |-> LastState, to |-> to, at |-> at, zone |-> zone])
    /\ status' = Append(status, "pending")
    /\ attempts' = Append(attempts, 0)
    /\ runs' = Append(runs, 0)
    /\ UNCHANGED <<cursor, raised, pc, found, tables, faults>>

-----------------------------------------------------------------------------
(* on_state_changed                                                        *)

Leaves(ev) == ev.from = RUN /\ ev.to \in {ALARM, IDLE}

\* Mutant: only the end of an alarm is a recovery.
Enters_FromAlarm(ev) == ev.to = RUN /\ ev.from = ALARM

Enters(ev) == ev.to = RUN /\ ev.from \in {ALARM, IDLE}

\* The tracker's branch on the event; others are not its business.
Branch(ev) == IF Leaves(ev) THEN "opening"
              ELSE IF Enters(ev) THEN "looking"
              ELSE "others"

Pending == {e \in Events : status[e] = "pending"}
Ahead   == {e \in Pending : e > cursor}

\* Mutant: ORDER BY event_seq DESC.
Publish_Newest ==
    /\ pc = "idle" /\ Ahead # {}
    /\ cursor' = CHOOSE e \in Ahead : \A f \in Ahead : f <= e
    /\ pc' = Branch(history[cursor'])
    /\ runs' = [runs EXCEPT ![cursor'] = @ + 1]
    /\ raised' = FALSE
    /\ UNCHANGED <<history, status, attempts, found, tables, faults>>

\* The drain goes on to its next row.
Publish ==
    /\ pc = "idle" /\ Ahead # {}
    /\ cursor' = CHOOSE e \in Ahead : \A f \in Ahead : e <= f
    /\ pc' = Branch(history[cursor'])
    /\ runs' = [runs EXCEPT ![cursor'] = @ + 1]
    /\ raised' = FALSE
    /\ UNCHANGED <<history, status, attempts, found, tables, faults>>

\* The batch is done; the next drain fetches from the oldest row again.
NextDrain ==
    /\ pc = "idle" /\ cursor # 0
    /\ cursor' = 0
    /\ UNCHANGED <<history, status, attempts, raised, pc, found, tables, faults,
                   runs>>

Current == history[cursor]

\* The handler raises before it has written anything more.
Raise == pc' = "others" /\ raised' = TRUE /\ UNCHANGED tables

DowntimeRow(e) ==
    [start |-> history[e].at, end |-> Open, lost |-> 0,
     reason |-> history[e].to, corr |-> e]

\* MachineDowntimeRepository.open: an INSERT, whatever is open already.
OpenRow ==
    /\ pc = "opening"
    /\ \/ /\ downtime' = Append(downtime, DowntimeRow(cursor))
          /\ closer' = Append(closer, 0)
          /\ pc' = "others"
          /\ UNCHANGED <<losses, charged, raised, faults>>
       \/ Fault /\ Raise
    /\ UNCHANGED <<history, status, attempts, cursor, found, runs>>

\* Mutant: WHERE machine_id = %s alone.
OpenRows_All == DOMAIN downtime

OpenRows == {i \in DOMAIN downtime : downtime[i].end = Open}

\* ORDER BY start_time DESC, id DESC LIMIT 1
get_open ==
    IF OpenRows = {} THEN NoRow
    ELSE CHOOSE i \in OpenRows : \A j \in OpenRows :
            \/ downtime[j].start < downtime[i].start
            \/ downtime[j].start = downtime[i].start /\ j <= i

\* A DATETIME column comes back naive: `end - start` raises for an aware end.
LookUp ==
    /\ pc = "looking"
    /\ \/ Fault /\ Raise /\ UNCHANGED found
       \/ get_open # NoRow /\ Current.zone = "aware"
          /\ Raise /\ UNCHANGED <<found, faults>>
       \/ /\ get_open = NoRow \/ Current.zone = "naive"
          /\ found' = get_open
          /\ pc' = IF get_open = NoRow THEN "others" ELSE "closing"
          /\ UNCHANGED <<tables, raised, faults>>
    /\ UNCHANGED <<history, status, attempts, cursor, runs>>

\* Mutant: no max(0.0, ...).
Lost_Signed(start, end) == (end - start) * Rate

Lost(start, end) == IF end > start THEN (end - start) * Rate ELSE 0

CloseRow ==
    /\ pc = "closing"
    /\ \/ /\ downtime' = [downtime EXCEPT
                 ![found].end = Current.at,
                 ![found].lost = Lost(downtime[found].start, Current.at)]
          /\ closer' = [closer EXCEPT ![found] = cursor]
          /\ pc' = "charging"
          /\ UNCHANGED <<losses, charged, raised, faults>>
       \/ Fault /\ Raise
    /\ UNCHANGED <<history, status, attempts, cursor, found, runs>>

\* The nested publish of DowntimeClosed: the impact handler records the
\* loss, the recompute scheduler appends its request; either failing fails
\* on_state_changed, after the close was committed.
RecordLoss ==
    /\ losses' = Append(losses, [corr |-> cursor, qty |-> downtime[found].lost])
    /\ charged' = Append(charged, found)

\* Mutant: the handler's failure is logged and swallowed.
Charge_Swallowed ==
    /\ pc = "charging"
    /\ LET lost == downtime[found].lost IN
       \/ lost = 0 /\ UNCHANGED <<losses, charged, faults>>
       \/ lost > 0 /\ RecordLoss /\ UNCHANGED faults
       \/ lost > 0 /\ Fault /\ UNCHANGED <<losses, charged>>
    /\ pc' = "others"
    /\ UNCHANGED <<history, status, attempts, cursor, found, downtime, closer,
                   raised, runs>>

Charge ==
    /\ pc = "charging"
    /\ LET lost == downtime[found].lost IN
       \/ lost = 0 /\ UNCHANGED <<losses, charged, raised, faults>>
       \/ lost > 0 /\ RecordLoss /\ UNCHANGED <<raised, faults>>
       \/ /\ lost > 0 /\ Fault /\ raised' = TRUE
          /\ RecordLoss \/ UNCHANGED <<losses, charged>>
    /\ pc' = "others"
    /\ UNCHANGED <<history, status, attempts, cursor, found, downtime, closer,
                   runs>>

-----------------------------------------------------------------------------
(* The other subscribers of StateChanged, and the relay after the fanout.  *)

Dispatch ==
    /\ status' = [status EXCEPT ![cursor] = "dispatched"]
    /\ UNCHANGED <<attempts, cursor>>

CountFailure ==
    /\ attempts' = [attempts EXCEPT ![cursor] = @ + 1]
    /\ status' = IF attempts'[cursor] >= MAX_ATTEMPTS
                 THEN [status EXCEPT ![cursor] = "dead"]
                 ELSE status
    /\ UNCHANGED cursor

Settle ==
    /\ pc = "others"
    /\ \/ ~raised /\ Dispatch /\ UNCHANGED faults
       \/ raised /\ CountFailure /\ UNCHANGED faults
       \/ ~raised /\ Fault /\ CountFailure        \* another subscriber raised
       \/ /\ Fault /\ cursor' = 0                 \* mark_* raised
          /\ UNCHANGED <<status, attempts>>
    /\ pc' = "idle" /\ raised' = FALSE /\ found' = NoRow
    /\ UNCHANGED <<history, tables, runs>>

\* The process dies and is started again: what was committed stands.
Restart ==
    /\ Fault
    /\ cursor' = 0 /\ pc' = "idle" /\ raised' = FALSE /\ found' = NoRow
    /\ UNCHANGED <<history, status, attempts, tables, runs>>

-----------------------------------------------------------------------------
on_state_changed == OpenRow \/ LookUp \/ CloseRow \/ Charge

Relay == Publish \/ NextDrain \/ on_state_changed \/ Settle

Next ==
    \/ \E to \in {RUN, IDLE, ALARM}, at \in 1..MaxTime, zone \in Zones :
          Transition(to, at, zone)
    \/ Relay
    \/ Restart

Spec == Init /\ [][Next]_vars

-----------------------------------------------------------------------------
(* Properties                                                              *)

TypeOK ==
    /\ history \in Seq([from: VALID_STATES, to: VALID_STATES, at: 1..MaxTime,
                        zone: Zones])
    /\ status \in [Events -> {"pending", "dispatched", "dead"}]
    /\ attempts \in [Events -> 0..MAX_ATTEMPTS]
    /\ cursor \in {0} \cup Events
    /\ pc \in {"idle", "opening", "looking", "closing", "charging", "others"}
    /\ found \in {NoRow} \cup DOMAIN downtime
    /\ raised \in BOOLEAN
    /\ downtime \in Seq([start: 1..MaxTime, end: {Open} \cup 1..MaxTime,
                         lost: Nat, reason: {ALARM, IDLE}, corr: Events])
    /\ losses \in Seq([corr: Events, qty: Nat \ {0}])
    /\ faults \in 0..MaxFaults
    /\ runs \in [Events -> Nat]
    /\ closer \in [DOMAIN downtime -> {0} \cup Events]
    /\ charged \in [DOMAIN losses -> DOMAIN downtime]

\* What MRP subtracts was lost.  Every charge is the lost_qty of one downtime
\* row, charged to the return that closed it, and no row is charged twice.  A
\* stop is charged twice, or a return charges twice, only when it was published
\* twice, which takes a failed publish or a crash; then it may be: neither the
\* INSERT nor the handler looks at the correlation id (capacity_tracker.py).
ChargesAreBacked ==
    /\ \A i \in DOMAIN losses :
          LET row == charged[i] IN
          /\ downtime[row].lost = losses[i].qty
          /\ closer[row] = losses[i].corr
    /\ \A i, j \in DOMAIN losses : i # j =>
          /\ charged[i] # charged[j]
          /\ downtime[charged[i]].corr = downtime[charged[j]].corr =>
                runs[downtime[charged[i]].corr] > 1
          /\ losses[i].corr = losses[j].corr => runs[losses[i].corr] > 1
    /\ \A e \in Events : runs[e] <= attempts[e] + faults + 1

\* What was lost is charged: a closed row of some length without a charge is
\* left only by a return that is not done with, was given up, or was published
\* again (the close is committed before DowntimeClosed is published, and the
\* next publish no longer finds the row).
LossesAreCharged ==
    \A i \in DOMAIN downtime :
        downtime[i].end # Open /\ downtime[i].lost > 0 =>
            \/ \E j \in DOMAIN losses : charged[j] = i
            \/ status[closer[i]] # "dispatched"
            \/ runs[closer[i]] > 1

\* Rows and log agree.  A closed row ends at the time of the return that closed
\* it, which follows its stop in the log unless a publish of it had failed
\* before.  A stop has one row for every publish that reached the INSERT: one at
\* least once it is dispatched, and several only if it was published several
\* times (event_bus.py, outbox_relay.py).
RowsFollowTheLog ==
    /\ \A i \in DOMAIN downtime :
          downtime[i].end # Open =>
              /\ Enters(history[closer[i]])
              /\ history[closer[i]].at = downtime[i].end
              /\ downtime[i].corr < closer[i] \/ attempts[closer[i]] > 0
    /\ \A i, j \in DOMAIN downtime :
          i # j /\ downtime[i].corr = downtime[j].corr =>
              runs[downtime[i].corr] > 1
    /\ \A e \in Events :
          status[e] = "dispatched" /\ Leaves(history[e]) =>
              \E i \in DOMAIN downtime : downtime[i].corr = e

Delivered == {e \in Events : status[e] # "pending"}
Undisturbed == faults = 0 /\ \A e \in Events : attempts[e] = 0

\* The reference: every stop opens an interval that the first return to RUN
\* after it closes, and every interval of positive length is charged to that
\* return.
Stops == {e \in Delivered : Leaves(history[e])}
ReturnsAfter(s) == {r \in Delivered : r > s /\ history[r].to = RUN}
Returned == {s \in Stops : ReturnsAfter(s) # {}}
ReturnOf(s) == CHOOSE r \in ReturnsAfter(s) : \A q \in ReturnsAfter(s) : r <= q
LostIn(s) == Lost(history[s].at, history[ReturnOf(s)].at)

ExpectedRows ==
    {DowntimeRow(s) : s \in Stops \ Returned}
    \cup {[DowntimeRow(s) EXCEPT !.end = history[ReturnOf(s)].at,
                                 !.lost = LostIn(s)] : s \in Returned}

ExpectedCharges ==
    {[corr |-> ReturnOf(s), qty |-> LostIn(s)] :
        s \in {t \in Returned : LostIn(t) > 0}}

HoldsExactly(rows, set) ==
    /\ {rows[i] : i \in DOMAIN rows} = set
    /\ Len(rows) = Cardinality(set)

\* While nothing fails the ledger is the function of the history that the
\* reference defines, whatever the clocks said: rows and charges, no more and
\* no less.
UndisturbedLedgerIsExact ==
    Undisturbed /\ pc = "idle" =>
        HoldsExactly(downtime, ExpectedRows) /\ HoldsExactly(losses, ExpectedCharges)

\* "Downtime ends when the machine returns to RUN." (capacity_tracker.py):
\* once a return is done with, no stop before it has an open row.
DowntimeEnds ==
    \A e \in Delivered :
        Enters(history[e]) =>
            \A i \in OpenRows : downtime[i].corr > e
=============================================================================
