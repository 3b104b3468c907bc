------------------------------ MODULE ReadModels ------------------------------
(***************************************************************************)
(* What the dashboard reads of one machine: its row of machine_status_view *)
(* (ReadModelProjector) and its rows of alarm_view (AlarmProjector), fed   *)
(* by the relay from the log that the actor and the acknowledge route      *)
(* append to.                                                              *)
(*                                                                         *)
(* Every handler is one SQL statement in one transaction, and only the     *)
(* relay's thread runs them: a publish is one step, in which any of the    *)
(* two may fail, or the process die, before or after the other.            *)
(***************************************************************************)
EXTENDS StateMachine, OutboxWalk, Integers, FiniteSets

CONSTANTS
    Alids,         \* ALIDs of infer_state and of ABORT
    NoClick,       \* correlation ids are not read by these views
    MaxLag,        \* how far behind the last event's time one may be stamped
    MaxBatches,    \* bound: batches appended
    MaxTime        \* bound: event times

ASSUME ViewAssumption ==
    /\ Alids \subseteq Nat \ {NoAlid}
    /\ MaxLag \in Nat
    /\ MaxBatches \in Nat
    /\ MaxTime \in Nat \ {0}

VARIABLES
    batches,   \* append_many calls so far
    machine,   \* the machine's row of machine_status_view, or NoRow
    alarms     \* its rows of alarm_view, by ALID

views == <<machine, alarms>>
vars  == <<walkVars, batches, views>>

NULL  == 0          \* of a DATETIME or an ALID column; times start at 1
NoRow == [state |-> NoState, eventAt |-> NULL, alid |-> NULL]
NoAlarm == [triggered |-> NULL, seen |-> NULL, cleared |-> NULL, acked |-> NULL]

Later(s, t) == IF s >= t THEN s ELSE t    \* GREATEST

Init ==
    /\ WalkInit
    /\ batches = 0
    /\ machine = NoRow
    /\ alarms = [a \in Alids |-> NoAlarm]

-----------------------------------------------------------------------------
(* The writers of the log.                                                 *)

LastTime == IF log = <<>> THEN 0 ELSE log[Len(log)].at

AppendBatch(events) ==
    /\ batches < MaxBatches
    /\ batches' = batches + 1
    /\ append_many(events)
    /\ UNCHANGED <<views, faults>>

\* A MachineActor's transition.  Only an ALARM has an ALID: infer_state and
\* CommandService give none with RUN or IDLE.
Transition(to, alid, at) ==
    /\ to # latest_state_for(log)
    /\ to = ALARM <=> alid # NoAlid
    /\ at + MaxLag >= LastTime
    /\ AppendBatch(advance(latest_state_for(log), to, alid, at, NoClick))

AlarmAcknowledged(alid, at) ==
    Event("AlarmAcknowledged", NoState, NoState, alid, at, NoClick)

\* POST /api/alarms/<id>/ack: 404 unless alarm_view has the row.
Acknowledge(alid, at) ==
    /\ alarms[alid] # NoAlarm
    /\ at + MaxLag >= LastTime
    /\ AppendBatch(<<AlarmAcknowledged(alid, at)>>)

-----------------------------------------------------------------------------
(* ReadModelProjector                                                      *)

\* Mutant: a plain upsert.
MachineOnState_Ungated(row, ev) ==
    [row EXCEPT !.state = ev.to, !.eventAt = ev.at]

MachineOnState(row, ev) ==
    [row EXCEPT !.state = IF ev.at >= row.eventAt THEN ev.to ELSE @,
                !.eventAt = Later(ev.at, @)]

\* UPDATE ... WHERE last_event_at <= at; no row, no update.
MachineOnAlarm(row, ev, alid) ==
    IF row = NoRow \/ row.eventAt > ev.at THEN row
    ELSE [row EXCEPT !.alid = alid, !.eventAt = ev.at]

ProjectMachine(row, ev) ==
    CASE ev.type = "StateChanged"   -> MachineOnState(row, ev)
      [] ev.type = "AlarmTriggered" -> MachineOnAlarm(row, ev, ev.alid)
      [] ev.type = "AlarmReset"     -> MachineOnAlarm(row, ev, NULL)
      [] OTHER                      -> row

-----------------------------------------------------------------------------
(* AlarmProjector                                                          *)

ReArmed(row, ev) == row.cleared # NULL /\ ev.at >= row.cleared

\* Mutant: last_seen_at follows whatever event comes.
AlarmOnTriggered_LastComes(row, ev) ==
    IF row = NoAlarm
    THEN [NoAlarm EXCEPT !.triggered = ev.at, !.seen = ev.at]
    ELSE [row EXCEPT !.seen = ev.at]

AlarmOnTriggered(row, ev) ==
    IF row = NoAlarm
    THEN [NoAlarm EXCEPT !.triggered = ev.at, !.seen = ev.at]
    ELSE [row EXCEPT !.triggered = IF ReArmed(row, ev) THEN ev.at ELSE @,
                     !.cleared   = IF ReArmed(row, ev) THEN NULL ELSE @,
                     !.seen      = Later(ev.at, @)]

AlarmOnReset(row, ev) ==
    [row EXCEPT !.cleared = Later(ev.at, @), !.seen = Later(ev.at, @)]

AlarmOnAcknowledged(row, ev) ==
    [row EXCEPT !.acked = IF @ = NULL THEN ev.at ELSE @]

\* All but the INSERT are UPDATEs of the row with the event's ALID.
ProjectAlarm(row, ev) ==
    IF ev.type = "AlarmTriggered" THEN AlarmOnTriggered(row, ev)
    ELSE IF row = NoAlarm THEN row
    ELSE CASE ev.type = "AlarmReset"        -> AlarmOnReset(row, ev)
           [] ev.type = "AlarmAcknowledged" -> AlarmOnAcknowledged(row, ev)
           [] OTHER                         -> row

ProjectAlarms(ev) ==
    [a \in Alids |-> IF ev.alid = a THEN ProjectAlarm(alarms[a], ev)
                     ELSE alarms[a]]

-----------------------------------------------------------------------------
(* The relay                                                               *)

Absorb(ev, who) ==
    /\ machine' = IF "machine" \in who THEN ProjectMachine(machine, ev) ELSE machine
    /\ alarms' = IF "alarms" \in who THEN ProjectAlarms(ev) ELSE alarms

Both == {"machine", "alarms"}

Deliver ==
    /\ Ahead # {}
    /\ Absorb(log[NextRow], Both)
    /\ SettleDispatched(<<>>)
    /\ UNCHANGED <<batches, faults>>

\* A handler raises; another subscriber's failure is who = Both.
DeliverFails ==
    /\ Ahead # {}
    /\ Fault
    /\ \E who \in SUBSET Both : Absorb(log[NextRow], who)
    /\ SettleFailed(<<>>)
    /\ UNCHANGED batches

NextDrain == StartOver /\ UNCHANGED <<batches, views>>

\* A crash or a failing mark_*, with some of the handlers done.
Interrupt ==
    /\ Fault
    /\ \/ Ahead # {} /\ \E who \in SUBSET Both : Absorb(log[NextRow], who)
       \/ UNCHANGED views
    /\ SettleNot(<<>>)
    /\ UNCHANGED batches

-----------------------------------------------------------------------------
Next ==
    \/ \E to \in {RUN, IDLE, ALARM}, alid \in Alids \cup {NoAlid},
          at \in 1..MaxTime : Transition(to, alid, at)
    \/ \E alid \in Alids, at \in 1..MaxTime : Acknowledge(alid, at)
    \/ Deliver \/ DeliverFails \/ NextDrain \/ Interrupt

Spec == Init /\ [][Next]_vars

-----------------------------------------------------------------------------
(* Properties                                                              *)

DateTime == 0..MaxTime

\* Every variable has its type; a row's clock is never behind its columns.
TypeOK ==
    /\ batches \in 0..MaxBatches
    /\ WalkTypeOK
    /\ machine \in [state: {RUN, IDLE, ALARM, NoState}, eventAt: DateTime,
                    alid: Alids \cup {NULL}]
    /\ alarms \in [Alids -> [triggered: DateTime, seen: DateTime,
                             cleared: DateTime, acked: DateTime]]
    /\ \A a \in Alids : /\ alarms[a].triggered <= alarms[a].seen
                        /\ alarms[a].cleared <= alarms[a].seen

StateEvents == {e \in Events : log[e].type = "StateChanged"}
Newest(S) == {e \in S : \A f \in S : log[f].at <= log[e].at}

NoneDead == \A e \in Events : status[e] # "dead"
ClocksAgree == \A e, f \in Events : e < f => log[e].at <= log[f].at

\* The machine view converges: whatever was retried, repeated, reordered or
\* interrupted, once nothing is pending or dead-lettered it shows a state the
\* log holds with the newest time, and in a log without ties or lag that is
\* the machine's state (read_model_projector.py, time-gated upserts).
StateViewConverges ==
    Quiet /\ NoneDead /\ StateEvents # {} =>
        /\ \E e \in Newest(StateEvents) : machine.state = log[e].to
        /\ \A e \in StateEvents : machine.eventAt >= log[e].at

Raised(a) == {e \in Events : log[e].type = "AlarmTriggered" /\ log[e].alid = a}

\* The alarm view loses no alarm and no acknowledgement and converges: an alarm
\* raised and delivered has a row, whose last_seen_at is the newest of its
\* occurrences, and which is acknowledged once an acknowledgement is delivered,
\* however the alarm's own delivery went.
AlarmViewConverges ==
    /\ \A a \in Alids :
          (\A e \in Raised(a) : status[e] = "dispatched") =>
              /\ Raised(a) # {} <=> alarms[a] # NoAlarm
              /\ \A e \in Newest(Raised(a)) : alarms[a].seen = log[e].at
    /\ \A e \in Events :
          log[e].type = "AlarmAcknowledged" /\ status[e] = "dispatched" =>
              alarms[log[e].alid].acked # NULL

\* The picture in alarm_projector.py: "ACTIVE -- AlarmReset --> CLEARED".  An
\* alarm is active in the view only while the machine is in ALARM.
AlarmsClear ==
    Quiet /\ faults = 0 /\ ClocksAgree /\ latest_state_for(log) # ALARM =>
        \A a \in Alids : alarms[a] = NoAlarm \/ alarms[a].cleared # NULL
=============================================================================
