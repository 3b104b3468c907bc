---------------------------- MODULE StateMachine ----------------------------
(***************************************************************************)
(* The host's finite state machine, services/state_machine.py.             *)
(*                                                                         *)
(* StateMachine.advance is a pure function from a requested transition to  *)
(* the domain events the transition produces.  Events are records of one   *)
(* shape; a field an event class does not have holds NoState, 0 or the     *)
(* caller's "no click" value.  alid is `alid or 0` in the code, so an      *)
(* absent ALID and 0 are the same number in every event.                   *)
(***************************************************************************)
EXTENDS Naturals, Sequences

IDLE    == "IDLE"
RUN     == "RUN"
ALARM   == "ALARM"
UNKNOWN == "UNKNOWN"

VALID_STATES == {IDLE, RUN, ALARM, UNKNOWN}

NoState == "NONE"          \* Python None where a state is expected
NoAlid  == 0               \* `alid or 0` of an absent ALID

EVENT_TYPES == {"StateChanged", "AlarmTriggered", "AlarmReset",
                "MachineHeartbeat", "HostCommandRequested",
                "HostCommandDispatched", "HostCommandRejected"}

\* One row of the event log.  corr is the correlation id: the click that
\* caused the event, or the caller's "no click" for a sensor-driven one.
Event(type, from, to, alid, at, corr) ==
    [type |-> type, from |-> from, to |-> to, alid |-> alid,
     at |-> at, corr |-> corr]

StateChanged(from, to, at, corr) ==
    Event("StateChanged", from, to, NoAlid, at, corr)

AlarmTriggered(alid, at, corr) ==
    Event("AlarmTriggered", NoState, NoState, alid, at, corr)

AlarmReset(from, to, alid, at, corr) ==
    Event("AlarmReset", from, to, alid, at, corr)

\* Mutant: recovery is only recognised on the way to RUN.
advance_NoResetToIdle(from, to, alid, at, corr) ==
    IF from = to
    THEN <<>>
    ELSE <<StateChanged(from, to, at, corr)>>
         \o (IF to = ALARM
             THEN <<AlarmTriggered(alid, at, corr)>>
             ELSE <<>>)
         \o (IF from = ALARM /\ to = RUN
             THEN <<AlarmReset(from, to, alid, at, corr)>>
             ELSE <<>>)

\* The events of one transition, in the order advance() appends them.  An
\* empty sequence is TransitionResult(changed=False).
advance(from, to, alid, at, corr) ==
    IF from = to
    THEN <<>>
    ELSE <<StateChanged(from, to, at, corr)>>
         \o (IF to = ALARM
             THEN <<AlarmTriggered(alid, at, corr)>>
             ELSE <<>>)
         \o (IF from = ALARM /\ to \in {RUN, IDLE}
             THEN <<AlarmReset(from, to, alid, at, corr)>>
             ELSE <<>>)

\* Positions of the StateChanged rows of a log.
StateRows(log) == {i \in DOMAIN log : log[i].type = "StateChanged"}

\* EventStore.latest_state_for: to_state of the StateChanged row with the
\* highest event_seq, or UNKNOWN (registry: `... or UNKNOWN`).
latest_state_for(log) ==
    IF StateRows(log) = {}
    THEN UNKNOWN
    ELSE log[CHOOSE i \in StateRows(log) :
                 \A j \in StateRows(log) : j <= i].to
=============================================================================
