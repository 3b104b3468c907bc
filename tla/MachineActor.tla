---------------------------- MODULE MachineActor ----------------------------
(***************************************************************************)
(* One MachineActor (services/machine_actor.py) with everything that       *)
(* touches its state: the ingest loop that offers samples, the Flask       *)
(* threads of CommandService.issue that read current_state and offer       *)
(* ControlActions, the event store both append to, and the registry that   *)
(* rehydrates the actor after a restart.                                   *)
(*                                                                         *)
(* Actors of different machines share nothing but the append-only store,   *)
(* so one machine is modelled.  append_many draws AUTO_INCREMENT numbers   *)
(* row by row while other connections insert too, so event_seq orders what *)
(* one thread appends, and rows of another may fall in between.  The rows  *)
(* are kept per author: log holds the actor's, and trail[c] those of the   *)
(* thread that serves click c.  The actor alone writes StateChanged rows.  *)
(* _last_alid is written and never read: it is left out.                   *)
(***************************************************************************)
EXTENDS StateMachine, FiniteSets

CONSTANTS
    Clicks,            \* requests to POST /api/machines/<id>/command
    Issued,            \* commands they may carry
    NoClick,           \* correlation id of a sensor-driven event
    SensorAlids,       \* ALIDs infer_state can return
    AbortAlid,         \* _ABORT_ALID
    MailboxSize,       \* MachineActorConfig.mailbox_size
    HeartbeatInterval, \* _HEARTBEAT_INTERVAL_S
    Gaps,              \* seconds that may pass before the next sample
    MaxTime,           \* bound: the clock stops here
    Faults             \* which faults the environment may inject

FaultKinds == {"append",  \* append_many raises and rolls back
               "crash",    \* the process dies; it may be started again
               "stop"}     \* registry.stop_all() while Flask still serves

ASSUME ActorAssumption ==
    /\ NoClick \notin Clicks
    /\ SensorAlids \subseteq Nat
    /\ AbortAlid \in Nat
    /\ MailboxSize \in Nat \ {0}
    /\ HeartbeatInterval \in Nat
    /\ Gaps \subseteq Nat
    /\ MaxTime \in Nat
    /\ Faults \subseteq FaultKinds

VARIABLES
    log,       \* event_store rows the actor appends, in event_seq order
    trail,     \* those each click's thread appends, in event_seq order
    state,     \* MachineActor._state
    hold,      \* MachineActor._operator_hold
    lastHb,    \* MachineActor._last_heartbeat_at
    mailbox,   \* MachineActor._mailbox
    task,      \* the actor's asyncio task, and whether the process lives
    pc,        \* where the task stands in its loop
    work,      \* the mailbox item being handled
    click,     \* progress of each CommandService.issue call
    clock      \* utcnow()

actorVars == <<state, hold, lastHb, mailbox, task, pc, work>>
vars == <<log, trail, actorVars, click, clock>>

NoTime == 0 - 1    \* _last_heartbeat_at is None

-----------------------------------------------------------------------------
(* Commands: the _TRANSITIONS table.                                       *)

COMMANDS == {"START", "STOP", "PAUSE", "RESUME", "RESET", "ABORT"}

ASSUME IssuedAssumption == Issued \subseteq COMMANDS

AllowedFrom(cmd) ==
    CASE cmd = "START"             -> {IDLE, UNKNOWN, ALARM}
      [] cmd \in {"STOP", "PAUSE"} -> {RUN}
      [] cmd = "RESUME"            -> {IDLE, UNKNOWN}
      [] cmd = "RESET"             -> {ALARM}
      [] cmd = "ABORT"             -> {RUN, IDLE, UNKNOWN}

ToState(cmd) ==
    CASE cmd \in {"START", "RESUME", "RESET"} -> RUN
      [] cmd \in {"STOP", "PAUSE"}            -> IDLE
      [] cmd = "ABORT"                        -> ALARM

HoldsState(cmd) == cmd \in {"STOP", "PAUSE", "ABORT"}

CommandAlid(cmd) == IF cmd = "ABORT" THEN AbortAlid ELSE NoAlid

-----------------------------------------------------------------------------
(* Mailbox items.  A sample carries the state infer_state maps its metrics *)
(* to; an unreadable one lacks the metrics infer_state indexes.            *)

Item(kind, to, alid, at, c) ==
    [kind |-> kind, to |-> to, alid |-> alid, at |-> at, click |-> c]

Stop == Item("stop", NoState, NoAlid, 0, NoClick)

Readings == [kind: {"sample"}, to: {RUN, IDLE}, alid: {NoAlid}]
            \cup [kind: {"sample"}, to: {ALARM}, alid: SensorAlids]
            \cup [kind: {"unreadable"}, to: {NoState}, alid: {NoAlid}]

Sample(r, at) == Item(r.kind, r.to, r.alid, at, NoClick)

ControlAction(c) ==
    Item("control", ToState(click[c].cmd), CommandAlid(click[c].cmd),
         click[c].at, c)

\* Mutant: a queue that takes one item more than its size.
HasRoom_OffByOne == Len(mailbox) <= MailboxSize

HasRoom == Len(mailbox) < MailboxSize
Running == task = "running"
Alive   == task # "down"

\* Idle form of work between two items.
NoWork == Stop

-----------------------------------------------------------------------------
(* EventStore.append_many: one transaction for the whole batch.            *)

append_many(batch) == log' = log \o batch /\ UNCHANGED trail

\* The same call on the thread that serves click c.
append_by(c, batch) ==
    trail' = [trail EXCEPT ![c] = @ \o batch] /\ UNCHANGED log

AppendRollsBack == "append" \in Faults /\ UNCHANGED <<log, trail>>

-----------------------------------------------------------------------------
Init ==
    /\ log = <<>>
    /\ trail = [c \in Clicks |-> <<>>]
    /\ state = UNKNOWN
    /\ hold = NoState
    /\ lastHb = NoTime
    /\ mailbox = <<>>
    /\ task = "running"
    /\ pc = "idle"
    /\ work = NoWork
    /\ click = [c \in Clicks |->
                   [phase |-> "new", cmd |-> "START", seen |-> UNKNOWN, at |-> 0]]
    /\ clock = 0

-----------------------------------------------------------------------------
(* The ingest loop: MachineActor.offer blocks while the mailbox is full.   *)

OfferSample(gap, r) ==
    /\ Running /\ HasRoom
    /\ clock + gap <= MaxTime
    /\ clock' = clock + gap
    /\ mailbox' = Append(mailbox, Sample(r, clock'))
    /\ UNCHANGED <<log, trail, state, hold, lastHb, task, pc, work, click>>

-----------------------------------------------------------------------------
(* CommandService.issue, on a Flask thread: read current_state, append the *)
(* request, decide on the state read before, schedule offer_control.       *)

SetPhase(c, p) == click' = [click EXCEPT ![c].phase = p]

ReadState(c, cmd) ==
    /\ Alive
    /\ click[c].phase = "new"
    /\ click' = [click EXCEPT ![c] =
                    [phase |-> "read", cmd |-> cmd, seen |-> state, at |-> clock]]
    /\ UNCHANGED <<log, trail, actorVars, clock>>

CommandEvent(type, c, from, to) ==
    Event(type, from, to, NoAlid, click[c].at, c)

Requested(c) ==
    <<CommandEvent("HostCommandRequested", c, NoState, ToState(click[c].cmd))>>

AppendRequested(c) ==
    /\ click[c].phase = "read"
    /\ \/ append_by(c, Requested(c)) /\ SetPhase(c, "requested")
       \/ AppendRollsBack /\ SetPhase(c, "lost")
    /\ UNCHANGED <<actorVars, clock>>

Rejected(c) ==
    <<CommandEvent("HostCommandRejected", c, click[c].seen, NoState)>>

Reject(c) ==
    /\ click[c].phase = "requested"
    /\ click[c].seen \notin AllowedFrom(click[c].cmd)
    /\ \/ append_by(c, Rejected(c)) /\ SetPhase(c, "rejected")
       \/ AppendRollsBack /\ SetPhase(c, "lost")
    /\ UNCHANGED <<actorVars, clock>>

\* run_coroutine_threadsafe: the caller answers 202 and never looks back.
Accept(c) ==
    /\ click[c].phase = "requested"
    /\ click[c].seen \in AllowedFrom(click[c].cmd)
    /\ SetPhase(c, "accepted")
    /\ UNCHANGED <<log, trail, actorVars, clock>>

\* Mutant: put_nowait, with a full mailbox ignored.
OfferControl_Drops(c) ==
    /\ click[c].phase = "accepted"
    /\ mailbox' = IF HasRoom THEN Append(mailbox, ControlAction(c)) ELSE mailbox
    /\ SetPhase(c, "queued")
    /\ UNCHANGED <<log, trail, state, hold, lastHb, task, pc, work, clock>>

\* Mutant: the route retries an offer that had been taken.
OfferControl_Retries(c) ==
    /\ click[c].phase \in {"accepted", "queued"}
    /\ HasRoom
    /\ mailbox' = Append(mailbox, ControlAction(c))
    /\ SetPhase(c, IF click[c].phase = "queued" THEN "lost" ELSE "queued")
    /\ UNCHANGED <<log, trail, state, hold, lastHb, task, pc, work, clock>>

\* offer_control runs on the loop, whether or not the task still does.
OfferControl(c) ==
    /\ click[c].phase = "accepted"
    /\ HasRoom
    /\ mailbox' = Append(mailbox, ControlAction(c))
    /\ SetPhase(c, "queued")
    /\ UNCHANGED <<log, trail, state, hold, lastHb, task, pc, work, clock>>

-----------------------------------------------------------------------------
(* MachineActor._run: one item at a time.                                  *)

TakeItem ==
    /\ Running /\ pc = "idle" /\ mailbox # <<>>
    /\ mailbox' = Tail(mailbox)
    /\ IF Head(mailbox) = Stop
       THEN task' = "stopped" /\ UNCHANGED <<pc, work>>
       ELSE work' = Head(mailbox) /\ pc' = "handling" /\ UNCHANGED task
    /\ UNCHANGED <<log, trail, state, hold, lastHb, click, clock>>

NextItem == pc' = "idle" /\ work' = NoWork

Handling(kind) == Running /\ pc = "handling" /\ work.kind = kind

\* infer_state raises KeyError, which the loop logs: the item is lost.
SkipUnreadable ==
    /\ Handling("unreadable")
    /\ NextItem
    /\ UNCHANGED <<log, trail, state, hold, lastHb, mailbox, task, click, clock>>

-----------------------------------------------------------------------------
(* _handle_sync: a telemetry sample.                                       *)

\* Mutant: the hold is looked at before the sample is inferred, as it was
\* before 2026-05-04.
Suppressed_Early == hold # NoState

\* Mutant: only RUN is kept from a held tool.
Suppressed_RunOnly == hold # NoState /\ work.to = RUN

\* An operator hold suppresses everything but an ALARM-class sample.
Suppressed == hold # NoState /\ work.to # ALARM

\* Mutant: the hold outlives the alarm that overrides it.
HoldAfterSample_Kept == hold

\* An ALARM-class sample drops the hold, before the FSM is asked and
\* before anything is stored.
HoldAfterSample == IF work.to = ALARM THEN NoState ELSE hold

\* Mutant: the transition starts from the state CommandService validated.
Transitions_FromSeen ==
    advance(IF work.click \in Clicks THEN click[work.click].seen ELSE state,
            work.to, work.alid, work.at, work.click)

Transitions == advance(state, work.to, work.alid, work.at, work.click)

SampleMoves == Handling("sample") /\ ~Suppressed /\ Transitions # <<>>
SampleQuiet == Handling("sample") /\ (Suppressed \/ Transitions = <<>>)

\* append_many commits; the in-memory state follows in Finish.
CommitSample ==
    /\ SampleMoves
    /\ append_many(Transitions)
    /\ hold' = HoldAfterSample
    /\ pc' = "committed"
    /\ UNCHANGED <<state, lastHb, mailbox, task, work, click, clock>>

SampleAppendFails ==
    /\ SampleMoves
    /\ AppendRollsBack
    /\ hold' = HoldAfterSample
    /\ NextItem
    /\ UNCHANGED <<state, lastHb, mailbox, task, click, clock>>

\* _maybe_emit_heartbeat
HeartbeatDue == lastHb = NoTime \/ work.at - lastHb >= HeartbeatInterval
Heartbeat    == <<Event("MachineHeartbeat", NoState, NoState, NoAlid,
                        work.at, NoClick)>>

QuietSample ==
    /\ SampleQuiet
    /\ hold' = HoldAfterSample
    /\ \/ ~HeartbeatDue /\ UNCHANGED <<log, trail, lastHb>>
       \/ HeartbeatDue /\ append_many(Heartbeat) /\ lastHb' = work.at
       \/ HeartbeatDue /\ AppendRollsBack /\ UNCHANGED lastHb
    /\ NextItem
    /\ UNCHANGED <<state, mailbox, task, click, clock>>

-----------------------------------------------------------------------------
(* _handle_control_sync: an operator command.  The state it was validated  *)
(* against is not looked at again.                                         *)

Dispatched ==
    CommandEvent("HostCommandDispatched", work.click, state, work.to)

ControlBatch == <<Dispatched>> \o Transitions

CommitControl ==
    /\ Handling("control")
    /\ append_many(ControlBatch)
    /\ pc' = "committed"
    /\ UNCHANGED <<state, hold, lastHb, mailbox, task, work, click, clock>>

ControlAppendFails ==
    /\ Handling("control")
    /\ AppendRollsBack
    /\ NextItem
    /\ UNCHANGED <<state, hold, lastHb, mailbox, task, click, clock>>

\* The assignments after a successful append_many, of either handler; a
\* command that changed nothing leaves all three alone.
Finish ==
    /\ Running /\ pc = "committed"
    /\ IF Transitions # <<>>
       THEN /\ state' = work.to
            /\ lastHb' = work.at
            /\ hold' = IF work.kind = "sample" THEN hold
                       ELSE IF HoldsState(click[work.click].cmd) THEN work.to
                       ELSE NoState
       ELSE UNCHANGED <<state, lastHb, hold>>
    /\ NextItem
    /\ UNCHANGED <<log, trail, mailbox, task, click, clock>>

-----------------------------------------------------------------------------
(* Shutdown, crash and restart.                                            *)

\* MachineActor.stop: the sentinel queues behind what is already there.
StopActor ==
    /\ "stop" \in Faults /\ Running /\ HasRoom
    /\ \A i \in DOMAIN mailbox : mailbox[i] # Stop
    /\ mailbox' = Append(mailbox, Stop)
    /\ UNCHANGED <<log, trail, state, hold, lastHb, task, pc, work, click, clock>>

\* Everything in memory is gone; the store survives.
Crash ==
    /\ "crash" \in Faults /\ Alive
    /\ task' = "down"
    /\ mailbox' = <<>>
    /\ NextItem
    /\ click' = [c \in Clicks |->
                    IF click[c].phase \in {"read", "requested", "accepted"}
                    THEN [click[c] EXCEPT !.phase = "lost"]
                    ELSE click[c]]
    /\ UNCHANGED <<log, trail, state, hold, lastHb, clock>>

\* Mutant: the registry starts every actor from UNKNOWN.
Restart_Cold ==
    /\ "crash" \in Faults /\ task = "down"
    /\ task' = "running"
    /\ state' = UNKNOWN
    /\ hold' = NoState
    /\ lastHb' = NoTime
    /\ UNCHANGED <<log, trail, mailbox, pc, work, click, clock>>

\* MachineActorRegistry.register rehydrates _state and nothing else.
Restart ==
    /\ "crash" \in Faults /\ task = "down"
    /\ task' = "running"
    /\ state' = latest_state_for(log)
    /\ hold' = NoState
    /\ lastHb' = NoTime
    /\ UNCHANGED <<log, trail, mailbox, pc, work, click, clock>>

-----------------------------------------------------------------------------
Handle ==
    \/ TakeItem \/ SkipUnreadable
    \/ CommitSample \/ SampleAppendFails \/ QuietSample
    \/ CommitControl \/ ControlAppendFails \/ Finish

Issue(c) ==
    \/ AppendRequested(c) \/ Reject(c) \/ Accept(c) \/ OfferControl(c)

Next ==
    \/ \E gap \in Gaps, r \in Readings : OfferSample(gap, r)
    \/ \E c \in Clicks, cmd \in Issued : ReadState(c, cmd)
    \/ \E c \in Clicks : Issue(c)
    \/ Handle
    \/ StopActor \/ Crash \/ Restart

Spec == Init /\ [][Next]_vars

\* The event loop keeps running a task that has work, and a Flask thread
\* that has started a request runs it to its end.  Samples, clicks, faults
\* and restarts are the environment's and may never come.
FairSpec == Spec /\ WF_vars(Handle) /\ \A c \in Clicks : WF_vars(Issue(c))
-----------------------------------------------------------------------------
(* Types.                                                                  *)

Times == Nat \cup {NoTime}
Alids == {NoAlid, AbortAlid} \cup SensorAlids

EventRows == [type: EVENT_TYPES, from: VALID_STATES \cup {NoState},
              to: VALID_STATES \cup {NoState}, alid: Alids, at: Nat,
              corr: Clicks \cup {NoClick}]

Items == [kind: {"sample"}, to: {RUN, IDLE, ALARM}, alid: Alids, at: Nat,
          click: {NoClick}]
         \cup [kind: {"control"}, to: {RUN, IDLE, ALARM}, alid: Alids,
               at: Nat, click: Clicks]
         \cup [kind: {"unreadable"}, to: {NoState}, alid: {NoAlid}, at: Nat,
               click: {NoClick}]
         \cup {Stop}

Phases == {"new", "read", "requested", "rejected", "accepted", "queued", "lost"}

\* Every variable has the type its declaration names.
TypeOK ==
    /\ log \in Seq(EventRows)
    /\ trail \in [Clicks -> Seq(EventRows)]
    /\ state \in VALID_STATES
    /\ hold \in {IDLE, ALARM, NoState}
    /\ lastHb \in Times
    /\ mailbox \in Seq(Items) /\ Len(mailbox) <= MailboxSize
    /\ task \in {"running", "stopped", "down"}
    /\ pc \in {"idle", "handling", "committed"}
    /\ work \in Items
    /\ click \in [Clicks -> [phase: Phases, cmd: COMMANDS,
                             seen: VALID_STATES, at: Nat]]
    /\ clock \in Nat

-----------------------------------------------------------------------------
(* Safety.                                                                 *)

\* The actor's opinion of the tool is the one the log would rehydrate:
\* outside the window between a commit and the assignments that follow it,
\* _state is the to_state of the last StateChanged row, whatever failed,
\* crashed or restarted before; inside the window the log is ahead by
\* exactly the item in hand.  (machine_actor.py commits, then advances.)
StateIsCommitted ==
    Running => latest_state_for(log) = IF pc = "committed" THEN work.to
                                                           ELSE state

\* No StateChanged row of l strictly between positions i and j.
NoStateRowBetween(l, i, j) == \A k \in StateRows(l) : k <= i \/ j <= k

Chain(l) ==
    \A j \in StateRows(l) :
        /\ l[j].from # l[j].to
        /\ l[j].from = UNKNOWN \/ \E i \in StateRows(l) : i < j
        /\ \A i \in StateRows(l) :
              i < j /\ NoStateRowBetween(l, i, j) => l[i].to = l[j].from

\* The StateChanged rows of one machine form a chain: each is a real
\* change, starts where the previous one ended, and the first starts from
\* UNKNOWN, so the history can be replayed from the log alone.
ChainContiguous == Chain(log)

AlarmRows(l) == {i \in DOMAIN l : l[i].type \in {"AlarmTriggered", "AlarmReset"}}

\* The last alarm row of l, if any, raises rather than resets.
AlarmOpenIn(l) ==
    \E i \in AlarmRows(l) : /\ l[i].type = "AlarmTriggered"
                            /\ \A j \in AlarmRows(l) : j <= i

\* The alarm rows say the same as the state rows: an alarm is open in the
\* log exactly while the tool's last state is ALARM.  A projector fed by
\* AlarmTriggered and AlarmReset alone cannot drift from one fed by
\* StateChanged.
AlarmOpenIffAlarm == AlarmOpenIn(log) <=> latest_state_for(log) = ALARM

\* An operator hold names the state the tool is in: nothing moves a held
\* tool and leaves the hold behind.
HoldMatchesState == Running /\ hold # NoState => hold = state

Rows(l, c, types) == {i \in DOMAIN l : l[i].corr = c /\ l[i].type \in types}

\* The audit trail of a click, written by two threads: at most one request;
\* at most one answer, be it the thread's Rejected or the actor's
\* Dispatched, and none without a request; and a transition of the tool only
\* as the actor's next row after that dispatch, from and to the states the
\* dispatch names.
ClickAudit ==
    \A c \in Clicks :
        LET requests   == Rows(trail[c], c, {"HostCommandRequested"})
            refusals   == Rows(trail[c], c, {"HostCommandRejected"})
            dispatches == Rows(log, c, {"HostCommandDispatched"})
        IN  /\ \A i, j \in requests : i = j
            /\ \A i, j \in refusals : i = j
            /\ \A i, j \in dispatches : i = j
            /\ refusals = {} \/ dispatches = {}
            /\ \A j \in refusals : \E i \in requests : i < j
            /\ dispatches # {} => requests # {}
            /\ \A j \in Rows(log, c, {"StateChanged"}) :
                  /\ j - 1 \in dispatches
                  /\ log[j - 1].from = log[j].from
                  /\ log[j - 1].to = log[j].to

\* "An operator-issued state command that has already been validated by
\* CommandService against the current state" (ControlAction): a command
\* moves the tool only from a state it is allowed from.
CommandsApplyWhereAllowed ==
    \A c \in Clicks : \A i \in Rows(log, c, {"StateChanged"}) :
        log[i].from \in AllowedFrom(click[c].cmd)

-----------------------------------------------------------------------------
(* Liveness, under FairSpec and without faults.                            *)

\* An ALARM-class sample the actor has taken reaches the log as ALARM,
\* hold or no hold: operator state cannot mask a safety alarm.
AlarmNeverMasked ==
    (Handling("sample") /\ work.to = ALARM) ~> (latest_state_for(log) = ALARM)

\* Every click that was read by CommandService is answered in the log.
ClickAnswered ==
    \A c \in Clicks :
        (click[c].phase = "read") ~>
            \/ Rows(trail[c], c, {"HostCommandRejected"}) # {}
            \/ Rows(log, c, {"HostCommandDispatched"}) # {}
-----------------------------------------------------------------------------
(* What the actor implements.                                              *)

\* The hold as of the last committed batch: Finish has yet to assign it
\* when pc is "committed", and a dead process holds nothing.
CommittedHold ==
    IF task = "down" THEN NoState
    ELSE IF pc = "committed" /\ work.kind = "control" /\ work.to # state
         THEN IF HoldsState(click[work.click].cmd) THEN work.to ELSE NoState
         ELSE hold

Tool == INSTANCE HeldTool WITH st <- latest_state_for(log), held <- CommittedHold

\* Seen through its log, an actor with its threads, failures and restarts
\* is a HeldTool: no interleaving moves the tool twice, skips a state or
\* moves a held tool anywhere but into ALARM.
ImplementsHeldTool == Tool!Spec
=============================================================================
