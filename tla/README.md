# A TLA+ model of the event-driven MRP host

The host turns equipment signals into state transitions, stores them in an
event log with a transactional outbox, and feeds the log to subscribers: the
downtime ledger, the read models and the MRP recomputation. This directory
holds TLA+ modules of that pipeline, the TLC configurations that check them on
small instances, and TLAPS proofs of what matters most for every instance.

Source paths below are relative to the repository.

## The system

```
                     sources            ingest    actors (one per machine)       event log          subscribers
 machine_data    --> tailer        -->  queue --> mailbox -> FSM -> append_many  -> outbox -> relay -> capacity tracker
 simulator: tools                                   ^                                ^        bus     alarm / read models
   scenario -> HSMS -> SECS sessions --> dedup      |                                |                telemetry
                                                    |                                |                recompute scheduler
 Flask: POST /command -> CommandService (HostCommandRequested) ----------------------+                  -> runner -> plan
 Flask: POST /ack     -> AlarmCommandService ----------------------------------------+                  -> purchase signal
```

| Component | State it keeps | Operations | What makes it correct | Model |
|---|---|---|---|---|
| Machine actor, FSM, registry (`services/machine_actor.py`, `state_machine.py`, `machine_actor_registry.py`) | state, operator hold, heartbeat time, mailbox | take a sample or command, append, assign; stop; rehydrate | memory agrees with the log; transitions form a chain; a held tool moves only into ALARM | `MachineActor`, `StateMachine`, abstract `HeldTool` |
| Command service (`services/application/command_service.py`) | one request's progress | read state, append Requested, reject or schedule | every click has one answer; commands act where they are allowed | `MachineActor` |
| Event store (`services/event_store.py`) | `event_store`, `event_outbox`, `event_dlq` | append a batch, fetch, mark, dead-letter | batches are atomic; nothing is lost between commit and settlement | `OutboxRelay` (and the log of `MachineActor`) |
| Relay and bus (`services/outbox_relay.py`, `event_bus.py`) | position in a drain, failures of a fanout | drain, publish, retry, give up | at-least-once, in order per author unless something failed | `OutboxRelay`, abstract `Delivery` |
| Capacity tracker, impact handler (`services/subscribers/capacity_tracker.py`, `mrp_impact_handler.py`, `repositories/machine_downtime_repository.py`) | `machine_downtime_log`, `capacity_loss_daily` | open, look up, close, charge | a charge is of one downtime, and no downtime is forgotten unless something failed | `CapacityLedger` |
| Alarm view and acknowledgement (`subscribers/alarm_projector.py`, `application/alarm_command_service.py`) | `alarm_view` | raise, clear, acknowledge | the view follows the log | `ReadModels` |
| Read models, telemetry, procurement (`subscribers/read_model_projector.py`, `telemetry_projector.py`, `procurement_signal_projector.py`) | views | upserts, some of them time-gated | replays and reorderings converge | `ReadModels`, `RecomputeScheduler` (plan view, purchase signals); telemetry is not modelled |
| Recompute scheduler and runner (`subscribers/mrp_recompute_scheduler.py`, `mrp_runner.py`) | pending payload and timer per part | debounce, emit with a dedup bucket, run the plan | a burst is debounced into its last alarm's request; a trigger leads to a plan, and the views to its latest | `RecomputeScheduler`, abstract `Debounce` |
| MRP calculation (`services/mrp_service.py`, `repositories/mrp_input_repository.py`) | none | load the inputs, simulate a horizon, summarize | the walk balances; the suggestion is in time and enough | `MRPSimulation`, with the scheduler in `MCRecompute` |
| Ingest and tailer (`services/ingest.py`, `machine_data_tailer.py`) | queue, dedup window, cursor | offer, dispatch, stop | rows in order, a key once, nothing lost but what is known to be | `Pipeline` |
| Bootstrap (`bootstrap.py`, `app.py`) | what runs | start, stop in order, signal handlers, `/readyz` | a shutdown ends and loses no more than the ingest queue | `Pipeline`; readiness in `SecsFloor`; restarts also in `MachineActor` and `OutboxRelay` |
| SECS/GEM host session (`services/secs/`) | session state, handler, report setups | start, stop, HSMS callbacks, report setup | what a session shows is true once it has been told; a CEID nobody asked for is known | `SecsFloor` |
| Equipment simulators and scenario (`simulators/`) | phases, sensors, the alarm latch of a tool | advance the story, sample, report | one story at a time; the host hears what is true of a tool | `Scenario`, `SecsFloor`; the database simulator's insert in `Pipeline` |
| Queries, routes, dashboards, forecasting, frontend, schema, debugging script | none of their own | reads | | not modelled: they change no state |

### What is hard about it

* **Two threads, one state.** A request thread reads `current_state`, appends,
  then decides; the actor moves on in between. Samples and commands share one
  mailbox but not one clock.
* **Commit, then assign.** The log is ahead of memory between `append_many`
  and `_state = ...`; a crash there must leave a log the registry can go on from.
* **At-least-once delivery.** Every handler can see an event again, and see it
  after its successors.
* **Several transactions in one handler.** The tracker closes a row, then
  publishes; each step can fail alone.
* **Links that break.** Frames in flight are lost with their connection, report
  setups of two connections overlap, and a callback of secsgem's thread may
  come after `stop()`.
* **Stages stopped in order.** A sentinel is put on a queue whose consumer may
  have left; a source is told to stop while its batch is in a thread; ten
  seconds later the loop is stopped wherever it is.
* **Bounded things.** Queue, mailbox, batch, attempts, dedup window, debounce
  timer.

`PROJECT.json` lists every hazard at its line, with the properties that cover
it or the reason why none does.

## Modules

### `StateMachine`
`StateMachine.advance` as a pure operator from a requested transition to the
events it produces, and `latest_state_for` over a log. ALID is `alid or 0` in
the code, so an absent one and 0 are the same number here too. The `ValueError`
of an unknown target and the `or UNKNOWN` normalisation have no caller that
reaches them.

### `MachineActor`, `HeldTool`, `MachineActorProofs`
One actor, since actors of different machines share only the append-only store.

* `log` is the actor's rows, `trail[c]` those of the thread that serves click c:
  `append_many` inserts row by row on a connection of its own, so `event_seq`
  puts rows of other authors between those of a batch, and nothing is said of the
  order between authors. Within one author, who waits for each append, the order
  stands; `latest_state_for` and the chain are about the actor's rows alone.
* `OfferSample` is the ingest loop (blocking while the mailbox is full).
  `Readings` are the outcomes of `infer_state`: RUN, IDLE, ALARM with an ALID,
  or a `KeyError` for metrics it cannot index, which the loop logs.
* `ReadState`, `AppendRequested`, `Reject`, `Accept`, `OfferControl` are the
  steps of one `CommandService.issue` call, and of the coroutine it schedules,
  in the order of the code. `click[c]` holds its local variables.
* `TakeItem` and the `Handle` actions are `_run`, `_handle_sync` and
  `_handle_control_sync`. Commit and assignment are separate steps
  (`CommitSample`/`CommitControl`, then `Finish`). The heartbeat's commit and
  its `_last_heartbeat_at` are one step: nothing else reads that field.
* `StopActor`, `Crash`, `Restart` are the sentinel, the death of the process
  and `MachineActorRegistry.register`.
* `AppendRollsBack` is a failed `append_many`. A commit that succeeds while
  its acknowledgement is lost is not modelled.

`HeldTool` is the promise without mailbox, threads, store or failures: a state,
an optional hold, sensors that may only raise ALARM under a hold. The
refinement mapping reads the state from the log and the hold as of the last
committed batch (`CommittedHold`).

### `OutboxRelay`, `Delivery`, `OutboxRelayProofs`
Producers insert under a fresh `event_seq` and commit later, so numbers and
commits may disagree. `Fetch`, `Handle`, `MarkDispatched`, `MarkFailed`,
`_maybe_dlq` are one drain, a handler call at a time. A handler may raise with
or without having absorbed the event. `Stop`/`Exit` end the loop between
drains; `Die` is a crash or the end of the process, `Start` a new one.
`locked_by` and `locked_at` are written and never read. A fetch that raises is
a stutter. bootstrap starts one relay; several are not modelled.

`Delivery` is what a subscriber may rely on: nothing before the commit, nothing
after settlement, dispatched only when every handler has it.

### `CapacityLedger`, `LedgerProofs`
`on_state_changed` transaction by transaction (`OpenRow`; `LookUp`, `CloseRow`,
`Charge`), for one machine, driven by a relay that walks the pending events in
order, counts failures, and starts over after `Restart`. `Settle` also stands
for the other subscribers of `StateChanged`, whose failure makes the tracker see
the event again. Quantities are whole hours times `Rate`.
`runs`, `closer` and `charged` are history: how often an event was published,
which return closed a row, which row a charge is of. No column says so, since
`capacity_loss_daily` has the return's correlation id alone.
`Origin` is the machine's state when its ledger was empty. `zone` says whether
an event's time is tz-aware: every event the system writes today is
(`utils/clock.py`), those written before that module may be naive, and come
first. A DATETIME column always reads back naive.

### `OutboxWalk`
The log and the relay as the consumer modules below need them: appended rows, a
walk in `event_seq` order that may start over, attempts that run out. It leaves
out what `OutboxRelay` is about: commits out of order, one handler at a time.

### `ReadModels`, `ViewProofs`
The machine's row of `machine_status_view` and its rows of `alarm_view`, with
the four writers of them as pure operators on a row and an event, one publish a
step; failures let either handler run without the other. `Transition` appends
what `StateMachine.advance` returns, at a time that may lag behind the log;
`Acknowledge` is the route's lookup and the service's append. MySQL evaluates
assignments from left to right; no column here is read after it is assigned in
a way that makes a difference.

### `RecomputeScheduler`, `Debounce`, `RecomputeProofs`
One part, from an alarm or a closed downtime to `mrp_plan_view` and the rows of
`procurement_signals`, one per request (its correlation id). `Schedule` and
`Fire` are the two sections under the lock; `Emit` is the append after it. A
`Timer` is `wait`ing until it is cancelled or fires; one that is past its wait
when `cancel()` comes is `late`, and fires all the same: it takes the payload
of the newer alarm and forgets the newer timer, so a window may be cut short.
How long the window is does not matter to the properties and is left out.
A return may raise `DowntimeClosed` again when it is published again, since a stop
published twice leaves two rows to close (`CapacityLedger`).
`Partial(e)` is what the handlers of one publish may have committed when it
breaks, `Whole(e)` all of it. `mishaps` only records which failures happened.
`seen` counts the losses a plan includes, and those on record when its request
was appended; the quantity a request carries is not read by the runner.

`Debounce` is the scheduler's promise for alarms without timers, locks or the
relay: the newest alarm waits, it leaves once, with a thread that has no other,
and is answered once, by a request in its bucket; a failed append or a crash
loses it. The mapping reads what waits from `pending`, what is leaving from the
threads that are about to emit, and what is answered from the projected requests
of the log. How many requests a burst makes is up to the timers: a late one may
cut a window short, and then two buckets may both be answered.

### `MRPSimulation`, `MCRecompute`
What the runner computes: `Incoming` is the input rows' purchases less the lost
capacity, `EndAvailable` the walk (a backlog is a negative balance, a day
without a forecast has no row), `Summary` is `_summarize`. Pure operators over
every case of inputs within the bounds; `MCRecompute` puts them beside the
scheduler, so that TLC evaluates them once, in states with a plan. Quantities
are whole; rounding is left out. What is proved of them is in `RecomputeProofs`.

### `Pipeline`, `PipelineProofs`
One process from its sources to the outbox, for one registered machine. A signal
is a number: of its row in `machine_data` or of its HSMS frame. `KeyOf` is its
`edge_seq`: a row's id, and for a frame whatever its system bytes or `id(message)`
make it, so that any two frames may share one. A retransmission is two frames
with one key; so are two distinct frames whose ids happen to agree, and dedup
does not know the difference. `Strangers` are signals of machines no actor is
registered for.

* `Boot` is `bootstrap_event_pipeline`, `Exit` any end of the process, the ten
  seconds of `_shutdown_pipeline` included.
* `_fetch_batch` runs in a thread; `OfferBatch` is the loop over what it
  fetched. `offer` never waits, so a batch is one step of the event loop, and
  what does not fit is dropped while the cursor moves on.
* The ingest actions are `_run`: take, look at the window, put in the mailbox
  and wait there when it is full. Ingest gives up the loop only when it has to
  wait (`LoopFree`): with signals to take and room for them nothing else on the
  loop runs in between. `seen.pop()` evicts any key.
* `StopSources` and the steps of `stopper` are `shutdown_event_pipeline`, one
  for each wait of it.
* `gone`, `forgot`, `admitted` and `repeats` are history: the signals a step of
  the code drops knowingly, the keys a window, or a process, has given up, the
  signals dedup has let pass, and those it took for one of these.

### `Scenario`, `SecsFloor`, `MCSecsFloor`, `SecsFloorProofs`
`Scenario` is `ScenarioCoordinator` with the sensors it drives: a phase for
each machine, the metric as a level that is below, at or above the threshold.
Time is left out: a deadline has passed or not when the coordinator looks.

`SecsFloor` composes it with the tools' sessions, the link and the host's
sessions. `calls` are the callbacks due on the host in the order of the stream;
`Break` takes the frames of a tail of them along and leaves the loss behind.
`Callback` is `_on_communicating`, `_on_disconnected` and the two message handlers,
which hand a frame to ingest or drop it: `Shapes` are what secsgem's decoder may
make of it, and `Reads` says which of them the unpackers take (`_unpack_s5f1`
lists only);
`BeginSetup` and `Subscribe` are a `_setup_event_reports` thread, of which
several may be under way; `HostStops`, `Disabled` are `stop()` with its wait for
`disable()`, during which callbacks still come. A request to the tool may
succeed, be declined, or go unanswered, after having worked or not. The session
counts as failed what raises: a bare CEID without an answer, and with a report
whatever `subscribe_collection_event` raises on. The rest it counts as done;
`blind` is the history of those it has no consent for. The tool's alarm latch
and `alarm_thresholds` are modelled as the class has them; the shipped `main.py`
passes none, and then only the samples are sent. secsgem itself is modelled
from how it is used.

## Checks

| Run | Instance | Shows |
|---|---|---|
| `ActorSafety` | 2 clicks (symmetric) of 4 commands, 1 ALID, mailbox 1, time to 2; failed appends, crashes, stop | types; `StateIsCommitted`; `ChainContiguous`; `AlarmOpenIffAlarm`; `HoldMatchesState`; `ClickAudit`; the actor implements `HeldTool` |
| `ActorLive` | 1 click of any command, 2 ALIDs, time to 3, no faults, `FairSpec` | `AlarmNeverMasked`, `ClickAnswered` |
| `ActorCommands` | 1 click, no faults | violation of `CommandsApplyWhereAllowed` |
| `RelayFanout` | 1 producer, 2 handlers, 3 events, batch 2, 2 attempts, 1 fault of any kind | types; `DeadOnlyAfterMaxAttempts`; `RepeatsHaveACause`; the outbox implements `Delivery` |
| `RelayOrder` | 2 producers, 1 handler, otherwise the same, `FairSpec` | `OvertakenOnlyAfterFailure`, `EveryEventIsWorkedOff` |
| `Ledger` | 4 transitions from RUN (2 stops, 2 returns), times 1..2 with a lag of 1, 2 attempts, 2 faults, naive then aware times | types; `ChargesAreBacked`; `LossesAreCharged`; `RowsFollowTheLog`; `UndisturbedLedgerIsExact` |
| `LedgerZone` | aware times, no faults | violation of `DowntimeEnds` |
| `Views` | 1 ALID, 4 batches, times 1..2 with a lag of 1, 2 attempts, 2 faults | types; `StateViewConverges`; `AlarmViewConverges` |
| `AlarmsStay` | no faults, no lag | violation of `AlarmsClear` |
| `Recompute` | 2 triggers in either of 2 buckets, 2 attempts, 2 faults; horizon 3, leadtime 2 | the scheduler implements `Debounce`; `PendingIsArmed`; `AlarmsAreRequested`; `PlansAreAudited`; `ViewIsCurrent`; `SignalsFollowPlans`; of the calculation `PlansBalance`, `PlansSuggestInTime` |
| `Pipeline` | 3 rows, 2 frames with two keys to choose from, 1 stranger among the rows, queue 2, mailbox 1, window 1, batch 2, 2 starts, `FairSpec` | types; `EverySignalIsAccountedFor`; `RowsInOrderFramesOnce`; `ShutdownLosesOnlyTheQueue`; `ShutdownEnds` |
| `SecsFloor` | 1 machine, a tool; 2 CEIDs, one without a report; frames of any shape; 2 connects, 2 calls due, 2 faults | types; `SessionStateIsTrue`; `HostHearsTheTool`; `SettledMeansProgrammed` |

**Bounds.** A mailbox of one is full with a command while another, and a sample,
wait to get in; two clicks are needed for one to act on a state the other changes,
and a third meets no state two do not produce. START, STOP, RESET and ABORT stand
for all (`Issued`): PAUSE is STOP in all but its name, and what a RESUME does a
START does too. Time to 2 has a second sample
after the one whose hold was dropped or whose append failed. A batch of two is smaller than
the backlog, so that a drain ends with rows behind it. Two attempts are enough
to retry and to give up. Two failures let one duplicate a row and the other
repeat its close, or deliver the second of two plans before the first; with two
alarms they make four calls of `_schedule`, where three are needed for a timer
that a late one has made uncancellable. Four batches raise an alarm, leave it,
raise it again and acknowledge it.
Three rows overflow a queue of two and come in more than one batch of two; two
frames with one key, or with two, and a row between, meet a window of one that
has and that has not given up the key; with a mailbox of one, ingest waits with a signal
in hand; the second start finds rows written while the process was down. One
tool suffices because tools share only the story, which for any number of them
is proved; with two connects a setup of the first is
still under way when the second begins, and two faults break a link and leave a
request unanswered. Three days hold a backlog, the day that makes up for it and
one without a forecast; a loss of 3 exceeds a delivery of 2. Time is bounded by `MaxTime` or `Times`, triggers by `MaxTriggers`, batches by
`MaxBatches`, events by `MaxSeq` and
`MaxEvents`, rows, frames and starts by `MaxRows`, `MaxFrames` and `MaxStarts`, connections and calls due by `MaxConnects` and `MaxCalls`, failures
by `MaxFaults`; each is named in its module. The proofs
show what they cover without these bounds.

**Deadlock** is not checked: bounded clocks and event counts let every instance
come to rest, and a stopped actor, session or process may stay so.

**Fairness.** `MachineActor!FairSpec`: the event loop runs a task that has work,
and a request thread that has begun finishes; samples, clicks, faults and
restarts are never owed. `OfferControl` waits for room; asyncio queues serve
putters in order. `OutboxRelay!FairSpec`: the relay's task is scheduled while
the process lives, and its fetch does not raise for ever; a dead process need
not come back (docker-compose gives it no restart policy). Producers owe nothing.
`Pipeline!FairSpec`: the loop runs the tasks that can run and threads finish;
no row or frame has to come, and no process has to start or to end.

### Disagreements found

* **Commands act on a state they were not validated against** (`ActorCommands`).
  `machine_actor.py` describes a `ControlAction` as "already validated ...
  against the current state"; the state was current one append and one mailbox
  earlier. RESUME, validated in UNKNOWN, resets an ALARM.
* **Downtime never ends** (`LedgerZone`). The close subtracts a naive start from
  an aware end and raises, every time. `AwareDowntimeNeverEnds` proves it for
  every schedule: with aware times no row is ever closed and nothing charged.
* **Alarms are never cleared in the view** (`AlarmsStay`). `alarm_projector.py`
  draws "ACTIVE ... AlarmReset ... CLEARED"; the reset carries ALID 0, and the
  projector looks for the row by the ALID that was raised. `AlarmsNeverClear`
  proves that no row ever gets a `cleared_at`.

Not runs, but worth knowing:

* An aborted tool restarts by itself: "ABORT → stay ALARM until RESET / START"
  (`command_service.py`), but an ALARM-class sample drops the hold of a tool that
  is already in ALARM, without an event, and the next healthy sample moves it
  out. `HeldTool` allows it.
* A failed promotion is final: `outbox_relay.py` says such a row is retried or
  keeps looping, but `attempts < 5` hides it from every fetch.
* "Recovery is fresh information; do NOT debounce" (`mrp_recompute_scheduler.py`),
  yet the dedup key collapses two recoveries of one part within five seconds, and
  when the first one's plan is made before the second's loss is recorded, that
  loss is in no plan until the next trigger.
* "Ingest: drain the in-memory queue into actors" (`shutdown_event_pipeline`):
  `stop()` clears `_running` before its sentinel is queued, and the loop ends
  after the signal in hand. "The relay drains what's left, then stops": it ends
  after the drain it is in; what the actors appended last waits for the next
  start. Both are in `Pipeline`, whose `ShutdownLosesOnlyTheQueue` says what does
  hold.
* "Subscribers must therefore be idempotent (the existing ones are: ... downtime
  open/close keyed on machine)" (`outbox_relay.py`): a stop published again opens a
  second row, and its return, published again, closes and charges that one too.
  `ChargesAreBacked` allows it only then. And a return that closed its row but
  failed to publish the loss finds no row when it comes again: that loss is
  never charged (`LossesAreCharged` excepts it by name).
* "Build the idempotency key" (`decoders.py`): system bytes, or `id(message)` where
  there are none (`session.py`), are no identity of a frame. One whose key a frame
  before it bore is dropped while the window has that key.
* `_unpack_s5f1` takes a list only, where `_unpack_s6f11` also takes "named dict form
  seen in secsgem 0.3.x": an alarm report that is decoded to a dict is logged and
  dropped, and the tool sends changes only.
* `_send_define_report_sync` keeps `succeeded` and `failed`, but looks at no answer:
  what `subscribe_collection_event` returns is dropped, and of S2F38 only that it
  came. A CEID the tool declined is among the `ok` of the log line.
* Back-pressure ends at the ingest queue: the mailbox blocks ingest, but `offer`
  drops, though `machine_data_tailer.py` says the back-pressure propagates.
* The coordinator's `while` over deadlines passes at most one boundary a look,
  since each phase it enters sets a deadline in the future.
* `kind="STATE"` and alarm signals of `decoders.py` carry no `temperature`:
  `infer_state` raises `KeyError` on them and ingest's actor logs it, so neither
  reaches the FSM that is said to treat alarms "idempotently by ALID".

## Proofs

TLAPS proves, for every value of the constants:

* `MachineActorProofs`. The inductive invariant `IInv` is `TypeOK`, a well-formed
  log (`GoodLog`: chain, and an open alarm exactly in ALARM), the agreement of
  memory and log inside and outside the commit window, and the facts about the
  item in hand that make the window meaningful: what `pc` says of `work`, and
  that a command in the mailbox still says what its click decided
  (`ControlOK`). Without the last two, `Finish` could assign a state nothing
  committed. From `IInv`: `TypeCorrect`, `StateAlwaysCommitted`,
  `HistoryIsAChain`, `AlarmsAgreeWithStates`, `HoldsAreCurrent`. The lemmas on
  appending one batch to a log carry the argument: `latest_state_for`, the chain
  and the open alarm of `log \o advance(...)` from those of `log`.
  `ActorImplementsHeldTool` maps every step to a step of `HeldTool` or a stutter.
  `ClicksAreAudited` needs three facts more of each click (`AuditInv`): what its
  thread's rows say of how far the thread is (`TrailOK`), what the actor's rows
  say of it (`ProgressOK`), and that its command is in one place, a mailbox slot
  or the actor's hand, and unanswered until its batch is committed
  (`CarriedOnce`). Without the last a command could be answered twice, without
  the others rejected and carried out.
* `OutboxRelayProofs`. `RInv` adds to `TypeOK` that a batch is what a fetch
  returned minus what the drain has settled (`BatchInv`), that uncommitted and
  unborn numbers are unheard (`LogInv`, `HeardInv`), how many hearings the
  failures and faults account for (`RepeatInv`), and that whatever precedes the
  row in hand, of the same author, was heard or has failed (`OrderInv`). From
  it: `RelayTypes`, `DeadLettersUsedTheirAttempts`, `RepeatsAreAccountedFor`,
  `AuthorsAreNotOvertaken`, and `RelayImplementsDelivery`.

* `RecomputeProofs`, the timers. `SInv` adds to `PendingIsArmed` only that the
  log and the timers are sequences. The current timer is always the newest, so
  `cancel()` is the only thing that could stop it, and whatever calls it has
  started another; a firing timer that finds the payload takes it, one that does
  not leaves nothing pending. From it: `PendingNeverStranded`.
* `RecomputeProofs`, the rows. Every step is one of three for the rows of the
  log (`EveryStepHasAShape`): it leaves them alone, appends one that is no plan,
  or publishes the next. `PlanInv` then has a part for each question. `LogInv`:
  a plan is made for a request after its history was written, and its losses
  grow with its place in the log. `AuditInv`: a request has run once for each
  failure at most, and once more when it is marked dispatched. `WalkedInv`: a
  pending row the walk has passed, or that lies behind a dispatched one, has
  failed before. `ViewInv` and `SignalInv`: what the view and the signal rows
  hold. `RequestInv`: an alarm given to the scheduler is pending, in a thread
  that emits, or requested for. The signal rows have no gate, and it is
  `WalkedInv` that keeps an older plan from overwriting a newer one unless it
  had failed. From `PlanInv`: `TypeCorrect` (its `TypeOK` is proved here and not
  a run's property), `AlarmsLeadToRequests`, `PlansHaveHistory`,
  `ViewNeverBehind`, `SignalsNotBehind`.
* `RecomputeProofs`, the debouncer. `SchedulerDebounces`: `_schedule` is `Ask`,
  `_fire` is `Leave` or a stutter, `_emit` is `Answer` or `Lose`, a crash is
  `Forget`, and to every other step the debouncer stands still. A newest timer that waits (`PendingIsArmed`) is why
  starting another takes nothing out of a thread that emits, and a request's
  time being its alarm's (`AnswerInv`) why the key in the table and the bucket
  of the promise are the same thing.
* `RecomputeProofs`, the calculation. The walk is a recursive function of the
  day and the sums are folds; neither is given by induction. Each is looked at
  through the least case that could be wrong: the least day (`LeastNatural`), or
  a bad set none of whose proper subsets is bad (`LeastSet`), which its
  recursion equation contradicts. That functions with these equations exist is
  proved too (`AWalkExists`, `TotalByRecursion`). `EveryWalkIsBalance` equates
  walk and closed form, `EverySuggestionHolds` follows the suggested order
  through its day and leadtime; from them `PlansRestOnABalance` and
  `PlansSuggestEnough`, for every horizon, leadtime and whole quantities.
* `ViewProofs`. A step appends a batch and leaves the views alone, or leaves the
  log alone and gives the next row to some projectors, to both when it is marked
  dispatched. `StateInv`: the machine row's time is a transition's, no delivered
  one is later, and of several at that very time one is shown. `AlarmInv`: a row
  was last seen at an occurrence, none delivered is later, and what was
  acknowledged has a row. From them `StateConverges`, `AlarmsConverge`, and
  `TypeCorrect`. The proof asks which branch a row takes, and so made `ProjectAlarm`
  the chain of branches the handler is, where its cases had overlapped.
  `AlarmsNeverClear` needs only that a reset carries no ALID (`RowShape`).
* `LedgerProofs`. `LTypes` says what the handler has in hand at each of its
  steps. `Walked` is that same fact about passed rows, `Rowed` that a dispatched
  stop has its row. `HInv` adds how often the relay hands out an event: once, and
  once more for each failure or fault (`Counting`); that each time a stop opens
  one row at most (`Opened`) and a return closes one (`ClosedOnce`); that a charge
  is of a closed row of its own, and the row about to be charged is nobody's yet
  (`ChargedOnce`); and that a return the handler is through with has charged what
  it closed (`ChargedAll`). From it: `RowsFollow`, `ChargesHaveRows`,
  `LossesHaveCharges`.
  For `LedgerIsExact`, `Exact` says that the history is a chain (`Linked`) and
  that, undisturbed, the relay has dispatched a prefix of it and the tables are
  those of that prefix, or of one event more while that one is in hand. A charge
  is told by the first return to RUN after its stop (`Returns`); since states
  form a chain there is one open row at most, and it is the one `get_open`
  finds. `AwareDowntimeNeverEnds`: with aware times the handler never
  gets past its look-up of an open row.
* `PipelineProofs`. `PipeTypes` ties the hands of the tasks to where they stand.
  `AccountInv` follows a signal: whatever was offered is past the actor, queued
  or gone. `TwinInv`: a key in the window is an admitted signal's, and whatever
  was dropped as a repeat has an admitted twin with its key.
  `OrderInv` and `OnceInv` put log, work, mailbox, hand and queue into one
  sequence that is increasing in its rows. `ShutInv` says of each stage of the
  shutdown that what comes before has ended, and of a mailbox that it ends in
  the sentinel or the actor still works. From them: `SignalsAccounted`,
  `InOrderAndOnce`, `OnlyTheQueueIsLost`.
* `SecsFloorProofs`. `OneStory` (a tool has one abnormal story at a time) needs
  only the scenario and no run checks it. `LinkInv`: the last of
  the calls for the link says what the link is, and without one due the state
  does. `HeardInv`: the tool's latch is its last reading, and the last frame of
  each kind is due and true, or was heard and is true, or was lost or dropped.
  `SetupInv`: the last setup has the tool's consent for the CEIDs it is past, but
  those it noted as failed or counts as done without it (`blind`). From them: `StateIsTrue`, `HearsTheTool`, `SettledIsProgrammed`.

`NaturalFacts` has the least element of a set of naturals, which four of these
cite. They assume only the named `ASSUME` of each module, and
`AwareDowntimeNeverEnds` the zone it is about. Every invariant and action
property and every refinement the runs check is proved. Only model-checked is
liveness (`AlarmNeverMasked`, `ClickAnswered`, `EveryEventIsWorkedOff`,
`ShutdownEnds`), which the prover does not reach.

## Not modelled

* Telemetry samples (an `INSERT IGNORE` nothing reads back), routes, dashboards,
  forecasting and queries: reads and their JSON.
* The in-process simulator (`simulators/iot_simulator.py`) beyond its inserts:
  it drives the same coordinator. Loading of the configurations and the code
  tables of SECS: constants here.
* A commit whose acknowledgement is lost; a payload that no longer decodes (it
  would wedge the relay); several relays, which nothing starts.
* Durations: the time between attempts (the five are spent within milliseconds),
  the length of the debounce window, the deadlines of the scenario. So that a
  stream of alarms may postpone a recompute for ever is not a property here, nor
  that an incident of the scenario ends.
* Waiting for MySQL, and a start that raises halfway: that process serves nothing.

## Plan

The subsystems the inventory names are modelled, and their safety is proved.
Left, in this order:

1. An abstract specification of the rest of the chain, from a request to the
   rows that show its plan ("every request is followed by a plan that knows its
   losses, and the view is never set back"), beside `Debounce`.
2. The lost acknowledgement of a commit, in `MachineActor` and `OutboxRelay`
   alike: the log would be ahead of memory for longer than a step.
