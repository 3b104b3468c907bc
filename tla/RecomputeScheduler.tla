-------------------------- MODULE RecomputeScheduler --------------------------
(***************************************************************************)
(* From an alarm or a closed downtime to the purchase view, for one part:  *)
(* MRPRecomputeScheduler with its debounce timers, MRPRunner, the          *)
(* mrp_plan_view row of ReadModelProjector and the procurement_signals     *)
(* rows of ProcurementSignalProjector.  Which downtime row a return closes *)
(* is CapacityLedger's: here it closes one that lost something, or none.   *)
(*                                                                         *)
(* Handlers run on the relay's thread; every timer is a thread of its own. *)
(* _schedule and _fire hold the lock, so each is one step, but the append  *)
(* of a fired payload happens after the lock is released.  How long a      *)
(* timer waits is not modelled: it may expire at any moment.               *)
(***************************************************************************)
EXTENDS OutboxWalk, Integers, FiniteSets

CONSTANTS
    Bucket,       \* _DEDUP_BUCKET_S
    MaxTriggers,  \* bound: alarms, recoveries and manual requests
    Times         \* bound: times of the triggers

ASSUME SchedulerAssumption ==
    Bucket \in Nat \ {0} /\ MaxTriggers \in Nat /\ Times \subseteq Nat

VARIABLES
    pending,   \* self._pending[part]: the alarm to request for, or None
    armed,     \* self._timers[part]: index of a timer, or None
    timers,    \* every Timer started: what its thread is doing
    losses,    \* rows of capacity_loss_daily
    history,   \* runs of each request written to mrp_plan_history
    view,      \* the part's row of mrp_plan_view
    signals,   \* procurement_signals: the plan each request's row holds
    mishaps    \* history variable: the kinds of failure so far

schedVars == <<pending, armed, timers>>
bizVars   == <<losses, history, view, signals>>
vars      == <<walkVars, schedVars, bizVars, mishaps>>

None == 0
Timer(does, payload) == [does |-> does, payload |-> payload]

\* trigger is the event a request or a plan goes back to (correlation_id,
\* and for a plan the request); seen is the number of losses recorded when
\* the request was appended, or included in the plan.
Event(type, at, reason, trigger, seen) ==
    [type |-> type, at |-> at, reason |-> reason, trigger |-> trigger,
     seen |-> seen]

OfType(type) == {e \in Events : log[e].type = type}
Triggers == OfType("AlarmTriggered") \cup OfType("StateChanged")
Requests == OfType("MRPRecomputeRequested")
Plans    == OfType("MRPPlanUpdated")

NoPlan == [at |-> 0, seen |-> 0]

Init ==
    /\ WalkInit
    /\ pending = None
    /\ armed = None
    /\ timers = <<>>
    /\ losses = 0
    /\ history = <<>>
    /\ view = NoPlan
    /\ signals = <<>>
    /\ mishaps = {}

-----------------------------------------------------------------------------
(* What writes the triggers.                                               *)

Manual == {r \in Requests : log[r].reason = "manual"}

Written(event) ==
    /\ Cardinality(Triggers \cup Manual) < MaxTriggers
    /\ append_many(<<event>>)
    /\ history' = Append(history, 0)
    /\ signals' = Append(signals, None)
    /\ UNCHANGED <<faults, schedVars, losses, view, mishaps>>

\* A machine that makes the part raises an alarm ...
Alarm(at) == Written(Event("AlarmTriggered", at, "", None, 0))

\* ... or returns to RUN ...
Recovery(at) == Written(Event("StateChanged", at, "", None, 0))

\* ... or a planner posts /api/mrp/recompute: no dedup_key.
request_recompute ==
    Written(Event("MRPRecomputeRequested", 0, "manual", None, losses))

-----------------------------------------------------------------------------
(* MRPRecomputeScheduler                                                   *)

Restarted(t, does) ==
    Append(IF t = None THEN timers ELSE [timers EXCEPT ![t] = Timer(does, None)],
           Timer("wait", None))

\* Mutant: an alarm does not replace the one that waits.
Schedule_FirstWins(alarm) ==
    /\ pending' = IF pending = None THEN alarm ELSE pending
    /\ armed' = Len(timers) + 1
    /\ \E does \in {"over", "late"} : timers' = Restarted(armed, does)

\* cancel() stops a timer that waits; for one past its wait, and about to take
\* the lock, it comes too late.
Schedule(alarm) ==
    /\ pending' = alarm
    /\ armed' = Len(timers) + 1
    /\ \E does \in {"over", "late"} : timers' = Restarted(armed, does)

\* Mutant: the timer stays in _timers.
Fire_LeavesTimer(t) ==
    /\ timers[t].does \in {"wait", "late"}
    /\ timers' = [timers EXCEPT ![t] =
                     IF pending = None THEN Timer("over", None)
                     ELSE Timer("emit", pending)]
    /\ pending' = None
    /\ UNCHANGED <<walkVars, armed, bizVars, mishaps>>

\* It takes whatever is pending, and forgets whichever timer is current.
Fire(t) ==
    /\ timers[t].does \in {"wait", "late"}
    /\ timers' = [timers EXCEPT ![t] =
                     IF pending = None THEN Timer("over", None)
                     ELSE Timer("emit", pending)]
    /\ pending' = None
    /\ armed' = None
    /\ UNCHANGED <<walkVars, bizVars, mishaps>>

\* ux_dedup already has the key.
InBucket(reason, at) ==
    \E r \in Requests : /\ log[r].reason = reason
                        /\ log[r].at \div Bucket = at \div Bucket

Reason(trigger) == IF log[trigger].type = "AlarmTriggered"
                   THEN "projected_loss" ELSE "reconciled_loss"

\* Mutant: a request without a dedup_key.
Emitted_NoKey(trigger, recorded) ==
    <<Event("MRPRecomputeRequested", log[trigger].at, Reason(trigger),
            trigger, recorded)>>

\* _emit, which swallows DuplicateEventError: the rows it appends, after
\* recorded losses.
Emitted(trigger, recorded) ==
    IF InBucket(Reason(trigger), log[trigger].at) THEN <<>>
    ELSE <<Event("MRPRecomputeRequested", log[trigger].at, Reason(trigger),
                 trigger, recorded)>>

NewRows(events) ==
    /\ history' = history \o [i \in DOMAIN events |-> 0]
    /\ signals' = signals \o [i \in DOMAIN events |-> None]

Emit(t) ==
    /\ timers[t].does = "emit"
    /\ append_many(Emitted(timers[t].payload, losses))
    /\ NewRows(Emitted(timers[t].payload, losses))
    /\ timers' = [timers EXCEPT ![t] = Timer("over", None)]
    /\ UNCHANGED <<faults, pending, armed, losses, view, mishaps>>

\* The append raises: logged, and the payload is gone.
EmitFails(t) ==
    /\ timers[t].does = "emit"
    /\ Fault
    /\ mishaps' = mishaps \cup {"emit"}
    /\ timers' = [timers EXCEPT ![t] = Timer("over", None)]
    /\ UNCHANGED <<log, status, attempts, cursor, pending, armed, bizVars>>

-----------------------------------------------------------------------------
(* One publish: the transactions its handlers commit.                      *)

\* Mutant: the plan is appended first.
Runner_PlanFirst == {{}, {"plan"}, {"history", "plan"}}

\* How far _on_recompute may have come.
Runner == {{}, {"history"}, {"history", "plan"}}

\* The tracker may close a row and raise DowntimeClosed inside the publish.
RaisesClosed(e) == log[e].type = "StateChanged"

\* What may be committed when the publish does not complete.  The bus goes on
\* to the next handler of a DowntimeClosed when one of them raises.
Partial(e) ==
    CASE RaisesClosed(e) -> SUBSET {"charge", "emit"}
      [] e \in Requests -> Runner
      [] e \in Plans -> SUBSET {"project", "signal"}
      [] log[e].type = "AlarmTriggered" -> {{}, {"schedule"}}
      [] OTHER -> {{}}

\* All of it, when nothing raises.  A request without a forecast is skipped.
\* A return may find no open row, or one that lost nothing; one delivered again
\* may find a second row, if its stop had come twice too.
Whole(e) ==
    {done \in Partial(e) : \A S \in Partial(e) : S \subseteq done}
        \cup (IF e \in Requests \/ RaisesClosed(e) THEN {{}} ELSE {})

Charged(done) == IF "charge" \in done THEN losses + 1 ELSE losses

\* A plan includes every loss recorded when the runner reads them.  Its time
\* is its place in the log: plans are written by one thread.
Appended(e, done) ==
    IF "emit" \in done THEN Emitted(e, Charged(done))
    ELSE IF "plan" \in done
    THEN <<Event("MRPPlanUpdated", Len(log) + 1, log[e].reason, e, losses)>>
    ELSE <<>>

\* Mutant: a plain upsert.
Project_Ungated(plan) == [at |-> plan.at, seen |-> plan.seen]

\* VALUES(generated_at) >= generated_at
Project(plan) ==
    IF plan.at >= view.at THEN [at |-> plan.at, seen |-> plan.seen] ELSE view

\* Mutant: INSERT IGNORE.
Signalled_First(e, done) ==
    IF "signal" \in done /\ signals[log[e].trigger] = None
    THEN [signals EXCEPT ![log[e].trigger] = e] ELSE signals

\* A plain upsert under the correlation id, which goes back to the request.
Signalled(e, done) ==
    IF "signal" \in done THEN [signals EXCEPT ![log[e].trigger] = e] ELSE signals

Ran(e, done) ==
    IF "history" \in done THEN [history EXCEPT ![e] = @ + 1] ELSE history

Business(e, done) ==
    /\ losses' = Charged(done)
    /\ history' = Ran(e, done) \o [i \in DOMAIN Appended(e, done) |-> 0]
    /\ view' = IF "project" \in done THEN Project(log[e]) ELSE view
    /\ signals' = Signalled(e, done) \o [i \in DOMAIN Appended(e, done) |-> None]

Handled(e, done) ==
    /\ Business(e, done)
    /\ IF "schedule" \in done THEN Schedule(e) ELSE UNCHANGED schedVars

Deliver ==
    /\ Ahead # {}
    /\ \E done \in Whole(NextRow) :
           /\ Handled(NextRow, done)
           /\ SettleDispatched(Appended(NextRow, done))
    /\ UNCHANGED <<faults, mishaps>>

\* A handler raises, of these or of another component.
DeliverFails ==
    /\ Ahead # {}
    /\ Fault
    /\ mishaps' = mishaps \cup {"publish"}
    /\ \E done \in Partial(NextRow) :
           /\ Handled(NextRow, done)
           /\ SettleFailed(Appended(NextRow, done))

\* mark_dispatched or mark_failed raises: the drain ends, and the row will be
\* published again.
MarkFails ==
    /\ Ahead # {}
    /\ Fault
    /\ mishaps' = mishaps \cup {"publish"}
    /\ \E done \in Partial(NextRow) :
           /\ Handled(NextRow, done)
           /\ SettleNot(Appended(NextRow, done))

NextDrain ==
    /\ StartOver
    /\ UNCHANGED <<schedVars, bizVars, mishaps>>

\* The process dies, in a publish or not, and is started again; its timers
\* and what was pending are gone.
Crash ==
    /\ Fault
    /\ mishaps' = mishaps \cup {"crash"}
    /\ pending' = None
    /\ armed' = None
    /\ timers' = [t \in DOMAIN timers |-> Timer("over", None)]
    /\ \/ /\ SettleNot(<<>>)
          /\ UNCHANGED bizVars
       \/ /\ Ahead # {}
          /\ \E done \in Partial(NextRow) :
                 /\ Business(NextRow, done)
                 /\ SettleNot(Appended(NextRow, done))

-----------------------------------------------------------------------------
Next ==
    \/ \E at \in Times : Alarm(at) \/ Recovery(at)
    \/ request_recompute
    \/ \E t \in DOMAIN timers : Fire(t) \/ Emit(t) \/ EmitFails(t)
    \/ Deliver \/ DeliverFails \/ MarkFails \/ NextDrain \/ Crash

Spec == Init /\ [][Next]_vars

-----------------------------------------------------------------------------
(* Properties                                                              *)

\* Every variable has its type.
TypeOK ==
    /\ WalkTypeOK
    /\ pending \in {None} \cup OfType("AlarmTriggered")
    /\ armed \in {None} \cup DOMAIN timers
    /\ \A t \in DOMAIN timers :
           \/ timers[t].does \in {"wait", "late", "over"} /\ timers[t].payload = None
           \/ timers[t].does = "emit" /\ timers[t].payload \in OfType("AlarmTriggered")
    /\ losses \in Nat
    /\ history \in [Events -> Nat]
    /\ view \in {NoPlan} \cup {[at |-> p, seen |-> log[p].seen] : p \in Plans}
    /\ signals \in [Events -> {None} \cup Plans]
    /\ mishaps \subseteq {"publish", "emit", "crash"}

\* A pending recompute is never stranded: the newest timer is current, and
\* still going to fire, even after an older one that cancel() came too late
\* for has taken its payload (mrp_recompute_scheduler.py, _schedule, _fire).
PendingIsArmed ==
    /\ pending # None <=> armed # None
    /\ armed # None => /\ armed = Len(timers)
                       /\ timers[armed].does = "wait"

AtRest == Quiet /\ \A t \in DOMAIN timers : timers[t].does = "over"

\* An alarm is not forgotten: once all is done, a dispatched alarm has led to
\* a request for its part, and without failures the newest alarm's bucket has
\* one ("last writer wins").
AlarmsAreRequested ==
    LET dispatched == {e \in OfType("AlarmTriggered") : status[e] = "dispatched"}
    IN AtRest /\ dispatched # {} /\ mishaps \subseteq {"publish"} =>
        /\ \E e \in OfType("AlarmTriggered") : InBucket("projected_loss", log[e].at)
        /\ mishaps = {} => \E e \in dispatched :
               /\ \A f \in dispatched : f <= e
               /\ InBucket("projected_loss", log[e].at)

\* No plan without its per-day history, and no second history without a
\* failure to blame ("audit", mrp_runner.py).
PlansAreAudited ==
    /\ \A p \in Plans : history[log[p].trigger] > 0
    /\ \A r \in Requests : /\ history[r] <= 1 + faults
                           /\ history[r] > 1 => mishaps # {}

\* The purchase view is never behind a plan it was given, and never misses a
\* loss recorded before the request of a plan it was given.
ViewIsCurrent ==
    \A p \in Plans :
        /\ log[p].seen >= log[log[p].trigger].seen
        /\ status[p] = "dispatched" => /\ view.at >= p
                                       /\ view.seen >= log[p].seen

\* A request's purchase signal is not older than any plan it was given, unless
\* that older one comes again after a failed publish: the upsert has no time gate
\* (procurement_signal_projector.py:68).
SignalsFollowPlans ==
    \A p \in Plans :
        LET row == signals[log[p].trigger] IN
        status[p] = "dispatched" =>
            /\ row # None /\ log[row].trigger = log[p].trigger
            /\ row < p => attempts[row] > 0

AlarmOf(e) == [id |-> e, bucket |-> log[e].at \div Bucket]

Waiting  == IF pending = None THEN {} ELSE {AlarmOf(pending)}
Leaving  == {[thread |-> t, alarm |-> AlarmOf(timers[t].payload)] :
                t \in {u \in DOMAIN timers : timers[u].does = "emit"}}
Answered == {AlarmOf(log[r].trigger) :
                r \in {q \in Requests : log[q].reason = "projected_loss"}}

\* The scheduler keeps its promise whatever its timers do, cancelled in time,
\* late or forgotten, and however often the relay repeats an alarm: what waits
\* leaves once, and is answered once, in its bucket, unless an append failed or
\* the process died (mrp_recompute_scheduler.py, its docstring and _schedule).
Promise == INSTANCE Debounce WITH
    waiting <- Waiting, leaving <- Leaving, answered <- Answered

ImplementsDebounce == Promise!Spec
=============================================================================
