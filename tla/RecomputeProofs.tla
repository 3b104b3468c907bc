---------------------------- MODULE RecomputeProofs ----------------------------
(***************************************************************************)
(* From the alarm to the request, the plan and the rows that show it, for  *)
(* every number of triggers, times and failures: first that no pending     *)
(* recompute is stranded; then what the log, the view and the signal rows  *)
(* say.  Every step is one of three kinds, as the rows see it: nothing     *)
(* happens to them, a row that is no plan is appended, or the next row is  *)
(* published as far as some of its handlers.  Then that the scheduler      *)
(* implements the debouncer.  Last what a plan says: the walk it rests on  *)
(* and the order it suggests, for all inputs.                              *)
(***************************************************************************)
EXTENDS Functions, Folds, MCRecompute, NaturalFacts, SequenceTheorems,
        FiniteSetTheorems, TLAPS

TimerRecords == [does: {"wait", "late", "emit", "over"}, payload: Nat]

\* The log is a sequence, and the timer thread that is current waits.
SInv ==
    /\ \E S : log \in Seq(S)
    /\ timers \in Seq(TimerRecords)
    /\ pending \in Nat
    /\ armed \in Nat
    /\ PendingIsArmed

\* The row in hand is a row of the log, and so not None.
LEMMA NextRowIsARow ==
    ASSUME NEW S, log \in Seq(S), Ahead # {}
    PROVE  NextRow \in Nat \ {None}
<1>1. Ahead \subseteq 1..Len(log)
  BY DEF Ahead, Pending, Events
<1>2. \E e \in Ahead : \A f \in Ahead : e <= f
  BY <1>1, LeastNatural
<1>3. NextRow \in Ahead
  BY <1>2 DEF NextRow
<1> QED
  BY <1>1, <1>3 DEF None

LEMMA Appending ==
    ASSUME \E S : log \in Seq(S),
           NEW events, \E S : events \in Seq(S), log' = log \o events
    PROVE  (\E S : log \in Seq(S))'
<1>1. PICK S : log \in Seq(S)
  OBVIOUS
<1>2. PICK T : events \in Seq(T)
  OBVIOUS
<1>3. log \in Seq(S \cup T) /\ events \in Seq(S \cup T)
  BY <1>1, <1>2
<1>4. log' \in Seq(S \cup T)
  BY <1>3
<1> QED
  BY <1>4

LEMMA OneRowAtMost ==
    ASSUME NEW row, NEW s \in {<<>>, <<row>>}
    PROVE  \E S : s \in Seq(S)
<1>1. <<>> \in Seq({row})
  OBVIOUS
<1>2. <<row>> \in Seq({row})
  OBVIOUS
<1> QED
  BY <1>1, <1>2

LEMMA EmittedIsASequence ==
    ASSUME NEW t, NEW n
    PROVE  \E S : Emitted(t, n) \in Seq(S)
<1>1. PICK row : Emitted(t, n) \in {<<>>, <<row>>}
  BY DEF Emitted
<1> QED
  BY <1>1, OneRowAtMost

LEMMA AppendedIsASequence ==
    ASSUME NEW e, NEW done
    PROVE  \E S : Appended(e, done) \in Seq(S)
<1>1. CASE "emit" \in done
  BY <1>1, EmittedIsASequence DEF Appended
<1>2. CASE "emit" \notin done
  <2>1. PICK row : Appended(e, done) \in {<<>>, <<row>>}
    BY <1>2 DEF Appended
  <2> QED
    BY <2>1, OneRowAtMost
<1> QED
  BY <1>1, <1>2

-----------------------------------------------------------------------------

LEMMA InitEstablishes == Init => SInv
<1> SUFFICES ASSUME Init PROVE SInv
  OBVIOUS
<1>1. log \in Seq({}) /\ timers \in Seq(TimerRecords)
  BY DEF Init, WalkInit
<1> QED
  BY <1>1 DEF Init, SInv, PendingIsArmed, None

\* A step that leaves the scheduler alone.
LEMMA LogGrows ==
    ASSUME SInv, NEW events, \E S : events \in Seq(S), log' = log \o events,
           UNCHANGED schedVars
    PROVE  SInv'
<1>1. (\E S : log \in Seq(S))'
  BY Appending DEF SInv
<1> QED
  BY <1>1 DEF SInv, schedVars, PendingIsArmed

\* _schedule: the timer it starts is the current one.
LEMMA ScheduleArms ==
    ASSUME SInv, NEW e \in Nat \ {None}, Schedule(e),
           (\E S : log \in Seq(S))'
    PROVE  SInv'
<1> USE DEF SInv, TimerRecords, Timer, None
<1>1. PICK does \in {"over", "late"} : timers' = Restarted(armed, does)
  BY DEF Schedule
<1> DEFINE kept == IF armed = None THEN timers
                   ELSE [timers EXCEPT ![armed] = Timer(does, None)]
<1>2. kept \in Seq(TimerRecords) /\ Len(kept) = Len(timers)
  <2>1. Timer(does, None) \in TimerRecords
    OBVIOUS
  <2>2. CASE armed = None
    BY <2>2
  <2>3. CASE armed # None
    <3>1. kept = [timers EXCEPT ![armed] = Timer(does, None)]
      BY <2>3
    <3>2. armed \in 1..Len(timers)
      BY <2>3 DEF PendingIsArmed
    <3> HIDE DEF kept, Timer, TimerRecords
    <3> QED
      BY <2>1, <3>1, <3>2
  <2> QED
    BY <2>2, <2>3
<1>3. timers' = Append(kept, Timer("wait", None))
  BY <1>1 DEF Restarted
<1>4. Timer("wait", None) \in TimerRecords
  OBVIOUS
<1> HIDE DEF kept
<1>5. /\ timers' \in Seq(TimerRecords)
      /\ Len(timers') = Len(timers) + 1
      /\ timers'[Len(timers) + 1] = Timer("wait", None)
  BY <1>2, <1>3, <1>4
<1>6. pending' = e /\ armed' = Len(timers) + 1 /\ Len(timers) \in Nat
  BY DEF Schedule
<1> QED
  BY <1>5, <1>6 DEF PendingIsArmed

\* _fire: nothing is pending or current, whichever timer it was.
LEMMA FireDisarms ==
    ASSUME SInv, NEW t \in DOMAIN timers, Fire(t)
    PROVE  SInv'
<1>1. log' = log /\ pending' = None /\ armed' = None
  BY DEF Fire, walkVars
<1>2. timers' \in Seq(TimerRecords)
  BY DEF Fire, SInv, TimerRecords, Timer, None
<1> QED
  BY <1>1, <1>2 DEF SInv, PendingIsArmed, None

\* The end of a thread that emits is not the end of the current one.
LEMMA EmitKeepsArmed ==
    ASSUME SInv, NEW t \in DOMAIN timers, timers[t].does = "emit",
           timers' = [timers EXCEPT ![t] = Timer("over", None)],
           UNCHANGED <<pending, armed>>,
           (\E S : log \in Seq(S))'
    PROVE  SInv'
<1>1. timers' \in Seq(TimerRecords) /\ Len(timers') = Len(timers)
  BY DEF SInv, TimerRecords, Timer, None
<1>2. armed # None => timers'[armed] = timers[armed]
  BY DEF SInv, PendingIsArmed
<1> QED
  BY <1>1, <1>2 DEF SInv, PendingIsArmed

\* A publish, whatever becomes of its row.
LEMMA PublishPreserves ==
    ASSUME SInv, Ahead # {}, NEW done, Handled(NextRow, done),
           log' = log \o Appended(NextRow, done)
    PROVE  SInv'
<1>1. NextRow \in Nat \ {None}
  BY NextRowIsARow DEF SInv
<1>2. \E S : Appended(NextRow, done) \in Seq(S)
  BY AppendedIsASequence
<1>3. (\E S : log \in Seq(S))'
  BY <1>2, Appending DEF SInv
<1>4. CASE "schedule" \in done
  BY <1>1, <1>3, <1>4, ScheduleArms DEF Handled
<1>5. CASE "schedule" \notin done
  BY <1>2, <1>5, LogGrows DEF Handled
<1> QED
  BY <1>4, <1>5

\* A crash forgets the timers and what they were for.
LEMMA CrashDisarms ==
    ASSUME SInv, Crash
    PROVE  SInv'
<1>1. pending' = None /\ armed' = None
  BY DEF Crash
<1>2. timers' \in Seq(TimerRecords)
  <2>1. timers' = [t \in DOMAIN timers |-> Timer("over", None)]
    BY DEF Crash
  <2>2. Timer("over", None) \in TimerRecords
    BY DEF Timer, TimerRecords, None
  <2> QED
    BY <2>1, <2>2 DEF SInv
<1>3. (\E S : log \in Seq(S))'
  <2>1. CASE SettleNot(<<>>)
    <3>1. \E S : <<>> \in Seq(S)
      BY <<>> \in Seq({})
    <3> QED
      BY <2>1, <3>1, Appending DEF SettleNot, Commit, SInv
  <2>2. CASE \E done \in Partial(NextRow) : SettleNot(Appended(NextRow, done))
    <3>1. PICK done : SettleNot(Appended(NextRow, done))
      BY <2>2
    <3> QED
      BY <3>1, AppendedIsASequence, Appending DEF SettleNot, Commit, SInv
  <2> QED
    BY <2>1, <2>2 DEF Crash
<1> QED
  BY <1>1, <1>2, <1>3 DEF SInv, PendingIsArmed, None

LEMMA StepPreserves == SInv /\ [Next]_vars => SInv'
<1> SUFFICES ASSUME SInv, [Next]_vars PROVE SInv'
  OBVIOUS
<1>1. ASSUME NEW event, Written(event) PROVE SInv'
  <2>1. \E S : <<event>> \in Seq(S)
    BY <<event>> \in Seq({event})
  <2> QED
    BY <1>1, <2>1, LogGrows DEF Written, append_many, Commit
<1>2. CASE \E at \in Times : Alarm(at) \/ Recovery(at)
  BY <1>1, <1>2 DEF Alarm, Recovery
<1>3. CASE request_recompute
  BY <1>1, <1>3 DEF request_recompute
<1>4. ASSUME NEW t \in DOMAIN timers, Fire(t) PROVE SInv'
  BY <1>4, FireDisarms
<1>5. ASSUME NEW t \in DOMAIN timers, Emit(t) PROVE SInv'
  <2> DEFINE rows == Emitted(timers[t].payload, losses)
  <2>1. \E S : rows \in Seq(S)
    BY EmittedIsASequence
  <2>2. log' = log \o rows
    BY <1>5 DEF Emit, append_many, Commit
  <2> HIDE DEF rows
  <2>3. (\E S : log \in Seq(S))'
    BY <2>1, <2>2, Appending DEF SInv
  <2> QED
    BY <1>5, <2>3, EmitKeepsArmed DEF Emit
<1>6. ASSUME NEW t \in DOMAIN timers, EmitFails(t) PROVE SInv'
  <2>1. (\E S : log \in Seq(S))'
    BY <1>6 DEF EmitFails, SInv
  <2> QED
    BY <1>6, <2>1, EmitKeepsArmed DEF EmitFails
<1>7. CASE Deliver
  <2>1. PICK done : /\ Handled(NextRow, done)
                    /\ SettleDispatched(Appended(NextRow, done))
    BY <1>7 DEF Deliver
  <2> QED
    BY <1>7, <2>1, PublishPreserves DEF Deliver, SettleDispatched, Commit
<1>8. CASE DeliverFails
  <2>1. PICK done : /\ Handled(NextRow, done)
                    /\ SettleFailed(Appended(NextRow, done))
    BY <1>8 DEF DeliverFails
  <2> QED
    BY <1>8, <2>1, PublishPreserves DEF DeliverFails, SettleFailed, Commit
<1>9. CASE MarkFails
  <2>1. PICK done : /\ Handled(NextRow, done)
                    /\ SettleNot(Appended(NextRow, done))
    BY <1>9 DEF MarkFails
  <2> QED
    BY <1>9, <2>1, PublishPreserves DEF MarkFails, SettleNot, Commit
<1>10. CASE NextDrain
  BY <1>10 DEF NextDrain, StartOver, SInv, schedVars, PendingIsArmed
<1>11. CASE Crash
  BY <1>11, CrashDisarms
<1>12. CASE UNCHANGED vars
  BY <1>12 DEF vars, walkVars, schedVars, SInv, PendingIsArmed
<1> QED
  BY <1>2, <1>3, <1>4, <1>5, <1>6, <1>7, <1>8, <1>9, <1>10, <1>11, <1>12
  DEF Next

\* However alarms, firing timers, failures and crashes interleave, what is
\* pending has a timer that will still fire (_schedule and _fire).
THEOREM PendingNeverStranded == Spec => []PendingIsArmed
<1>1. SInv => PendingIsArmed
  BY DEF SInv
<1> QED
  BY <1>1, InitEstablishes, StepPreserves, PTL DEF Spec

-----------------------------------------------------------------------------
(* From the request to the plan and the rows that show it.                 *)

Marks == {"pending", "dispatched", "dead"}

RowsTyped ==
    /\ status \in [Events -> Marks]
    /\ attempts \in [Events -> Nat]
    /\ history \in [Events -> Nat]
    /\ signals \in [Events -> Nat]
    /\ cursor \in Nat /\ faults \in Nat /\ losses \in Nat

TInv == SInv /\ RowsTyped

LEMMA LogNumbers ==
    ASSUME SInv
    PROVE  Len(log) \in Nat /\ Events = 1..Len(log)
BY DEF SInv, Events

LEMMA NextRowAhead ==
    ASSUME SInv, Ahead # {}
    PROVE  NextRow \in Ahead /\ \A f \in Ahead : NextRow <= f
<1>1. Ahead \subseteq Nat
  BY LogNumbers DEF Ahead, Pending
<1>2. \E e \in Ahead : \A f \in Ahead : e <= f
  BY <1>1, LeastNatural
<1> QED
  BY <1>2 DEF NextRow

\* Nothing, or one row.
OneOrNone(rows) == rows = <<>> \/ \E row : rows = <<row>>

LEMMA EmittedOneOrNone ==
    ASSUME NEW t, NEW n
    PROVE  OneOrNone(Emitted(t, n))
BY DEF Emitted, OneOrNone

LEMMA AppendedOneOrNone ==
    ASSUME NEW e, NEW done
    PROVE  OneOrNone(Appended(e, done))
<1>1. CASE "emit" \in done
  BY <1>1, EmittedOneOrNone DEF Appended
<1>2. CASE "emit" \notin done
  BY <1>2 DEF Appended, OneOrNone
<1> QED
  BY <1>1, <1>2

\* What a step may do to the rows of the log.
New == Len(log) + 1

Grown(rows) ==
    /\ Events' = Events \cup (IF rows = <<>> THEN {} ELSE {New})
    /\ New \notin Events /\ \A e \in Events : e < New
    /\ \A e \in Events : log'[e] = log[e]
    /\ rows # <<>> => log'[New] = rows[1]

Pad(rows, v) == [i \in DOMAIN rows |-> v]

Column(new, old, v, rows) ==
    /\ \A e \in Events : new[e] = old[e]
    /\ rows # <<>> => new[New] = v

LEMMA LogGrowsBy ==
    ASSUME SInv, NEW rows, OneOrNone(rows), log' = log \o rows
    PROVE  Grown(rows)
<1>1. PICK S : log \in Seq(S)
  BY DEF SInv
<1>2. Len(log) \in Nat /\ Events = 1..Len(log)
  BY LogNumbers
<1>3. CASE rows = <<>>
  <2>1. log' = log
    BY <1>1, <1>3
  <2> QED
    BY <1>2, <1>3, <2>1 DEF Grown, Events, New
<1>4. ASSUME NEW row, rows = <<row>> PROVE Grown(rows)
  <2>1. log' = Append(log, row)
    BY <1>1, <1>4
  <2>2. log \in Seq(S \cup {row}) /\ row \in S \cup {row}
    BY <1>1
  <2>3. /\ DOMAIN log' = 1..(Len(log) + 1) /\ log'[Len(log) + 1] = row
        /\ \A e \in 1..Len(log) : log'[e] = log[e]
    BY <2>1, <2>2
  <2>4. rows # <<>> /\ rows[1] = row
    BY <1>4
  <2> QED
    BY <1>2, <2>3, <2>4 DEF Grown, Events, New
<1> QED
  BY <1>3, <1>4 DEF OneOrNone

LEMMA ColumnAppends ==
    ASSUME SInv, NEW row, Grown(<<row>>),
           NEW S, NEW old \in [Events -> S], NEW v \in S,
           NEW new, new = Append(old, v)
    PROVE  new \in [Events' -> S] /\ Column(new, old, v, <<row>>)
<1> DEFINE n == Len(log)
<1>1. n \in Nat /\ Events = 1..n /\ New = n + 1
  BY LogNumbers DEF New
<1> HIDE DEF n
<1>2. old \in Seq(S) /\ Len(old) = n
  BY <1>1
<1>3. /\ new \in Seq(S) /\ Len(new) = n + 1 /\ new[n + 1] = v
      /\ \A e \in 1..n : new[e] = old[e]
  BY <1>2
<1>4. new \in [1..(n + 1) -> S]
  BY <1>1, <1>3, LenProperties
<1>5. Events' = 1..(n + 1)
  <2>1. <<row>> # <<>>
    OBVIOUS
  <2> QED
    BY <1>1, <2>1 DEF Grown
<1> QED
  BY <1>1, <1>3, <1>4, <1>5 DEF Column

LEMMA ColumnGrows ==
    ASSUME SInv, NEW rows, OneOrNone(rows), Grown(rows),
           NEW S, NEW old \in [Events -> S], NEW v \in S,
           NEW new, new = old \o Pad(rows, v)
    PROVE  new \in [Events' -> S] /\ Column(new, old, v, rows)
<1>1. old \in Seq(S)
  BY LogNumbers
<1>2. CASE rows = <<>>
  <2>1. Pad(rows, v) = <<>>
    BY <1>2 DEF Pad
  <2>2. new = old
    BY <1>1, <2>1
  <2> QED
    BY <1>2, <2>2 DEF Grown, Column
<1>3. ASSUME NEW row, rows = <<row>>
      PROVE  new \in [Events' -> S] /\ Column(new, old, v, rows)
  <2>1. Pad(rows, v) = <<v>>
    BY <1>3 DEF Pad
  <2>2. new = Append(old, v)
    BY <1>1, <2>1
  <2> QED
    BY <1>3, <2>2, ColumnAppends
<1> QED
  BY <1>2, <1>3 DEF OneOrNone

-----------------------------------------------------------------------------
(* The three kinds of step, as the rows see them.                          *)

Columns(rows, st, counts, runs, sigs) ==
    /\ Grown(rows)
    /\ Column(status', st, "pending", rows)
    /\ Column(attempts', counts, 0, rows)
    /\ Column(history', runs, 0, rows)
    /\ Column(signals', sigs, None, rows)

\* Nothing happens to them.
Idle ==
    /\ UNCHANGED <<log, status, attempts, losses, history, view, signals>>
    /\ cursor' \in {cursor, 0}
    /\ faults' \in {faults, faults + 1}
    /\ mishaps # {} => mishaps' # {}

\* A row that is no plan is appended, or none.
Added(rows) ==
    /\ Columns(rows, status, attempts, history, signals)
    /\ rows # <<>> => /\ rows[1].type # "MRPPlanUpdated"
                      /\ rows[1].type = "MRPRecomputeRequested" => rows[1].seen = losses
    /\ UNCHANGED <<cursor, faults, losses, view, mishaps>>

\* The next row is published, as far as done.
Settled(e, done, st, counts) ==
    \/ /\ done \in Whole(e)
       /\ st = [status EXCEPT ![e] = "dispatched"]
       /\ counts = attempts /\ cursor' = e
       /\ UNCHANGED <<faults, mishaps>>
    \/ /\ counts = [attempts EXCEPT ![e] = @ + 1] /\ cursor' = e
       /\ st = [status EXCEPT ![e] =
                    IF counts[e] >= MAX_ATTEMPTS THEN "dead" ELSE "pending"]
       /\ faults' = faults + 1 /\ mishaps' # {}
    \/ /\ st = status /\ counts = attempts /\ cursor' = 0
       /\ faults' = faults + 1 /\ mishaps' # {}

Published(e, done) ==
    /\ e = NextRow /\ Ahead # {}
    /\ done \in Partial(e)
    /\ losses' = Charged(done)
    /\ view' = IF "project" \in done THEN Project(log[e]) ELSE view
    /\ \E st \in [Events -> Marks], counts \in [Events -> Nat] :
           /\ Settled(e, done, st, counts)
           /\ Columns(Appended(e, done), st, counts, Ran(e, done), Signalled(e, done))

LEMMA ColumnsGrow ==
    ASSUME TInv, NEW rows, OneOrNone(rows),
           NEW st \in [Events -> Marks], NEW counts \in [Events -> Nat],
           NEW runs \in [Events -> Nat], NEW sigs \in [Events -> Nat],
           Commit(rows, st, counts),
           history' = runs \o Pad(rows, 0), signals' = sigs \o Pad(rows, None)
    PROVE  /\ Columns(rows, st, counts, runs, sigs)
           /\ status' \in [Events' -> Marks] /\ attempts' \in [Events' -> Nat]
           /\ history' \in [Events' -> Nat] /\ signals' \in [Events' -> Nat]
<1>1. Grown(rows)
  BY LogGrowsBy DEF TInv, Commit
<1>2. status' \in [Events' -> Marks] /\ Column(status', st, "pending", rows)
  <2>1. "pending" \in Marks
    BY DEF Marks
  <2>2. status' = st \o Pad(rows, "pending")
    BY DEF Commit, Pad
  <2> QED
    BY <1>1, <2>1, <2>2, ColumnGrows DEF TInv
<1>3. attempts' \in [Events' -> Nat] /\ Column(attempts', counts, 0, rows)
  <2> DEFINE zero == 0
  <2>1. attempts' = counts \o Pad(rows, zero) /\ zero \in Nat
    BY DEF Commit, Pad
  <2> HIDE DEF zero
  <2>2. attempts' \in [Events' -> Nat] /\ Column(attempts', counts, zero, rows)
    BY <1>1, <2>1, ColumnGrows DEF TInv
  <2> QED
    BY <2>2 DEF zero
<1>4. history' \in [Events' -> Nat] /\ Column(history', runs, 0, rows)
  <2> DEFINE zero == 0
  <2>1. history' = runs \o Pad(rows, zero) /\ zero \in Nat
    OBVIOUS
  <2> HIDE DEF zero
  <2>2. history' \in [Events' -> Nat] /\ Column(history', runs, zero, rows)
    BY <1>1, <2>1, ColumnGrows DEF TInv
  <2> QED
    BY <2>2 DEF zero
<1>5. signals' \in [Events' -> Nat] /\ Column(signals', sigs, None, rows)
  <2>1. None \in Nat
    BY DEF None
  <2> QED
    BY <1>1, <2>1, ColumnGrows DEF TInv
<1> QED
  BY <1>1, <1>2, <1>3, <1>4, <1>5 DEF Columns

LEMMA AheadFacts ==
    ASSUME TInv, Ahead # {}
    PROVE  /\ NextRow \in Events /\ NextRow \in Nat \ {None} /\ status[NextRow] = "pending"
           /\ NextRow > cursor
           /\ \A f \in Events : status[f] = "pending" /\ f < NextRow => f <= cursor
<1>1. NextRow \in Ahead /\ \A f \in Ahead : NextRow <= f
  BY NextRowAhead DEF TInv
<1>2. Events \subseteq Nat \ {None} /\ cursor \in Nat
  BY LogNumbers DEF TInv, RowsTyped, None
<1> QED
  BY <1>1, <1>2 DEF Ahead, Pending

LEMMA BusinessTyped ==
    ASSUME TInv, NEW e \in Events, NEW done
    PROVE  /\ Ran(e, done) \in [Events -> Nat]
           /\ Signalled(e, done) \in [Events -> Nat]
           /\ Charged(done) \in Nat
<1>1. e \in Nat
  BY LogNumbers DEF TInv
<1>2. history[e] + 1 \in Nat
  BY <1>1 DEF TInv, RowsTyped
<1>3. Ran(e, done) \in [Events -> Nat]
  BY <1>2 DEF TInv, RowsTyped, Ran
<1>4. Signalled(e, done) \in [Events -> Nat]
  BY <1>1 DEF TInv, RowsTyped, Signalled
<1>5. Charged(done) \in Nat
  BY DEF TInv, RowsTyped, Charged
<1> QED
  BY <1>3, <1>4, <1>5

\* A publish as the rows see it, whatever becomes of its row.
LEMMA PublishShape ==
    ASSUME TInv, Ahead # {}, NEW done \in Partial(NextRow),
           Business(NextRow, done),
           NEW st \in [Events -> Marks], NEW counts \in [Events -> Nat],
           Settled(NextRow, done, st, counts),
           Commit(Appended(NextRow, done), st, counts)
    PROVE  RowsTyped' /\ Published(NextRow, done)
<1> DEFINE e == NextRow
           rows == Appended(e, done)
<1>1. e \in Events /\ e \in Nat
  BY AheadFacts
<1>2. OneOrNone(rows)
  BY AppendedOneOrNone
<1>3. /\ Ran(e, done) \in [Events -> Nat] /\ Signalled(e, done) \in [Events -> Nat]
      /\ Charged(done) \in Nat
  BY <1>1, BusinessTyped
<1>4. /\ history' = Ran(e, done) \o Pad(rows, 0)
      /\ signals' = Signalled(e, done) \o Pad(rows, None)
      /\ losses' = Charged(done)
      /\ view' = IF "project" \in done THEN Project(log[e]) ELSE view
  BY DEF Business, Pad
<1> HIDE DEF e, rows
<1>5. /\ Columns(rows, st, counts, Ran(e, done), Signalled(e, done))
      /\ status' \in [Events' -> Marks] /\ attempts' \in [Events' -> Nat]
      /\ history' \in [Events' -> Nat] /\ signals' \in [Events' -> Nat]
  <2>1. Commit(rows, st, counts)
    BY DEF rows, e
  <2> QED
    BY <1>2, <1>3, <1>4, <2>1, ColumnsGrow
<1>6. cursor' \in Nat /\ faults' \in Nat
  BY <1>1 DEF Settled, TInv, RowsTyped, e
<1>7. RowsTyped'
  BY <1>3, <1>4, <1>5, <1>6 DEF RowsTyped
<1>8. Published(NextRow, done)
  BY <1>4, <1>5 DEF Published, e, rows
<1> QED
  BY <1>7, <1>8

StepShape ==
    \/ Idle
    \/ \E rows : Added(rows)
    \/ \E done : Published(NextRow, done)

LEMMA IdleShape ==
    ASSUME TInv, Idle
    PROVE  RowsTyped' /\ StepShape
<1>1. Events' = Events /\ status' = status /\ attempts' = attempts
      /\ history' = history /\ signals' = signals /\ losses' = losses
  BY DEF Idle, Events
<1>2. cursor' \in Nat /\ faults' \in Nat
  BY DEF Idle, TInv, RowsTyped
<1> QED
  BY <1>1, <1>2 DEF TInv, RowsTyped, StepShape

\* Rows that are no plans, from outside a publish.
LEMMA AppendAdds ==
    ASSUME TInv, NEW rows, OneOrNone(rows), append_many(rows),
           history' = history \o Pad(rows, 0), signals' = signals \o Pad(rows, None),
           rows # <<>> =>
               /\ rows[1].type # "MRPPlanUpdated"
               /\ rows[1].type = "MRPRecomputeRequested" => rows[1].seen = losses,
           UNCHANGED <<faults, losses, view, mishaps>>
    PROVE  RowsTyped' /\ Added(rows)
<1>1. Commit(rows, status, attempts) /\ cursor' = cursor
  BY DEF append_many
<1>2. /\ status \in [Events -> Marks] /\ attempts \in [Events -> Nat]
      /\ history \in [Events -> Nat] /\ signals \in [Events -> Nat]
  BY DEF TInv, RowsTyped
<1>3. /\ Columns(rows, status, attempts, history, signals)
      /\ status' \in [Events' -> Marks] /\ attempts' \in [Events' -> Nat]
      /\ history' \in [Events' -> Nat] /\ signals' \in [Events' -> Nat]
  BY <1>1, <1>2, ColumnsGrow
<1>4. cursor' \in Nat /\ faults' \in Nat /\ losses' \in Nat
  BY <1>1 DEF TInv, RowsTyped
<1> QED
  BY <1>1, <1>3, <1>4 DEF RowsTyped, Added

LEMMA WrittenAdds ==
    ASSUME TInv, NEW event, Written(event),
           event.type # "MRPPlanUpdated",
           event.type = "MRPRecomputeRequested" => event.seen = losses
    PROVE  RowsTyped' /\ \E rows : Added(rows)
<1> DEFINE rows == <<event>>
<1>1. /\ OneOrNone(rows) /\ rows[1] = event
      /\ Pad(rows, 0) = <<0>> /\ Pad(rows, None) = <<None>>
  BY DEF OneOrNone, Pad
<1>2. history \in Seq(Nat) /\ signals \in Seq(Nat)
  <2>1. /\ history \in [1..Len(log) -> Nat] /\ signals \in [1..Len(log) -> Nat]
        /\ Len(log) \in Nat
    BY LogNumbers DEF TInv, RowsTyped
  <2> QED
    BY <2>1
<1>3. history' = Append(history, 0) /\ signals' = Append(signals, None)
  BY DEF Written
<1>4. history' = history \o Pad(rows, 0) /\ signals' = signals \o Pad(rows, None)
  <2>1. Append(history, None) = history \o <<None>>
    BY <1>2
  <2>2. Append(signals, None) = signals \o <<None>>
    BY <1>2
  <2> HIDE DEF rows
  <2> QED
    BY <1>1, <1>3, <2>1, <2>2, Zenon DEF None
<1>5. append_many(rows) /\ UNCHANGED <<faults, losses, view, mishaps>>
  BY DEF Written
<1> HIDE DEF rows
<1> QED
  BY <1>1, <1>4, <1>5, AppendAdds

LEMMA EmitAdds ==
    ASSUME TInv, NEW t, Emit(t)
    PROVE  RowsTyped' /\ \E rows : Added(rows)
<1> DEFINE rows == Emitted(timers[t].payload, losses)
<1>1. OneOrNone(rows)
  BY EmittedOneOrNone
<1>2. rows # <<>> => rows[1].type = "MRPRecomputeRequested" /\ rows[1].seen = losses
  BY DEF Emitted, Event
<1>3. /\ append_many(rows)
      /\ history' = history \o Pad(rows, 0) /\ signals' = signals \o Pad(rows, None)
      /\ UNCHANGED <<faults, losses, view, mishaps>>
  BY DEF Emit, NewRows, Pad
<1> HIDE DEF rows
<1> QED
  BY <1>1, <1>2, <1>3, AppendAdds

LEMMA SettlingShape ==
    ASSUME TInv, Deliver \/ DeliverFails \/ MarkFails
    PROVE  /\ RowsTyped'
           /\ \E done \in Partial(NextRow) :
                  Handled(NextRow, done) /\ Published(NextRow, done)
<1> DEFINE e == NextRow
<1>1. e \in Events /\ status[e] = "pending"
  BY AheadFacts DEF Deliver, DeliverFails, MarkFails
<1>2. /\ status \in [Events -> Marks] /\ attempts \in [Events -> Nat]
      /\ [status EXCEPT ![e] = "dispatched"] \in [Events -> Marks]
      /\ [status EXCEPT ![e] = "dead"] \in [Events -> Marks]
      /\ [attempts EXCEPT ![e] = @ + 1] \in [Events -> Nat]
  BY <1>1 DEF TInv, RowsTyped, Marks
<1>3. \A done \in Whole(e) :
         \/ done \in Partial(e)
         \/ done = {} /\ (e \in Requests \/ RaisesClosed(e))
  BY DEF Whole
<1>4. e \in Requests \/ RaisesClosed(e) => {} \in Partial(e)
  BY DEF Partial, Requests, OfType, RaisesClosed, Runner
<1>5. CASE Deliver
  <2>1. PICK done \in Whole(e) : Handled(e, done) /\ SettleDispatched(Appended(e, done))
    BY <1>5 DEF Deliver
  <2>2. /\ Ahead # {} /\ done \in Partial(e) /\ Business(e, done)
        /\ UNCHANGED <<faults, mishaps>>
    BY <1>3, <1>4, <1>5, <2>1 DEF Deliver, Handled
  <2> DEFINE st == [status EXCEPT ![e] = "dispatched"]
  <2>3. Settled(e, done, st, attempts) /\ Commit(Appended(e, done), st, attempts)
    BY <2>1, <2>2 DEF SettleDispatched, Settled
  <2> HIDE DEF st
  <2>4. st \in [Events -> Marks] /\ attempts \in [Events -> Nat]
    BY <1>2 DEF st
  <2> HIDE DEF e
  <2>5. RowsTyped' /\ Published(NextRow, done)
    BY <2>2, <2>3, <2>4, PublishShape DEF e
  <2> QED
    BY <2>1, <2>2, <2>5 DEF e
<1>6. CASE DeliverFails
  <2>1. PICK done \in Partial(e) : Handled(e, done) /\ SettleFailed(Appended(e, done))
    BY <1>6 DEF DeliverFails
  <2>2. /\ Ahead # {} /\ Business(e, done)
        /\ faults' = faults + 1 /\ mishaps' = mishaps \cup {"publish"}
    BY <1>6, <2>1 DEF DeliverFails, Handled, Fault
  <2> DEFINE counts == [attempts EXCEPT ![e] = @ + 1]
             st == [status EXCEPT ![e] =
                       IF counts[e] >= MAX_ATTEMPTS THEN "dead" ELSE @]
  <2>3. st = [status EXCEPT ![e] =
                  IF counts[e] >= MAX_ATTEMPTS THEN "dead" ELSE "pending"]
    <3>1. status[e] = "pending"
      BY <1>1, <2>2
    <3> QED
      BY <3>1
  <2>4. Commit(Appended(e, done), st, counts) /\ cursor' = e
    BY <2>1 DEF SettleFailed
  <2>5. counts \in [Events -> Nat] /\ st \in [Events -> Marks]
    BY <1>2, <2>3 DEF TInv, RowsTyped, Marks
  <2>6. counts = [attempts EXCEPT ![e] = @ + 1]
    OBVIOUS
  <2> HIDE DEF st, counts
  <2>7. Settled(e, done, st, counts)
    BY <2>2, <2>3, <2>4, <2>6 DEF Settled
  <2> HIDE DEF e
  <2>8. RowsTyped' /\ Published(NextRow, done)
    BY <2>1, <2>2, <2>4, <2>5, <2>7, PublishShape DEF e
  <2> QED
    BY <2>1, <2>8 DEF e
<1>7. CASE MarkFails
  <2>1. PICK done \in Partial(e) : Handled(e, done) /\ SettleNot(Appended(e, done))
    BY <1>7 DEF MarkFails
  <2>2. /\ Ahead # {} /\ Business(e, done)
        /\ faults' = faults + 1 /\ mishaps' = mishaps \cup {"publish"}
    BY <1>7, <2>1 DEF MarkFails, Handled, Fault
  <2>3. Commit(Appended(e, done), status, attempts) /\ Settled(e, done, status, attempts)
    BY <2>1, <2>2 DEF SettleNot, Settled
  <2> HIDE DEF e
  <2>4. RowsTyped' /\ Published(NextRow, done)
    BY <1>2, <2>1, <2>2, <2>3, PublishShape DEF e
  <2> QED
    BY <2>1, <2>4 DEF e
<1> QED
  BY <1>5, <1>6, <1>7

LEMMA CrashShape ==
    ASSUME TInv, Crash
    PROVE  RowsTyped' /\ StepShape
<1>1. faults' = faults + 1 /\ mishaps' = mishaps \cup {"crash"}
  BY DEF Crash, Fault
<1>2. status \in [Events -> Marks] /\ attempts \in [Events -> Nat]
  BY DEF TInv, RowsTyped
<1>3. CASE SettleNot(<<>>) /\ UNCHANGED bizVars
  <2> PICK S : log \in Seq(S)
    BY DEF TInv, SInv
  <2>1. status \in Seq(Marks) /\ attempts \in Seq(Nat)
    <3>1. /\ status \in [1..Len(log) -> Marks] /\ attempts \in [1..Len(log) -> Nat]
          /\ Len(log) \in Nat
      BY <1>2, LogNumbers DEF TInv
    <3> QED
      BY <3>1
  <2>2. \A v : [i \in DOMAIN <<>> |-> v] = <<>>
    OBVIOUS
  <2>3. log' = log /\ status' = status /\ attempts' = attempts /\ cursor' = 0
    BY <1>3, <2>1, <2>2 DEF SettleNot, Commit
  <2>4. Idle
    BY <1>1, <1>3, <2>3 DEF Idle, bizVars
  <2> QED
    BY <2>4, IdleShape
<1>4. ASSUME Ahead # {}, NEW done \in Partial(NextRow), Business(NextRow, done),
             SettleNot(Appended(NextRow, done))
      PROVE  RowsTyped' /\ StepShape
  <2>1. /\ Commit(Appended(NextRow, done), status, attempts)
        /\ Settled(NextRow, done, status, attempts)
    BY <1>1, <1>4 DEF SettleNot, Settled
  <2>2. RowsTyped' /\ Published(NextRow, done)
    BY <1>2, <1>4, <2>1, PublishShape
  <2> QED
    BY <2>2 DEF StepShape
<1> QED
  BY <1>3, <1>4 DEF Crash

\* Every step is of one of the three kinds.
LEMMA EveryStepHasAShape ==
    ASSUME TInv, [Next]_vars
    PROVE  RowsTyped' /\ StepShape
<1>1. CASE \E at \in Times : Alarm(at) \/ Recovery(at)
  <2>1. PICK at \in Times : Alarm(at) \/ Recovery(at)
    BY <1>1
  <2>2. PICK type \in {"AlarmTriggered", "StateChanged"} :
            Written(Event(type, at, "", None, 0))
    BY <2>1 DEF Alarm, Recovery
  <2> DEFINE event == Event(type, at, "", None, 0)
  <2>3. event.type # "MRPPlanUpdated" /\ event.type # "MRPRecomputeRequested"
    BY DEF Event
  <2> HIDE DEF event
  <2> QED
    BY <2>2, <2>3, WrittenAdds DEF event, StepShape
<1>2. CASE request_recompute
  <2> DEFINE event == Event("MRPRecomputeRequested", 0, "manual", None, losses)
  <2>1. event.type # "MRPPlanUpdated" /\ event.seen = losses
    BY DEF Event
  <2>2. Written(event)
    BY <1>2 DEF request_recompute
  <2> HIDE DEF event
  <2> QED
    BY <2>1, <2>2, WrittenAdds DEF StepShape
<1>3. CASE \E t \in DOMAIN timers : Fire(t) \/ EmitFails(t)
  <2>1. Idle
    BY <1>3 DEF Fire, EmitFails, Fault, Idle, walkVars, bizVars
  <2> QED
    BY <2>1, IdleShape
<1>4. CASE \E t \in DOMAIN timers : Emit(t)
  BY <1>4, EmitAdds DEF StepShape
<1>5. CASE Deliver \/ DeliverFails \/ MarkFails
  BY <1>5, SettlingShape DEF StepShape
<1>6. CASE NextDrain
  <2>1. Idle
    BY <1>6 DEF NextDrain, StartOver, Idle, bizVars
  <2> QED
    BY <2>1, IdleShape
<1>7. CASE Crash
  BY <1>7, CrashShape
<1>8. CASE UNCHANGED vars
  <2>1. Idle
    BY <1>8 DEF Idle, vars, walkVars, bizVars
  <2> QED
    BY <2>1, IdleShape
<1> QED
  BY <1>1, <1>2, <1>3, <1>4, <1>5, <1>6, <1>7, <1>8 DEF Next

-----------------------------------------------------------------------------
(* What the log says of requests and plans.                                *)

LEMMA PartialOfARequest ==
    ASSUME NEW e \in Requests
    PROVE  Partial(e) = Runner
<1>1. ~RaisesClosed(e) /\ e \notin Plans /\ log[e].type # "AlarmTriggered"
  BY DEF Requests, Plans, OfType, RaisesClosed
<1> QED
  BY <1>1 DEF Partial

LEMMA PartialOfAPlan ==
    ASSUME NEW e \in Plans
    PROVE  Partial(e) = SUBSET {"project", "signal"}
<1>1. ~RaisesClosed(e) /\ e \notin Requests /\ log[e].type # "AlarmTriggered"
  BY DEF Requests, Plans, OfType, RaisesClosed
<1> QED
  BY <1>1 DEF Partial

LEMMA PartialOfOthers ==
    ASSUME NEW e \in Events, e \notin Requests, e \notin Plans, NEW done \in Partial(e)
    PROVE  /\ "history" \notin done /\ "plan" \notin done
           /\ "project" \notin done /\ "signal" \notin done
<1>1. e \in Requests <=> log[e].type = "MRPRecomputeRequested"
  BY DEF Requests, OfType
<1>2. e \in Plans <=> log[e].type = "MRPPlanUpdated"
  BY DEF Plans, OfType
<1>3. CASE RaisesClosed(e)
  <2>1. Partial(e) = SUBSET {"charge", "emit"}
    <3>1. log[e].type # "AlarmTriggered"
      BY <1>3 DEF RaisesClosed
    <3> QED
      BY <1>3, <3>1 DEF Partial
  <2> QED
    BY <2>1
<1>4. CASE ~RaisesClosed(e) /\ log[e].type = "AlarmTriggered"
  <2>1. Partial(e) = {{}, {"schedule"}}
    BY <1>4 DEF Partial
  <2> QED
    BY <2>1
<1>5. CASE ~RaisesClosed(e) /\ log[e].type # "AlarmTriggered"
  <2>1. Partial(e) = {{}}
    BY <1>5 DEF Partial
  <2> QED
    BY <2>1
<1> QED
  BY <1>3, <1>4, <1>5

\* Only a plan's publish touches the two views, and a request's the history.
LEMMA WhoDoesWhat ==
    ASSUME NEW e \in Events, NEW done \in Partial(e)
    PROVE  /\ "history" \in done \/ "plan" \in done => e \in Requests
           /\ "plan" \in done => "history" \in done /\ "emit" \notin done
           /\ "project" \in done \/ "signal" \in done => e \in Plans
           /\ e \in Plans /\ done \in Whole(e) => "project" \in done /\ "signal" \in done
<1>1. CASE e \in Requests
  <2>1. e \notin Plans
    BY <1>1 DEF Requests, Plans, OfType
  <2> QED
    BY <1>1, <2>1, PartialOfARequest DEF Runner
<1>2. CASE e \in Plans
  <2>1. Partial(e) = SUBSET {"project", "signal"}
    BY <1>2, PartialOfAPlan
  <2>2. e \notin Requests
    BY <1>2 DEF Requests, Plans, OfType
  <2>3. ASSUME done \in Whole(e) PROVE "project" \in done /\ "signal" \in done
    <3>1. \A S \in Partial(e) : S \subseteq done
      <4>1. ~RaisesClosed(e)
        BY <1>2 DEF RaisesClosed, Plans, OfType
      <4> QED
        BY <2>2, <2>3, <4>1 DEF Whole
    <3>2. {"project", "signal"} \in Partial(e)
      BY <2>1
    <3> QED
      BY <3>1, <3>2
  <2> QED
    BY <1>2, <2>1, <2>2, <2>3
<1>3. CASE e \notin Requests /\ e \notin Plans
  BY <1>3, PartialOfOthers
<1> QED
  BY <1>1, <1>2, <1>3

\* The row a step adds, if any: a request knows the losses of its moment, and
\* a plan those, the row it answers and its own place.
Row(rows) ==
    rows # <<>> =>
        /\ rows[1].type = "MRPRecomputeRequested" => rows[1].seen = losses'
        /\ rows[1].type = "MRPPlanUpdated" =>
               /\ rows[1].at = New /\ rows[1].seen = losses'
               /\ rows[1].trigger \in Requests /\ history'[rows[1].trigger] > 0

LEMMA PublishedRow ==
    ASSUME TInv, NEW done, Published(NextRow, done)
    PROVE  Row(Appended(NextRow, done)) /\ losses' \in Nat /\ losses' >= losses
<1> DEFINE e == NextRow
           rows == Appended(e, done)
<1>1. e \in Events /\ done \in Partial(e) /\ losses' = Charged(done)
  BY AheadFacts DEF Published
<1>2. /\ "plan" \in done => e \in Requests /\ "history" \in done /\ "emit" \notin done
      /\ e \in Requests => "charge" \notin done
  <2>1. e \in Requests => "charge" \notin done
    BY <1>1, PartialOfARequest DEF Runner
  <2> QED
    BY <1>1, <2>1, WhoDoesWhat
<1>3. losses' \in Nat /\ losses' >= losses /\ ("charge" \notin done => losses' = losses)
  BY <1>1 DEF Charged, TInv, RowsTyped
<1>4. CASE "emit" \in done
  BY <1>1, <1>3, <1>4 DEF Appended, Emitted, Event, Row
<1>5. CASE "plan" \in done
  <2>1. rows = <<Event("MRPPlanUpdated", New, log[e].reason, e, losses)>>
    BY <1>2, <1>5 DEF Appended, New
  <2>2. e \in Requests /\ losses' = losses
    BY <1>2, <1>3, <1>5
  <2>3. history'[e] > 0
    <3>1. Column(history', Ran(e, done), 0, rows)
      BY DEF Published, Columns
    <3>2. Ran(e, done)[e] = history[e] + 1 /\ history[e] \in Nat
      BY <1>1, <1>2, <1>5 DEF Ran, TInv, RowsTyped
    <3> QED
      BY <1>1, <3>1, <3>2 DEF Column
  <2>4. /\ rows[1].type = "MRPPlanUpdated" /\ rows[1].at = New
        /\ rows[1].seen = losses /\ rows[1].trigger = e
    BY <2>1 DEF Event
  <2> HIDE DEF rows, e
  <2>5. Row(rows)
    BY <2>2, <2>3, <2>4 DEF Row
  <2> QED
    BY <1>3, <2>5 DEF rows, e
<1>6. CASE "emit" \notin done /\ "plan" \notin done
  BY <1>3, <1>6 DEF Appended, Row
<1> QED
  BY <1>4, <1>5, <1>6

\* Old and new rows of a log that has grown.
LEMMA RowsOf ==
    ASSUME SInv, NEW rows, Grown(rows)
    PROVE  /\ Events' \subseteq Events \cup {New} /\ Events \subseteq Events'
           /\ New \in Events' => rows # <<>> /\ log'[New] = rows[1]
           /\ Requests \subseteq Requests' /\ Plans \subseteq Plans'
           /\ \A f \in Requests' : f \in Requests \/ f = New
           /\ \A f \in Plans' : f \in Plans \/ f = New
           /\ New \in Requests' => rows[1].type = "MRPRecomputeRequested"
           /\ New \in Plans' => rows[1].type = "MRPPlanUpdated"
           /\ New \in Nat /\ Events \subseteq Nat \ {0}
<1>1. /\ Events' \subseteq Events \cup {New} /\ Events \subseteq Events'
      /\ New \in Events' => rows # <<>> /\ log'[New] = rows[1]
      /\ \A e \in Events : log'[e] = log[e]
  BY DEF Grown
<1>2. New \in Nat /\ Events \subseteq Nat \ {0}
  BY LogNumbers DEF New
<1> QED
  BY <1>1, <1>2 DEF Requests, Plans, OfType

LogInv ==
    /\ \A r \in Requests : log[r].seen \in Nat /\ log[r].seen <= losses
    /\ \A p \in Plans :
           /\ log[p].at = p /\ log[p].seen \in Nat /\ log[p].seen <= losses
           /\ log[p].trigger \in Requests /\ history[log[p].trigger] > 0
           /\ log[log[p].trigger].seen <= log[p].seen
    /\ \A p, q \in Plans : p <= q => log[p].seen <= log[q].seen

LEMMA LogInvGrows ==
    ASSUME TInv, LogInv, NEW rows, Grown(rows), Row(rows),
           losses' \in Nat, losses' >= losses,
           \A f \in Events : history'[f] \in Nat /\ history'[f] >= history[f]
    PROVE  LogInv'
<1>1. /\ \A f \in Requests' : f \in Requests \/ f = New
      /\ \A f \in Plans' : f \in Plans \/ f = New
      /\ Requests \subseteq Requests'
      /\ New \in Requests' => rows[1].type = "MRPRecomputeRequested"
      /\ New \in Plans' => rows[1].type = "MRPPlanUpdated"
      /\ New \in Requests' \cup Plans' => rows # <<>> /\ log'[New] = rows[1]
      /\ New \in Nat /\ Events \subseteq Nat
  BY RowsOf DEF TInv, Requests, Plans, OfType
<1>2. /\ \A e \in Events : log'[e] = log[e] /\ e < New
      /\ Requests \subseteq Events /\ Plans \subseteq Events
      /\ losses \in Nat /\ history \in [Events -> Nat]
  BY DEF Grown, Requests, Plans, OfType, TInv, RowsTyped
<1>3. \A r \in Requests' : log'[r].seen \in Nat /\ log'[r].seen <= losses'
  BY <1>1, <1>2 DEF Row, LogInv
<1>4. ASSUME NEW p \in Plans'
      PROVE  /\ log'[p].at = p /\ log'[p].seen \in Nat /\ log'[p].seen <= losses'
             /\ log'[p].trigger \in Requests' /\ history'[log'[p].trigger] > 0
             /\ log'[log'[p].trigger].seen <= log'[p].seen
  <2>1. CASE p \in Plans
    <3>1. log'[p] = log[p] /\ log[p].trigger \in Requests
      BY <1>2, <2>1 DEF LogInv
    <3>2. log'[log[p].trigger] = log[log[p].trigger]
      BY <1>2, <3>1
    <3>3. history'[log[p].trigger] > 0
      BY <1>2, <2>1, <3>1 DEF LogInv
    <3>4. /\ log[p].at = p /\ log[p].seen \in Nat /\ log[p].seen <= losses
          /\ log[log[p].trigger].seen <= log[p].seen
      BY <2>1 DEF LogInv
    <3>5. log[p].seen <= losses'
      BY <1>2, <3>4
    <3> QED
      BY <1>1, <3>1, <3>2, <3>3, <3>4, <3>5
  <2>2. CASE p = New
    <3>1. /\ log'[p].at = New /\ log'[p].seen = losses'
          /\ log'[p].trigger \in Requests /\ history'[log'[p].trigger] > 0
      BY <1>1, <2>2 DEF Row
    <3>2. log'[log'[p].trigger].seen <= losses'
      BY <1>1, <1>3, <3>1
    <3> QED
      BY <1>1, <2>2, <3>1, <3>2
  <2> QED
    BY <1>1, <2>1, <2>2
<1>5. ASSUME NEW p \in Plans', NEW q \in Plans', p <= q
      PROVE  log'[p].seen <= log'[q].seen
  <2>1. CASE q \in Plans
    <3>1. p \in Plans
      BY <1>1, <1>2, <1>5, <2>1
    <3> QED
      BY <1>2, <1>5, <2>1, <3>1 DEF LogInv
  <2>2. CASE q = New
    <3>1. log'[q].seen = losses'
      BY <1>1, <2>2 DEF Row
    <3> QED
      BY <1>4, <3>1
  <2> QED
    BY <1>1, <2>1, <2>2
<1> QED
  BY <1>3, <1>4, <1>5 DEF LogInv

-----------------------------------------------------------------------------
(* What becomes of the rows a publish finds, one by one.                   *)

Outcome(e, done) ==
    \/ /\ done \in Whole(e) /\ status'[e] = "dispatched"
       /\ attempts'[e] = attempts[e] /\ cursor' = e
       /\ UNCHANGED <<faults, mishaps>>
    \/ /\ status'[e] = IF attempts'[e] >= MAX_ATTEMPTS THEN "dead" ELSE "pending"
       /\ attempts'[e] = attempts[e] + 1 /\ cursor' = e
       /\ faults' = faults + 1 /\ mishaps' # {}
    \/ /\ status'[e] = "pending"
       /\ attempts'[e] = attempts[e] /\ cursor' = 0
       /\ faults' = faults + 1 /\ mishaps' # {}

Fresh == New \in Events' =>
             /\ status'[New] = "pending" /\ attempts'[New] = 0
             /\ history'[New] = 0 /\ signals'[New] = None

LEMMA RowByRow ==
    ASSUME TInv, NEW done, Published(NextRow, done)
    PROVE  /\ \A f \in Events \ {NextRow} :
                  /\ status'[f] = status[f] /\ attempts'[f] = attempts[f]
                  /\ history'[f] = history[f]
           /\ Outcome(NextRow, done)
           /\ \A f \in Events : signals'[f] = Signalled(NextRow, done)[f]
           /\ history'[NextRow] =
                  IF "history" \in done THEN history[NextRow] + 1 ELSE history[NextRow]
           /\ Fresh
<1> DEFINE e == NextRow
           rows == Appended(e, done)
<1>1. PICK st \in [Events -> Marks], counts \in [Events -> Nat] :
          /\ Settled(e, done, st, counts)
          /\ Columns(rows, st, counts, Ran(e, done), Signalled(e, done))
  BY DEF Published
<1>2. e \in Events
  BY AheadFacts DEF Published
<1> HIDE DEF e, rows
<1>3. /\ \A f \in Events : /\ status'[f] = st[f] /\ attempts'[f] = counts[f]
                           /\ history'[f] = Ran(e, done)[f]
                           /\ signals'[f] = Signalled(e, done)[f]
      /\ rows # <<>> => /\ status'[New] = "pending" /\ attempts'[New] = 0
                        /\ history'[New] = 0 /\ signals'[New] = None
      /\ Grown(rows)
  BY <1>1 DEF Columns, Column
<1>4. New \in Events' => rows # <<>>
  BY <1>3 DEF Grown
<1>5. \A f \in Events \ {e} : Ran(e, done)[f] = history[f]
  BY DEF Ran, TInv, RowsTyped
<1>6. Ran(e, done)[e] = IF "history" \in done THEN history[e] + 1 ELSE history[e]
  BY <1>2 DEF Ran, TInv, RowsTyped
<1>7. /\ \A f \in Events \ {e} : st[f] = status[f] /\ counts[f] = attempts[f]
      /\ \/ /\ done \in Whole(e) /\ st[e] = "dispatched"
            /\ counts[e] = attempts[e] /\ cursor' = e /\ UNCHANGED <<faults, mishaps>>
         \/ /\ st[e] = IF counts[e] >= MAX_ATTEMPTS THEN "dead" ELSE "pending"
            /\ counts[e] = attempts[e] + 1 /\ cursor' = e
            /\ faults' = faults + 1 /\ mishaps' # {}
         \/ /\ st[e] = "pending"
            /\ counts[e] = attempts[e] /\ cursor' = 0
            /\ faults' = faults + 1 /\ mishaps' # {}
  <2>1. /\ status \in [Events -> Marks] /\ attempts \in [Events -> Nat]
        /\ status[e] = "pending"
    BY AheadFacts DEF TInv, RowsTyped, Published, e
  <2> QED
    BY <1>1, <1>2, <2>1 DEF Settled
<1>8. Outcome(e, done)
  BY <1>2, <1>3, <1>7 DEF Outcome
<1>9. Fresh
  BY <1>3, <1>4 DEF Fresh
<1> QED
  BY <1>2, <1>3, <1>5, <1>6, <1>7, <1>8, <1>9 DEF e

\* And those an append outside a publish, or no step at all, finds.
LEMMA AddedRowByRow ==
    ASSUME TInv, NEW rows, Added(rows)
    PROVE  /\ \A f \in Events :
                  /\ status'[f] = status[f] /\ attempts'[f] = attempts[f]
                  /\ history'[f] = history[f] /\ signals'[f] = signals[f]
           /\ Fresh /\ Grown(rows) /\ Plans' = Plans
           /\ Row(rows)
<1>1. /\ \A f \in Events :
             /\ status'[f] = status[f] /\ attempts'[f] = attempts[f]
             /\ history'[f] = history[f] /\ signals'[f] = signals[f]
      /\ rows # <<>> => /\ status'[New] = "pending" /\ attempts'[New] = 0
                        /\ history'[New] = 0 /\ signals'[New] = None
      /\ Grown(rows)
  BY DEF Added, Columns, Column
<1>2. Fresh
  BY <1>1 DEF Fresh, Grown
<1>3. New \notin Plans'
  BY <1>1, RowsOf DEF Added, TInv, Plans, OfType
<1>4. Plans' = Plans
  BY <1>1, <1>3, RowsOf DEF TInv
<1>5. Row(rows)
  BY DEF Row, Added
<1> QED
  BY <1>1, <1>2, <1>4, <1>5

LEMMA IdleSame ==
    ASSUME Idle
    PROVE  /\ Events' = Events /\ Requests' = Requests /\ Plans' = Plans
           /\ log' = log /\ status' = status /\ attempts' = attempts /\ history' = history
           /\ signals' = signals /\ view' = view /\ losses' = losses
BY DEF Idle, Events, Requests, Plans, OfType

\* A request in the outbox has run once for each failure at most, and one
\* marked dispatched once more.
AuditInv ==
    \A r \in Requests :
        IF status[r] = "dispatched"
        THEN history[r] <= faults + 1 /\ (history[r] > 1 => mishaps # {})
        ELSE history[r] <= faults /\ (history[r] > 0 => mishaps # {})

LEMMA LogStep ==
    ASSUME TInv, LogInv, StepShape
    PROVE  LogInv'
<1>1. CASE Idle
  BY <1>1, IdleSame DEF LogInv
<1>2. ASSUME NEW rows, Added(rows) PROVE LogInv'
  <2>1. /\ \A f \in Events : history'[f] = history[f]
        /\ Grown(rows) /\ Row(rows)
    BY <1>2, AddedRowByRow
  <2>2. losses' = losses /\ losses \in Nat /\ history \in [Events -> Nat]
    BY <1>2 DEF Added, TInv, RowsTyped
  <2> QED
    BY <2>1, <2>2, LogInvGrows
<1>3. ASSUME NEW done, Published(NextRow, done) PROVE LogInv'
  <2> DEFINE rows == Appended(NextRow, done)
  <2>1. Grown(rows)
    BY <1>3 DEF Published, Columns
  <2>2. Row(rows) /\ losses' \in Nat /\ losses' >= losses
    BY <1>3, PublishedRow
  <2>3. \A f \in Events : history'[f] \in Nat /\ history'[f] >= history[f]
    <3>1. \A f \in Events : history'[f] = history[f] \/ history'[f] = history[f] + 1
      BY <1>3, RowByRow
    <3> QED
      BY <3>1 DEF TInv, RowsTyped
  <2> HIDE DEF rows
  <2> QED
    BY <2>1, <2>2, <2>3, LogInvGrows
<1> QED
  BY <1>1, <1>2, <1>3 DEF StepShape

LEMMA AuditStep ==
    ASSUME TInv, AuditInv, StepShape
    PROVE  AuditInv'
<1>1. /\ Requests \subseteq Events /\ history \in [Events -> Nat] /\ faults \in Nat
      /\ status \in [Events -> Marks]
  BY DEF Requests, OfType, TInv, RowsTyped
<1>2. CASE Idle
  BY <1>1, <1>2, IdleSame DEF AuditInv, Idle
<1>3. ASSUME NEW rows, Added(rows) PROVE AuditInv'
  <2>1. /\ \A f \in Events : status'[f] = status[f] /\ history'[f] = history[f]
        /\ Fresh /\ Grown(rows) /\ faults' = faults /\ mishaps' = mishaps
    BY <1>3, AddedRowByRow DEF Added
  <2>2. \A r \in Requests' : r \in Requests \/ (r = New /\ New \in Events')
    BY <2>1, RowsOf DEF TInv, Requests, OfType
  <2> QED
    BY <1>1, <2>1, <2>2 DEF AuditInv, Fresh
<1>4. ASSUME NEW done, Published(NextRow, done) PROVE AuditInv'
  <2> DEFINE e == NextRow
  <2>1. /\ \A f \in Events \ {e} : status'[f] = status[f] /\ history'[f] = history[f]
        /\ Outcome(e, done) /\ Fresh
        /\ history'[e] = history[e] \/ history'[e] = history[e] + 1
    BY <1>4, RowByRow
  <2>2. Grown(Appended(e, done))
    BY <1>4 DEF Published, Columns
  <2>3. e \in Events /\ status[e] = "pending"
    BY <1>4, AheadFacts DEF Published
  <2> HIDE DEF e
  <2>4. \A r \in Requests' : r \in Requests \/ (r = New /\ New \in Events')
    BY <2>2, RowsOf DEF TInv, Requests, OfType
  <2>5. faults' \in Nat /\ faults' >= faults /\ (mishaps # {} => mishaps' # {})
    BY <1>1, <2>1 DEF Outcome
  <2>6. ASSUME NEW r \in Requests, r # e
        PROVE  IF status'[r] = "dispatched"
               THEN history'[r] <= faults' + 1 /\ (history'[r] > 1 => mishaps' # {})
               ELSE history'[r] <= faults' /\ (history'[r] > 0 => mishaps' # {})
    BY <1>1, <2>1, <2>5, <2>6 DEF AuditInv
  <2>7. ASSUME e \in Requests
        PROVE  IF status'[e] = "dispatched"
               THEN history'[e] <= faults' + 1 /\ (history'[e] > 1 => mishaps' # {})
               ELSE history'[e] <= faults' /\ (history'[e] > 0 => mishaps' # {})
    <3>1. history[e] <= faults /\ (history[e] > 0 => mishaps # {}) /\ history[e] \in Nat
      BY <1>1, <2>3, <2>7 DEF AuditInv
    <3> QED
      BY <1>1, <2>1, <3>1 DEF Outcome
  <2>8. New \in Events' => /\ status'[New] # "dispatched"
                           /\ history'[New] <= faults' /\ ~(history'[New] > 0)
    BY <2>1, <2>5 DEF Fresh
  <2> QED
    BY <2>4, <2>6, <2>7, <2>8 DEF AuditInv
<1> QED
  BY <1>2, <1>3, <1>4 DEF StepShape

\* A row the walk has passed, or that lies behind a dispatched one, and is
\* still pending has failed before.
WalkedInv ==
    /\ cursor \in {0} \cup Events
    /\ \A e \in Events :
           status[e] = "pending" =>
               /\ e <= cursor => attempts[e] > 0
               /\ \A f \in Events : e < f /\ status[f] = "dispatched" => attempts[e] > 0

LEMMA WalkedStep ==
    ASSUME TInv, WalkedInv, StepShape
    PROVE  WalkedInv'
<1>1. /\ attempts \in [Events -> Nat] /\ cursor \in Nat /\ Events \subseteq Nat \ {0}
      /\ New \in Nat \ {0} /\ status \in [Events -> Marks]
  BY LogNumbers DEF TInv, RowsTyped, New
<1>2. CASE Idle
  <2>1. Events' = Events /\ status' = status /\ attempts' = attempts /\ cursor' \in {cursor, 0}
    BY <1>2, IdleSame DEF Idle
  <2> QED
    BY <1>1, <2>1 DEF WalkedInv
<1>3. ASSUME NEW rows, Added(rows) PROVE WalkedInv'
  <2>1. /\ \A f \in Events : status'[f] = status[f] /\ attempts'[f] = attempts[f]
        /\ Fresh /\ Grown(rows) /\ cursor' = cursor
    BY <1>3, AddedRowByRow DEF Added
  <2>2. Events' \subseteq Events \cup {New} /\ Events \subseteq Events'
        /\ \A f \in Events : f < New
    BY <2>1 DEF Grown
  <2>3. cursor' \in {0} \cup Events' /\ cursor < New
    BY <1>1, <2>1, <2>2 DEF WalkedInv
  <2>4. ASSUME NEW f \in Events', status'[f] = "pending", f <= cursor'
        PROVE  attempts'[f] > 0
    <3>1. f \in Events
      BY <1>1, <2>1, <2>2, <2>3, <2>4
    <3> QED
      BY <2>1, <2>4, <3>1 DEF WalkedInv
  <2>5. ASSUME NEW f \in Events', status'[f] = "pending",
               NEW g \in Events', f < g, status'[g] = "dispatched"
        PROVE  attempts'[f] > 0
    <3>1. g \in Events
      BY <2>1, <2>2, <2>5 DEF Fresh
    <3>2. f \in Events
      BY <1>1, <2>2, <2>5, <3>1
    <3> QED
      BY <2>1, <2>5, <3>1, <3>2 DEF WalkedInv
  <2> QED
    BY <2>3, <2>4, <2>5 DEF WalkedInv
<1>4. ASSUME NEW done, Published(NextRow, done) PROVE WalkedInv'
  <2> DEFINE e == NextRow
  <2>1. /\ \A f \in Events \ {e} : status'[f] = status[f] /\ attempts'[f] = attempts[f]
        /\ Outcome(e, done) /\ Fresh
    BY <1>4, RowByRow
  <2>2. Grown(Appended(e, done))
    BY <1>4 DEF Published, Columns
  <2>3. /\ e \in Events /\ status[e] = "pending" /\ e > cursor
        /\ \A f \in Events : status[f] = "pending" /\ f < e => f <= cursor
    BY <1>4, AheadFacts DEF Published
  <2> HIDE DEF e
  <2>4. Events' \subseteq Events \cup {New} /\ Events \subseteq Events'
        /\ \A f \in Events : f < New
    BY <2>2 DEF Grown
  <2>5. cursor' \in {0, e} /\ (status'[e] = "dispatched" => cursor' = e)
    BY <2>1 DEF Outcome
  <2>6. status'[e] = "pending" =>
            /\ attempts'[e] \in Nat /\ attempts'[e] >= attempts[e]
            /\ cursor' = e => attempts'[e] > 0
    BY <1>1, <2>3, <2>1 DEF Outcome
  <2>7. \A f \in Events : status'[f] = "pending" => status[f] = "pending"
    BY <2>1, <2>3
  <2>8. ASSUME NEW f \in Events', status'[f] = "pending", f <= cursor'
        PROVE  attempts'[f] > 0
    <3>1. f \in Events
      BY <1>1, <2>3, <2>4, <2>5, <2>8
    <3>2. CASE f = e
      BY <1>1, <2>3, <2>5, <2>6, <2>8, <3>2
    <3>3. CASE f # e
      <4>1. f < e /\ status[f] = "pending"
        BY <1>1, <2>3, <2>5, <2>7, <2>8, <3>1, <3>3
      <4> QED
        BY <2>1, <2>3, <3>1, <3>3, <4>1 DEF WalkedInv
    <3> QED
      BY <3>2, <3>3
  <2>9. ASSUME NEW f \in Events', status'[f] = "pending",
               NEW g \in Events', f < g, status'[g] = "dispatched"
        PROVE  attempts'[f] > 0
    <3>1. g \in Events
      BY <2>1, <2>4, <2>9 DEF Fresh
    <3>2. f \in Events
      BY <1>1, <2>4, <2>9, <3>1
    <3>3. CASE g = e
      BY <1>1, <2>3, <2>5, <2>8, <2>9, <3>3
    <3>4. CASE g # e
      <4>1. status[g] = "dispatched" /\ status[f] = "pending"
        BY <2>1, <2>7, <2>9, <3>1, <3>2, <3>4
      <4>2. attempts[f] > 0
        BY <2>9, <3>1, <3>2, <4>1 DEF WalkedInv
      <4> QED
        BY <1>1, <2>1, <2>6, <2>9, <3>2, <4>2
    <3> QED
      BY <3>3, <3>4
  <2>10. cursor' \in {0} \cup Events'
    BY <2>3, <2>4, <2>5
  <2> QED
    BY <2>8, <2>9, <2>10 DEF WalkedInv
<1> QED
  BY <1>2, <1>3, <1>4 DEF StepShape

\* The view holds one of the plans, and none it was given is later.
ViewInv ==
    /\ \/ view = NoPlan
       \/ view.at \in Plans /\ view = [at |-> view.at, seen |-> log[view.at].seen]
    /\ \A p \in Plans : status[p] = "dispatched" => view.at >= p

LEMMA ViewStep ==
    ASSUME TInv, LogInv, ViewInv, StepShape
    PROVE  ViewInv'
<1>1. view.at \in Nat /\ Plans \subseteq Events /\ Events \subseteq Nat \ {0}
  <2>1. Plans \subseteq Events /\ Events \subseteq Nat \ {0}
    BY LogNumbers DEF Plans, OfType, TInv
  <2> QED
    BY <2>1 DEF ViewInv, NoPlan
<1>2. CASE Idle
  BY <1>2, IdleSame DEF ViewInv
<1>3. ASSUME NEW rows, Added(rows) PROVE ViewInv'
  <2>1. /\ \A f \in Events : status'[f] = status[f]
        /\ Grown(rows) /\ Plans' = Plans /\ view' = view
    BY <1>3, AddedRowByRow DEF Added
  <2>2. \A p \in Plans : log'[p] = log[p] /\ status'[p] = status[p]
    BY <1>1, <2>1 DEF Grown
  <2> QED
    BY <1>1, <2>1, <2>2 DEF ViewInv
<1>4. ASSUME NEW done, Published(NextRow, done) PROVE ViewInv'
  <2> DEFINE e == NextRow
             rows == Appended(e, done)
  <2>1. /\ \A f \in Events \ {e} : status'[f] = status[f]
        /\ Outcome(e, done) /\ Fresh
    BY <1>4, RowByRow
  <2>2. Grown(rows)
    BY <1>4 DEF Published, Columns
  <2>3. /\ e \in Events /\ done \in Partial(e)
        /\ view' = IF "project" \in done THEN Project(log[e]) ELSE view
    BY <1>4, AheadFacts DEF Published
  <2> HIDE DEF e, rows
  <2>4. /\ "project" \in done => e \in Plans
        /\ e \in Plans /\ done \in Whole(e) => "project" \in done
    BY <2>3, WhoDoesWhat
  <2>5. /\ Plans \subseteq Plans' /\ \A p \in Plans' : p \in Plans \/ p = New
        /\ New \in Plans' => New \in Events'
    BY <2>2, RowsOf DEF TInv, Plans, OfType
  <2>6. \A p \in Plans : log'[p] = log[p]
    BY <1>1, <2>2 DEF Grown
  <2>7. CASE "project" \notin done
    <3>1. view' = view
      BY <2>3, <2>7
    <3>2. e \in Plans => status'[e] # "dispatched"
      BY <2>1, <2>4, <2>7 DEF Outcome
    <3>3. \A p \in Plans' : status'[p] = "dispatched" => view'.at >= p
      BY <1>1, <2>1, <2>5, <3>1, <3>2 DEF ViewInv, Fresh
    <3> QED
      BY <2>5, <2>6, <3>1, <3>3 DEF ViewInv
  <2>8. CASE "project" \in done
    <3>1. e \in Plans /\ log[e].at = e
      BY <2>4, <2>8 DEF LogInv
    <3>2. view' = IF e >= view.at THEN [at |-> e, seen |-> log[e].seen] ELSE view
      BY <2>3, <2>8, <3>1 DEF Project
    <3>3. view'.at >= view.at /\ view'.at >= e /\ view'.at \in Nat
      BY <1>1, <3>1, <3>2
    <3>4. \A p \in Plans' : status'[p] = "dispatched" => view'.at >= p
      BY <1>1, <2>1, <2>5, <3>3 DEF ViewInv, Fresh
    <3>5. \/ view' = NoPlan
          \/ view'.at \in Plans' /\ view' = [at |-> view'.at, seen |-> log'[view'.at].seen]
      BY <2>5, <2>6, <3>1, <3>2 DEF ViewInv
    <3> QED
      BY <3>4, <3>5 DEF ViewInv
  <2> QED
    BY <2>7, <2>8
<1> QED
  BY <1>2, <1>3, <1>4 DEF StepShape

\* A signal row holds a plan of its request, as late as any that was
\* dispatched unless it has failed before.
SignalInv ==
    /\ \A r \in Events :
           signals[r] # None => signals[r] \in Plans /\ log[signals[r]].trigger = r
    /\ SignalsFollowPlans

LEMMA SignalStep ==
    ASSUME TInv, LogInv, WalkedInv, SignalInv, StepShape
    PROVE  SignalInv'
<1>1. /\ Plans \subseteq Events /\ Requests \subseteq Events /\ Events \subseteq Nat \ {0}
      /\ attempts \in [Events -> Nat] /\ signals \in [Events -> Nat]
  BY LogNumbers DEF Plans, Requests, OfType, TInv, RowsTyped
<1>2. CASE Idle
  BY <1>2, IdleSame DEF SignalInv, SignalsFollowPlans
<1>3. ASSUME NEW rows, Added(rows) PROVE SignalInv'
  <2>1. /\ \A f \in Events : /\ status'[f] = status[f] /\ attempts'[f] = attempts[f]
                             /\ signals'[f] = signals[f]
        /\ Fresh /\ Grown(rows) /\ Plans' = Plans
    BY <1>3, AddedRowByRow
  <2>2. /\ \A p \in Plans : log'[p] = log[p]
        /\ Events' \subseteq Events \cup {New}
    BY <1>1, <2>1 DEF Grown
  <2>3. \A r \in Events' :
            signals'[r] # None => signals'[r] \in Plans /\ log'[signals'[r]].trigger = r
    <3>1. ASSUME NEW r \in Events', signals'[r] # None
          PROVE  signals'[r] \in Plans /\ log'[signals'[r]].trigger = r
      <4>1. r \in Events /\ signals'[r] = signals[r]
        BY <2>1, <2>2, <3>1 DEF Fresh
      <4>2. signals[r] \in Plans /\ log[signals[r]].trigger = r
        BY <3>1, <4>1 DEF SignalInv
      <4> QED
        BY <2>2, <4>1, <4>2
    <3> QED
      BY <3>1
  <2>4. ASSUME NEW p \in Plans, status'[p] = "dispatched"
        PROVE  LET row == signals'[log'[p].trigger] IN
                   /\ row # None /\ log'[row].trigger = log'[p].trigger
                   /\ row < p => attempts'[row] > 0
    <3>1. log'[p] = log[p] /\ status[p] = "dispatched" /\ log[p].trigger \in Events
      BY <1>1, <2>1, <2>2, <2>4 DEF LogInv
    <3> DEFINE row == signals[log[p].trigger]
    <3>2. /\ row # None /\ log[row].trigger = log[p].trigger /\ row \in Plans
          /\ row < p => attempts[row] > 0
      BY <3>1 DEF SignalInv, SignalsFollowPlans
    <3>3. signals'[log'[p].trigger] = row /\ log'[row] = log[row] /\ attempts'[row] = attempts[row]
      BY <1>1, <2>1, <2>2, <3>1, <3>2
    <3> HIDE DEF row
    <3> QED
      BY <3>1, <3>2, <3>3
  <2> QED
    BY <2>1, <2>3, <2>4 DEF SignalInv, SignalsFollowPlans
<1>4. ASSUME NEW done, Published(NextRow, done) PROVE SignalInv'
  <2> DEFINE e == NextRow
             rows == Appended(e, done)
  <2>1. /\ \A f \in Events \ {e} : status'[f] = status[f] /\ attempts'[f] = attempts[f]
        /\ \A f \in Events : signals'[f] = Signalled(e, done)[f]
        /\ Outcome(e, done) /\ Fresh
    BY <1>4, RowByRow
  <2>2. Grown(rows)
    BY <1>4 DEF Published, Columns
  <2>3. e \in Events /\ done \in Partial(e) /\ status[e] = "pending"
    BY <1>4, AheadFacts DEF Published
  <2> HIDE DEF e, rows
  <2>4. /\ "signal" \in done => e \in Plans
        /\ e \in Plans /\ done \in Whole(e) => "signal" \in done
    BY <2>3, WhoDoesWhat
  <2>5. /\ Plans \subseteq Plans' /\ \A p \in Plans' : p \in Plans \/ p = New
        /\ New \in Plans' => New \in Events'
        /\ \A p \in Plans : log'[p] = log[p]
        /\ Events' \subseteq Events \cup {New}
    BY <1>1, <2>2, RowsOf DEF TInv, Plans, OfType, Grown
  <2>6. \A f \in Events : attempts'[f] \in Nat /\ attempts'[f] >= attempts[f]
    BY <1>1, <2>1, <2>3 DEF Outcome
  <2>7. \A f \in Events :
            signals'[f] = IF "signal" \in done /\ f = log[e].trigger THEN e ELSE signals[f]
    BY <1>1, <2>1 DEF Signalled
  <2>8. ASSUME NEW r \in Events', signals'[r] # None
        PROVE  signals'[r] \in Plans' /\ log'[signals'[r]].trigger = r
    <3>1. r \in Events
      BY <2>1, <2>5, <2>8 DEF Fresh
    <3>2. CASE "signal" \in done /\ r = log[e].trigger
      BY <2>4, <2>5, <2>7, <3>1, <3>2
    <3>3. CASE ~("signal" \in done /\ r = log[e].trigger)
      <4>1. signals'[r] = signals[r]
        BY <2>7, <3>1, <3>3
      <4> QED
        BY <2>5, <2>8, <3>1, <4>1 DEF SignalInv
    <3> QED
      BY <3>2, <3>3
  <2>9. ASSUME NEW p \in Plans', status'[p] = "dispatched"
        PROVE  LET row == signals'[log'[p].trigger] IN
                   /\ row # None /\ log'[row].trigger = log'[p].trigger
                   /\ row < p => attempts'[row] > 0
    <3>1. p \in Plans
      BY <2>1, <2>5, <2>9 DEF Fresh
    <3>2. log'[p] = log[p] /\ log[p].trigger \in Events
      BY <1>1, <2>5, <3>1 DEF LogInv
    <3> DEFINE r == log[p].trigger
    <3>3. CASE "signal" \in done /\ r = log[e].trigger
      <4>1. signals'[r] = e /\ log'[e].trigger = r /\ e # None
        BY <1>1, <2>3, <2>4, <2>5, <2>7, <3>2, <3>3 DEF None
      <4>2. e < p => attempts'[e] > 0
        <5>1. ASSUME e < p PROVE attempts'[e] > 0
          <6>1. p # e /\ p \in Events
            BY <1>1, <2>3, <3>1, <5>1
          <6>2. status[p] = "dispatched"
            BY <2>1, <2>9, <6>1
          <6>3. attempts[e] > 0
            BY <2>3, <5>1, <6>1, <6>2 DEF WalkedInv
          <6> QED
            BY <1>1, <2>3, <2>6, <6>3
        <5> QED
          BY <5>1
      <4> QED
        BY <3>2, <4>1, <4>2
    <3>4. CASE ~("signal" \in done /\ r = log[e].trigger)
      <4>1. signals'[r] = signals[r]
        BY <2>7, <3>2, <3>4
      <4>2. p # e
        BY <2>1, <2>4, <2>9, <3>1, <3>4 DEF Outcome
      <4>3. status[p] = "dispatched"
        BY <1>1, <2>1, <2>9, <3>1, <4>2
      <4> DEFINE row == signals[r]
      <4>4. /\ row # None /\ log[row].trigger = r /\ row \in Plans
            /\ row < p => attempts[row] > 0
        BY <3>1, <3>2, <4>3 DEF SignalInv, SignalsFollowPlans
      <4> HIDE DEF row
      <4>5. log'[row] = log[row] /\ (row < p => attempts'[row] > 0)
        <5>1. /\ row \in Events /\ attempts[row] \in Nat
              /\ attempts'[row] \in Nat /\ attempts'[row] >= attempts[row]
          BY <1>1, <2>6, <4>4
        <5> QED
          BY <2>5, <4>4, <5>1
      <4> QED
        BY <3>2, <4>1, <4>4, <4>5 DEF row
    <3> QED
      BY <3>3, <3>4
  <2> QED
    BY <2>8, <2>9 DEF SignalInv, SignalsFollowPlans
<1> QED
  BY <1>2, <1>3, <1>4 DEF StepShape

-----------------------------------------------------------------------------
(* Types.                                                                  *)

\* A pending row has an attempt left.
AttemptsInv ==
    \A e \in Events : /\ attempts[e] <= MAX_ATTEMPTS
                      /\ status[e] = "pending" => attempts[e] < MAX_ATTEMPTS

LEMMA AttemptsStep ==
    ASSUME TInv, AttemptsInv, StepShape
    PROVE  AttemptsInv'
<1>1. attempts \in [Events -> Nat] /\ MAX_ATTEMPTS \in Nat \ {0}
  BY WalkAssumption DEF TInv, RowsTyped
<1>2. CASE Idle
  BY <1>2, IdleSame DEF AttemptsInv
<1>3. ASSUME Fresh, \E rows : Grown(rows),
             \A f \in Events :
                 /\ attempts'[f] <= MAX_ATTEMPTS
                 /\ status'[f] = "pending" => attempts'[f] < MAX_ATTEMPTS
      PROVE  AttemptsInv'
  <2>1. Events' \subseteq Events \cup {New}
    BY <1>3 DEF Grown
  <2>2. New \in Events' => attempts'[New] <= MAX_ATTEMPTS /\ attempts'[New] < MAX_ATTEMPTS
    BY <1>1, <1>3 DEF Fresh
  <2> QED
    BY <1>3, <2>1, <2>2 DEF AttemptsInv
<1>4. ASSUME NEW rows, Added(rows) PROVE AttemptsInv'
  <2>1. /\ \A f \in Events : status'[f] = status[f] /\ attempts'[f] = attempts[f]
        /\ Fresh /\ Grown(rows)
    BY <1>4, AddedRowByRow
  <2> QED
    BY <1>3, <2>1 DEF AttemptsInv
<1>5. ASSUME NEW done, Published(NextRow, done) PROVE AttemptsInv'
  <2> DEFINE e == NextRow
  <2>1. /\ \A f \in Events \ {e} : status'[f] = status[f] /\ attempts'[f] = attempts[f]
        /\ Outcome(e, done) /\ Fresh
    BY <1>5, RowByRow
  <2>2. Grown(Appended(e, done)) /\ e \in Events /\ status[e] = "pending"
    BY <1>5, AheadFacts DEF Published, Columns
  <2> HIDE DEF e
  <2>3. attempts[e] < MAX_ATTEMPTS /\ attempts[e] \in Nat
    BY <1>1, <2>2 DEF AttemptsInv
  <2>4. /\ attempts'[e] <= MAX_ATTEMPTS
        /\ status'[e] = "pending" => attempts'[e] < MAX_ATTEMPTS
    BY <1>1, <2>1, <2>3 DEF Outcome
  <2>5. \A f \in Events : /\ attempts'[f] <= MAX_ATTEMPTS
                          /\ status'[f] = "pending" => attempts'[f] < MAX_ATTEMPTS
    BY <2>1, <2>4 DEF AttemptsInv
  <2> QED
    BY <1>3, <2>1, <2>2, <2>5
<1> QED
  BY <1>2, <1>4, <1>5 DEF StepShape

\* The rest of TypeOK: what is pending and what timers carry are alarms.
Alarms == OfType("AlarmTriggered")

TimersOf(alarms, ts) ==
    \A t \in DOMAIN ts :
        \/ ts[t].does \in {"wait", "late", "over"} /\ ts[t].payload = None
        \/ ts[t].does = "emit" /\ ts[t].payload \in alarms

SideInv ==
    /\ pending \in {None} \cup Alarms
    /\ TimersOf(Alarms, timers)
    /\ faults <= MaxFaults
    /\ mishaps \subseteq {"publish", "emit", "crash"}

LEMMA OldRowsStay ==
    ASSUME TInv, StepShape
    PROVE  Alarms \subseteq Alarms'
<1>1. CASE Idle
  BY <1>1, IdleSame DEF Alarms, OfType
<1>2. ASSUME NEW rows, Grown(rows)
      PROVE  Alarms \subseteq Alarms'
  <2>1. Events \subseteq Events' /\ \A e \in Events : log'[e] = log[e]
    BY <1>2 DEF Grown
  <2> QED
    BY <2>1 DEF Alarms, OfType
<1>3. ASSUME NEW done, Published(NextRow, done) PROVE Grown(Appended(NextRow, done))
  BY <1>3 DEF Published, Columns
<1> QED
  BY <1>1, <1>2, <1>3 DEF StepShape, Added, Columns

LEMMA WhatOthersDo ==
    ASSUME NEW e \in Events, NEW done \in Partial(e)
    PROVE  "schedule" \in done => e \in Alarms
<1>1. CASE e \in Requests
  BY <1>1, PartialOfARequest DEF Runner
<1>2. CASE e \in Plans
  BY <1>2, PartialOfAPlan
<1>3. CASE e \notin Requests /\ e \notin Plans /\ RaisesClosed(e)
  <2>1. log[e].type # "AlarmTriggered"
    BY <1>3 DEF RaisesClosed
  <2>2. Partial(e) = SUBSET {"charge", "emit"}
    BY <1>3, <2>1 DEF Partial
  <2> QED
    BY <1>3, <2>2
<1>4. CASE e \notin Requests /\ e \notin Plans /\ ~RaisesClosed(e)
  <2>1. CASE log[e].type = "AlarmTriggered"
    <3>1. Partial(e) = {{}, {"schedule"}} /\ e \in Alarms
      BY <1>4, <2>1 DEF Partial, Alarms, OfType
    <3> QED
      BY <3>1
  <2>2. CASE log[e].type # "AlarmTriggered"
    <3>1. Partial(e) = {{}}
      BY <1>4, <2>2 DEF Partial
    <3> QED
      BY <3>1
  <2> QED
    BY <2>1, <2>2
<1> QED
  BY <1>1, <1>2, <1>3, <1>4

LEMMA TimersStay ==
    ASSUME TimersOf(Alarms, timers), Alarms \subseteq Alarms',
           UNCHANGED timers
    PROVE  TimersOf(Alarms, timers)'
BY DEF TimersOf

\* The timer side of a publish.
LEMMA HandledTimers ==
    ASSUME TInv, SideInv, Ahead # {}, NEW done \in Partial(NextRow),
           Handled(NextRow, done), Alarms \subseteq Alarms'
    PROVE  pending' \in {None} \cup Alarms' /\ TimersOf(Alarms, timers)'
<1>1. CASE "schedule" \notin done
  BY <1>1, TimersStay DEF Handled, schedVars, SideInv
<1>2. CASE "schedule" \in done
  <2>1. NextRow \in Alarms
    BY <1>2, AheadFacts, WhatOthersDo
  <2>2. PICK does \in {"over", "late"} : timers' = Restarted(armed, does)
    BY <1>2 DEF Handled, Schedule
  <2>3. pending' = NextRow
    BY <1>2 DEF Handled, Schedule
  <2> DEFINE kept == IF armed = None THEN timers
                     ELSE [timers EXCEPT ![armed] = Timer(does, None)]
  <2>4. timers \in Seq(TimerRecords)
    BY DEF TInv, SInv
  <2>5. DOMAIN kept = DOMAIN timers /\ kept \in Seq(TimerRecords)
    <3>1. Timer(does, None) \in TimerRecords
      BY DEF Timer, TimerRecords, None
    <3>2. CASE armed = None
      BY <2>4, <3>2
    <3>3. CASE armed # None
      <4>1. kept = [timers EXCEPT ![armed] = Timer(does, None)]
        BY <3>3
      <4>2. armed \in 1..Len(timers)
        BY <2>4, <3>3 DEF TInv, SInv, PendingIsArmed, None
      <4> HIDE DEF kept, TimerRecords
      <4> QED
        BY <2>4, <3>1, <4>1, <4>2
    <3> QED
      BY <3>2, <3>3
  <2>6. TimersOf(Alarms, kept)
    BY <2>4 DEF TimersOf, SideInv, Timer
  <2>7. timers' = Append(kept, Timer("wait", None))
    BY <2>2 DEF Restarted
  <2>8. Timer("wait", None) \in TimerRecords
    BY DEF Timer, TimerRecords, None
  <2> HIDE DEF kept
  <2>9. /\ DOMAIN timers' = 1..(Len(kept) + 1) /\ DOMAIN kept = 1..Len(kept)
        /\ Len(kept) \in Nat
        /\ timers'[Len(kept) + 1] = Timer("wait", None)
        /\ \A t \in DOMAIN kept : timers'[t] = kept[t]
    BY <2>5, <2>7, <2>8
  <2>10. \A t \in DOMAIN timers' : t \in DOMAIN kept \/ t = Len(kept) + 1
    BY <2>9
  <2>11. TimersOf(Alarms, timers)'
    BY <2>6, <2>9, <2>10 DEF TimersOf, Timer
  <2> QED
    BY <2>1, <2>3, <2>11
<1> QED
  BY <1>1, <1>2

LEMMA SideStep ==
    ASSUME TInv, SideInv, StepShape, [Next]_vars
    PROVE  SideInv'
<1>1. Alarms \subseteq Alarms'
  BY OldRowsStay
<1>2. MaxFaults \in Nat /\ faults \in Nat
  BY WalkAssumption DEF TInv, RowsTyped
<1>3. ASSUME UNCHANGED <<timers, pending, faults, mishaps>>
      PROVE  SideInv'
  BY <1>1, <1>3, TimersStay DEF SideInv
<1>4. ASSUME NEW event, Written(event) PROVE SideInv'
  BY <1>3, <1>4 DEF Written, schedVars
<1>5. CASE \E at \in Times : Alarm(at) \/ Recovery(at)
  BY <1>4, <1>5 DEF Alarm, Recovery
<1>6. CASE request_recompute
  BY <1>4, <1>6 DEF request_recompute
<1>7. ASSUME NEW t \in DOMAIN timers, Fire(t) PROVE SideInv'
  <2>1. /\ pending' = None
        /\ timers' = [timers EXCEPT ![t] = IF pending = None THEN Timer("over", None)
                                           ELSE Timer("emit", pending)]
        /\ UNCHANGED <<faults, mishaps>>
    BY <1>7 DEF Fire, walkVars, bizVars
  <2>2. TimersOf(Alarms, timers)'
    BY <1>1, <2>1 DEF TimersOf, SideInv, Timer
  <2> QED
    BY <1>1, <2>1, <2>2 DEF SideInv
<1>8. ASSUME NEW t \in DOMAIN timers, Emit(t) \/ EmitFails(t) PROVE SideInv'
  <2>1. /\ UNCHANGED pending
        /\ timers' = [timers EXCEPT ![t] = Timer("over", None)]
        /\ faults' <= MaxFaults
        /\ mishaps' \subseteq {"publish", "emit", "crash"}
    BY <1>2, <1>8 DEF Emit, EmitFails, bizVars, Fault, SideInv
  <2>2. TimersOf(Alarms, timers)'
    BY <1>1, <2>1 DEF TimersOf, SideInv, Timer
  <2> QED
    BY <1>1, <2>1, <2>2 DEF SideInv
<1>9. CASE Deliver \/ DeliverFails \/ MarkFails
  <2>1. /\ faults' <= MaxFaults
        /\ mishaps' \subseteq {"publish", "emit", "crash"}
    <3>1. CASE Deliver
      BY <3>1 DEF Deliver, SideInv
    <3>2. CASE DeliverFails \/ MarkFails
      <4>1. Fault /\ mishaps' = mishaps \cup {"publish"}
        BY <3>2 DEF DeliverFails, MarkFails
      <4> QED
        BY <1>2, <4>1 DEF Fault, SideInv
    <3> QED
      BY <1>9, <3>1, <3>2
  <2>2. PICK done \in Partial(NextRow) : Handled(NextRow, done) /\ Ahead # {}
    <3>1. NextRow \in Requests \/ RaisesClosed(NextRow) => {} \in Partial(NextRow)
      BY PartialOfARequest DEF Runner, Partial
    <3>2. \A done \in Whole(NextRow) : done \in Partial(NextRow)
      BY <3>1 DEF Whole
    <3> QED
      BY <1>9, <3>2 DEF Deliver, DeliverFails, MarkFails
  <2>4. pending' \in {None} \cup Alarms' /\ TimersOf(Alarms, timers)'
    BY <1>1, <2>2, HandledTimers
  <2> QED
    BY <2>1, <2>4 DEF SideInv
<1>10. CASE NextDrain
  BY <1>3, <1>10 DEF NextDrain, StartOver, schedVars, bizVars
<1>11. CASE Crash
  <2>1. /\ pending' = None /\ timers' = [t \in DOMAIN timers |-> Timer("over", None)]
        /\ faults' <= MaxFaults
        /\ mishaps' \subseteq {"publish", "emit", "crash"}
    BY <1>2, <1>11 DEF Crash, Fault, SideInv
  <2>2. TimersOf(Alarms, timers)'
    BY <2>1 DEF TimersOf, Timer
  <2> QED
    BY <2>1, <2>2 DEF SideInv
<1>12. CASE UNCHANGED vars
  BY <1>3, <1>12 DEF vars, walkVars, schedVars, bizVars
<1> QED
  BY <1>5, <1>6, <1>7, <1>8, <1>9, <1>10, <1>11, <1>12 DEF Next

-----------------------------------------------------------------------------
(* From alarms to requests.                                                *)

Given       == {e \in Alarms : status[e] = "dispatched"}
Bucketed(e) == InBucket("projected_loss", log[e].at)
Emitting(e) == \E t \in DOMAIN timers : timers[t].does = "emit" /\ timers[t].payload = e
InCare(e)   == pending = e \/ Emitting(e) \/ Bucketed(e)

\* An alarm that was given to the scheduler is pending, with a thread that
\* emits, or requested for; without failures the newest is.
RequestInv ==
    /\ mishaps = {} => \A e \in Events : attempts[e] = 0
    /\ mishaps \subseteq {"publish"} /\ Given # {} => \E e \in Alarms : InCare(e)
    /\ mishaps = {} /\ Given # {} =>
           \E e \in Given : InCare(e) /\ \A f \in Given : f <= e

LEMMA BucketsStay ==
    ASSUME TInv, StepShape, NEW e \in Alarms, Bucketed(e)
    PROVE  Bucketed(e)'
<1>1. CASE Idle
  BY <1>1, IdleSame DEF Bucketed, InBucket
<1>2. ASSUME NEW rows, Grown(rows) PROVE Bucketed(e)'
  <2>1. /\ \A f \in Events : log'[f] = log[f]
        /\ Requests \subseteq Requests' /\ Requests \subseteq Events /\ e \in Events
    BY <1>2, RowsOf DEF TInv, Grown, Requests, Alarms, OfType
  <2> QED
    BY <2>1 DEF Bucketed, InBucket
<1>3. ASSUME NEW done, Published(NextRow, done) PROVE Grown(Appended(NextRow, done))
  BY <1>3 DEF Published, Columns
<1> QED
  BY <1>1, <1>2, <1>3 DEF StepShape, Added, Columns

LEMMA CareStays ==
    ASSUME TInv, StepShape, NEW e \in Alarms, InCare(e), UNCHANGED schedVars
    PROVE  InCare(e)'
<1>1. UNCHANGED <<pending, timers>>
  BY DEF schedVars
<1> QED
  BY <1>1, BucketsStay DEF InCare, Emitting

LEMMA FireKeepsCare ==
    ASSUME TInv, StepShape, NEW e \in Alarms, InCare(e), NEW t \in DOMAIN timers, Fire(t)
    PROVE  InCare(e)'
<1>1. timers' = [timers EXCEPT ![t] = IF pending = None THEN Timer("over", None)
                                      ELSE Timer("emit", pending)]
  BY DEF Fire
<1>2. DOMAIN timers' = DOMAIN timers
  BY <1>1
<1>3. CASE pending = e
  <2>1. e # None
    BY LogNumbers DEF Alarms, OfType, TInv, None
  <2>2. timers'[t] = Timer("emit", e)
    BY <1>1, <1>3, <2>1
  <2> QED
    BY <1>2, <2>2 DEF InCare, Emitting, Timer
<1>4. CASE Emitting(e)
  <2>1. PICK s \in DOMAIN timers : timers[s].does = "emit" /\ timers[s].payload = e
    BY <1>4 DEF Emitting
  <2>2. s # t
    BY <2>1 DEF Fire
  <2>3. timers'[s] = timers[s]
    BY <1>1, <2>2
  <2> QED
    BY <1>2, <2>1, <2>3 DEF InCare, Emitting
<1>5. CASE Bucketed(e)
  BY <1>5, BucketsStay DEF InCare
<1> QED
  BY <1>3, <1>4, <1>5 DEF InCare

LEMMA EmitKeepsCare ==
    ASSUME TInv, StepShape, NEW e \in Alarms, InCare(e), NEW t \in DOMAIN timers, Emit(t)
    PROVE  InCare(e)'
<1>1. /\ timers' = [timers EXCEPT ![t] = Timer("over", None)]
      /\ pending' = pending /\ DOMAIN timers' = DOMAIN timers
  BY DEF Emit
<1>2. CASE pending = e
  BY <1>1, <1>2 DEF InCare
<1>3. CASE Bucketed(e)
  BY <1>3, BucketsStay DEF InCare
<1>4. CASE Emitting(e) /\ ~Bucketed(e)
  <2>1. PICK s \in DOMAIN timers : timers[s].does = "emit" /\ timers[s].payload = e
    BY <1>4 DEF Emitting
  <2>2. CASE s # t
    <3>1. timers'[s] = timers[s]
      BY <1>1, <2>2
    <3> QED
      BY <1>1, <2>1, <3>1 DEF InCare, Emitting
  <2>3. CASE s = t
    <3> DEFINE row == Event("MRPRecomputeRequested", log[e].at, "projected_loss", e, losses)
    <3>1. Reason(e) = "projected_loss" /\ e \in Events
      BY DEF Reason, Alarms, OfType
    <3>2. Emitted(e, losses) = <<row>>
      BY <1>4, <3>1 DEF Emitted, Bucketed
    <3>3. log' = log \o <<row>>
      BY <2>1, <2>3, <3>2 DEF Emit, append_many, Commit
    <3>4. row.type = "MRPRecomputeRequested" /\ row.reason = "projected_loss"
          /\ row.at = log[e].at
      BY DEF Event
    <3> HIDE DEF row
    <3>5. Grown(<<row>>)
      BY <3>3, LogGrowsBy DEF OneOrNone, TInv
    <3>6. New \in Events' /\ log'[New] = row /\ log'[e] = log[e]
      <4>1. <<row>> # <<>> /\ <<row>>[1] = row
        OBVIOUS
      <4> QED
        BY <3>1, <3>5, <4>1 DEF Grown
    <3>7. New \in Requests'
      BY <3>4, <3>6 DEF Requests, OfType
    <3>8. Bucketed(e)'
      BY <3>4, <3>6, <3>7 DEF Bucketed, InBucket
    <3> QED
      BY <3>8 DEF InCare
  <2> QED
    BY <2>2, <2>3
<1> QED
  BY <1>2, <1>3, <1>4 DEF InCare

\* Who was given to the scheduler changes by a dispatch only.
LEMMA GivenGrows ==
    ASSUME TInv, NEW rows, Grown(rows), Fresh
    PROVE  \A f \in Given' : f \in Alarms /\ status'[f] = "dispatched"
<1>1. /\ Events' \subseteq Events \cup {New}
      /\ \A f \in Events : log'[f] = log[f]
  BY DEF Grown
<1> QED
  BY <1>1 DEF Given, Alarms, OfType, Fresh

LEMMA GivenStays ==
    ASSUME TInv, Idle \/ \E rows : Added(rows)
    PROVE  /\ Given' = Given
           /\ Alarms \subseteq Alarms'
           /\ (\A e \in Events : attempts[e] = 0) => (\A e \in Events : attempts[e] = 0)'
<1>1. CASE Idle
  BY <1>1, IdleSame DEF Given, Alarms, OfType
<1>2. ASSUME NEW rows, Added(rows)
      PROVE  /\ Given' = Given
             /\ (\A e \in Events : attempts[e] = 0) => (\A e \in Events : attempts[e] = 0)'
  <2>1. /\ \A f \in Events : status'[f] = status[f] /\ attempts'[f] = attempts[f]
        /\ Fresh /\ Grown(rows)
    BY <1>2, AddedRowByRow
  <2>2. /\ Events \subseteq Events' /\ Events' \subseteq Events \cup {New}
        /\ \A f \in Events : log'[f] = log[f]
    BY <2>1 DEF Grown
  <2>3. \A f \in Given' : f \in Alarms /\ status'[f] = "dispatched"
    BY <2>1, GivenGrows
  <2> QED
    BY <2>1, <2>2, <2>3 DEF Given, Alarms, OfType, Fresh
<1>3. Alarms \subseteq Alarms'
  BY OldRowsStay DEF StepShape
<1> QED
  BY <1>1, <1>2, <1>3

\* A step that keeps the alarms in care.
LEMMA CareInv ==
    ASSUME TInv, RequestInv, Idle \/ \E rows : Added(rows),
           \A e \in Alarms : InCare(e) => InCare(e)',
           mishaps' = mishaps
    PROVE  RequestInv'
BY GivenStays DEF RequestInv, Given


\* A publish that does not complete leaves the alarms in care, or gives the
\* scheduler another.
LEMMA FailKeepsCare ==
    ASSUME TInv, RequestInv, StepShape, DeliverFails \/ MarkFails
    PROVE  RequestInv'
<1> DEFINE e == NextRow
<1>1. PICK done \in Partial(e) : Handled(e, done) /\ Published(e, done)
  BY SettlingShape
<1>2. /\ faults' = faults + 1 /\ mishaps' = mishaps \cup {"publish"}
      /\ e \in Events
  BY AheadFacts DEF DeliverFails, MarkFails, Fault
<1>3. /\ \A f \in Events \ {e} : status'[f] = status[f]
      /\ Outcome(e, done) /\ Fresh
  BY <1>1, RowByRow
<1>4. Grown(Appended(e, done)) /\ Alarms \subseteq Alarms'
  BY <1>1, OldRowsStay DEF Published, Columns
<1> HIDE DEF e
<1>5. status'[e] # "dispatched"
  BY <1>2, <1>3 DEF Outcome, TInv, RowsTyped
<1>6. Given' \subseteq Given
  BY <1>3, <1>4, <1>5, GivenGrows DEF Given, Alarms, OfType
<1>7. ASSUME mishaps' \subseteq {"publish"}, Given' # {}
      PROVE  \E f \in Alarms' : InCare(f)'
  <2>1. PICK f \in Alarms : InCare(f)
    BY <1>2, <1>6, <1>7 DEF RequestInv
  <2>2. CASE "schedule" \in done
    <3>1. e \in Alarms /\ pending' = e
      BY <1>1, <1>2, <2>2, WhatOthersDo DEF Handled, Schedule
    <3> QED
      BY <1>4, <3>1 DEF InCare
  <2>3. CASE "schedule" \notin done
    <3>1. UNCHANGED schedVars
      BY <1>1, <2>3 DEF Handled
    <3>2. InCare(f)'
      BY <2>1, <3>1, CareStays
    <3> QED
      BY <1>4, <3>2
  <2> QED
    BY <2>2, <2>3
<1>8. mishaps' # {}
  BY <1>2
<1> QED
  BY <1>7, <1>8 DEF RequestInv

\* A completed publish of an alarm puts that alarm in care, and without failures
\* it is the newest.
LEMMA DeliverKeepsCare ==
    ASSUME TInv, WalkedInv, RequestInv, StepShape, Deliver
    PROVE  RequestInv'
<1>0. PICK e \in Events : e = NextRow
  BY AheadFacts DEF Deliver
<1>1. PICK done \in Partial(e) : Handled(e, done) /\ Published(e, done)
  BY <1>0, SettlingShape
<1>2. /\ faults' = faults /\ mishaps' = mishaps
      /\ e \in Events /\ status[e] = "pending"
  BY <1>0, AheadFacts DEF Deliver
<1>3. /\ \A f \in Events \ {e} : status'[f] = status[f] /\ attempts'[f] = attempts[f]
      /\ Outcome(e, done) /\ Fresh
  BY <1>0, <1>1, RowByRow
<1>4. /\ Grown(Appended(e, done)) /\ Alarms \subseteq Alarms'
      /\ Events \subseteq Nat \ {0}
  BY <1>0, <1>1, OldRowsStay, LogNumbers DEF Published, Columns, TInv
<1>5. status'[e] = "dispatched" /\ attempts'[e] = attempts[e] /\ done \in Whole(e)
  BY <1>2, <1>3 DEF Outcome, TInv, RowsTyped
<1>6. \A f \in Given' : f \in Given \/ (f = e /\ e \in Alarms)
  BY <1>3, <1>4, GivenGrows DEF Given, Alarms, OfType
<1>7. mishaps' = {} => (\A f \in Events : attempts[f] = 0)'
  <2>1. Events' \subseteq Events \cup {New}
    BY <1>4 DEF Grown
  <2> QED
    BY <1>2, <1>3, <1>5, <2>1 DEF RequestInv, Fresh
<1>8. CASE e \in Alarms
  <2>1. "schedule" \in done
    <3>1. ~RaisesClosed(e) /\ e \notin Requests /\ e \notin Plans
          /\ log[e].type = "AlarmTriggered"
      BY <1>8 DEF RaisesClosed, Requests, Plans, Alarms, OfType
    <3>2. Partial(e) = {{}, {"schedule"}}
      BY <3>1 DEF Partial
    <3>3. \A S \in Partial(e) : S \subseteq done
      BY <1>5, <3>1 DEF Whole
    <3> QED
      BY <3>2, <3>3
  <2>2. pending' = e
    BY <1>1, <2>1 DEF Handled, Schedule
  <2>3. InCare(e)' /\ e \in Alarms'
    BY <1>4, <1>8, <2>2 DEF InCare
  <2>4. e \in Given'
    BY <1>5, <2>3 DEF Given
  <2>5. ASSUME mishaps = {}, NEW f \in Given' PROVE f <= e
    <3>1. CASE f = e
      BY <1>2, <1>4, <3>1
    <3>2. CASE f \in Given /\ f # e
      <4>1. status[f] = "dispatched" /\ f \in Events /\ attempts[e] = 0
        BY <1>2, <2>5, <3>2 DEF Given, Alarms, OfType, RequestInv
      <4>2. ~(e < f)
        BY <1>2, <4>1 DEF WalkedInv
      <4> QED
        BY <1>2, <1>4, <4>1, <4>2
    <3> QED
      BY <1>6, <3>1, <3>2
  <2> QED
    BY <1>2, <1>7, <2>3, <2>4, <2>5 DEF RequestInv
<1>9. CASE e \notin Alarms
  <2>1. "schedule" \notin done
    BY <1>2, <1>9, WhatOthersDo
  <2>2. UNCHANGED schedVars
    BY <1>1, <2>1 DEF Handled
  <2>3. \A f \in Alarms : InCare(f) => InCare(f)'
    BY <2>2, CareStays
  <2>4. Given' = Given
    <3>1. Given' \subseteq Given
      BY <1>6, <1>9
    <3>2. Given \subseteq Given'
      BY <1>3, <1>4, <1>9 DEF Given, Alarms, OfType
    <3> QED
      BY <3>1, <3>2
  <2> QED
    BY <1>2, <1>4, <1>7, <2>3, <2>4 DEF RequestInv, Given
<1> QED
  BY <1>8, <1>9


LEMMA RequestStep ==
    ASSUME TInv, WalkedInv, RequestInv, StepShape, [Next]_vars
    PROVE  RequestInv'
<1>1. ASSUME Idle \/ \E rows : Added(rows), UNCHANGED <<schedVars, mishaps>>
      PROVE  RequestInv'
  <2>1. UNCHANGED schedVars
    BY <1>1
  <2>2. \A e \in Alarms : InCare(e) => InCare(e)'
    BY <2>1, CareStays
  <2> QED
    BY <1>1, <2>2, CareInv
<1>2. ASSUME NEW event, Written(event),
             event.type # "MRPPlanUpdated",
             event.type = "MRPRecomputeRequested" => event.seen = losses
      PROVE  RequestInv'
  <2>1. \E rows : Added(rows)
    BY <1>2, WrittenAdds
  <2> QED
    BY <1>1, <1>2, <2>1 DEF Written
<1>3. CASE \E at \in Times : Alarm(at) \/ Recovery(at)
  <2>1. PICK at \in Times : Alarm(at) \/ Recovery(at)
    BY <1>3
  <2>2. PICK type \in {"AlarmTriggered", "StateChanged"} :
            Written(Event(type, at, "", None, 0))
    BY <2>1 DEF Alarm, Recovery
  <2> DEFINE event == Event(type, at, "", None, 0)
  <2>3. event.type # "MRPPlanUpdated" /\ event.type # "MRPRecomputeRequested"
    BY DEF Event
  <2> HIDE DEF event
  <2> QED
    BY <1>2, <2>2, <2>3 DEF event
<1>4. CASE request_recompute
  <2> DEFINE event == Event("MRPRecomputeRequested", 0, "manual", None, losses)
  <2>1. event.type # "MRPPlanUpdated" /\ event.seen = losses
    BY DEF Event
  <2>2. Written(event)
    BY <1>4 DEF request_recompute
  <2> HIDE DEF event
  <2> QED
    BY <1>2, <2>1, <2>2
<1>5. ASSUME NEW t \in DOMAIN timers, Fire(t) PROVE RequestInv'
  <2>1. Idle /\ mishaps' = mishaps
    BY <1>5 DEF Fire, Idle, walkVars, bizVars
  <2>2. \A e \in Alarms : InCare(e) => InCare(e)'
    BY <1>5, FireKeepsCare
  <2> QED
    BY <2>1, <2>2, CareInv
<1>6. ASSUME NEW t \in DOMAIN timers, Emit(t) PROVE RequestInv'
  <2>1. (\E rows : Added(rows)) /\ mishaps' = mishaps
    BY <1>6, EmitAdds DEF Emit
  <2>2. \A e \in Alarms : InCare(e) => InCare(e)'
    BY <1>6, EmitKeepsCare
  <2> QED
    BY <2>1, <2>2, CareInv
<1>7. CASE (\E t \in DOMAIN timers : EmitFails(t)) \/ Crash
  <2>1. "emit" \in mishaps' \/ "crash" \in mishaps'
    BY <1>7 DEF EmitFails, Crash
  <2> QED
    BY <2>1 DEF RequestInv
<1>8. CASE NextDrain
  <2>1. Idle /\ UNCHANGED <<schedVars, mishaps>>
    BY <1>8 DEF NextDrain, StartOver, Idle, bizVars
  <2> QED
    BY <1>1, <2>1
<1>9. CASE UNCHANGED vars
  <2>1. Idle /\ UNCHANGED <<schedVars, mishaps>>
    BY <1>9 DEF Idle, vars, walkVars, bizVars
  <2> QED
    BY <1>1, <2>1
<1> QED
  BY <1>3, <1>4, <1>5, <1>6, <1>7, <1>8, <1>9, DeliverKeepsCare, FailKeepsCare DEF Next

-----------------------------------------------------------------------------

PlanInv ==
    /\ TInv /\ AttemptsInv /\ SideInv
    /\ RequestInv /\ LogInv /\ AuditInv /\ WalkedInv /\ ViewInv /\ SignalInv

LEMMA PlansEstablished == Init => PlanInv
<1> SUFFICES ASSUME Init PROVE PlanInv
  OBVIOUS
<1>1. Events = {} /\ Requests = {} /\ Plans = {}
  BY DEF Init, WalkInit, Events, Requests, Plans, OfType
<1>2. RowsTyped
  BY <1>1 DEF Init, WalkInit, RowsTyped
<1>3. WalkedInv /\ ViewInv
  BY <1>1 DEF Init, WalkInit, WalkedInv, ViewInv
<1>4. LogInv /\ AuditInv /\ SignalInv /\ AttemptsInv
  BY <1>1 DEF LogInv, AuditInv, SignalInv, SignalsFollowPlans, AttemptsInv
<1>5. SideInv
  BY FS_EmptySet, WalkAssumption DEF Init, WalkInit, SideInv, TimersOf
<1>6. RequestInv
  BY <1>1 DEF Init, WalkInit, RequestInv, Given, Alarms, OfType
<1> QED
  BY <1>2, <1>3, <1>4, <1>5, <1>6, InitEstablishes DEF PlanInv, TInv

LEMMA PlansKept == PlanInv /\ [Next]_vars => PlanInv'
<1> SUFFICES ASSUME PlanInv, [Next]_vars PROVE PlanInv'
  OBVIOUS
<1>1. RowsTyped' /\ StepShape
  BY EveryStepHasAShape DEF PlanInv
<1>2. SInv'
  BY StepPreserves DEF PlanInv, TInv
<1> QED
  BY <1>1, <1>2, AttemptsStep, SideStep, RequestStep, LogStep,
   AuditStep, WalkedStep, ViewStep, SignalStep
  DEF PlanInv, TInv

LEMMA PlansAlways == Spec => []PlanInv
BY PlansEstablished, PlansKept, PTL DEF Spec

\* Every variable has its type: what timers carry are alarms, a row has no more
\* attempts than MAX_ATTEMPTS, and the plan view and every purchase signal show
\* plans that are in the log.
THEOREM TypeCorrect == Spec => []TypeOK
<1>1. PlanInv => TypeOK
  <2> SUFFICES ASSUME PlanInv PROVE TypeOK
    OBVIOUS
  <2>1. attempts \in [Events -> 0..MAX_ATTEMPTS]
    BY WalkAssumption DEF PlanInv, AttemptsInv, TInv, RowsTyped
  <2>2. /\ status \in [Events -> {"pending", "dispatched", "dead"}]
        /\ cursor \in {0} \cup Events
    BY DEF PlanInv, TInv, RowsTyped, Marks, WalkedInv
  <2>3. faults \in 0..MaxFaults
    BY WalkAssumption DEF PlanInv, SideInv, TInv, RowsTyped
  <2>4. WalkTypeOK
    BY <2>1, <2>2, <2>3 DEF WalkTypeOK
  <2>5. losses \in Nat
    BY DEF PlanInv, TInv, RowsTyped
  <2>6. armed \in {None} \cup DOMAIN timers
    BY DEF PlanInv, TInv, SInv, PendingIsArmed, None
  <2>7. view \in {NoPlan} \cup {[at |-> p, seen |-> log[p].seen] : p \in Plans}
    BY DEF PlanInv, ViewInv
  <2>8. signals \in [Events -> {None} \cup Plans]
    BY DEF PlanInv, SignalInv, TInv, RowsTyped
  <2>9. /\ pending \in {None} \cup OfType("AlarmTriggered")
        /\ \A t \in DOMAIN timers :
               \/ timers[t].does \in {"wait", "late", "over"} /\ timers[t].payload = None
               \/ timers[t].does = "emit" /\ timers[t].payload \in OfType("AlarmTriggered")
        /\ mishaps \subseteq {"publish", "emit", "crash"}
    BY DEF PlanInv, SideInv, TimersOf, Alarms
  <2>10. history \in [Events -> Nat]
    BY DEF PlanInv, TInv, RowsTyped
  <2> QED
    BY <2>4, <2>5, <2>6, <2>7, <2>8, <2>9, <2>10 DEF TypeOK
<1> QED
  BY <1>1, PlansAlways, PTL

\* Once the outbox and the timers are at rest, an alarm the relay dispatched has
\* led to a request - no failed publish alone prevents it - and without
\* failures the newest one has (_schedule, _fire and _emit).
THEOREM AlarmsLeadToRequests == Spec => []AlarmsAreRequested
<1>1. PlanInv => AlarmsAreRequested
  <2> SUFFICES ASSUME PlanInv, AtRest, Given # {}, mishaps \subseteq {"publish"}
               PROVE  /\ \E e \in Alarms : Bucketed(e)
                      /\ mishaps = {} => \E e \in Given :
                             (\A f \in Given : f <= e) /\ Bucketed(e)
    BY DEF AlarmsAreRequested, Given, Alarms, Bucketed
  <2>1. pending = None
    BY DEF AtRest, PlanInv, TInv, SInv, PendingIsArmed, None
  <2>2. \A e \in Alarms : e # None /\ ~Emitting(e)
    BY LogNumbers DEF AtRest, Emitting, Alarms, OfType, PlanInv, TInv, None
  <2>3. \A e \in Alarms : InCare(e) => Bucketed(e)
    BY <2>1, <2>2 DEF InCare
  <2>4. Given \subseteq Alarms
    BY DEF Given
  <2> QED
    BY <2>3, <2>4 DEF PlanInv, RequestInv
<1> QED
  BY <1>1, PlansAlways, PTL

\* Every plan has its history, however a run of the runner was cut short, and
\* a request that ran twice has a failure to blame (mrp_runner.py).
THEOREM PlansHaveHistory == Spec => []PlansAreAudited
<1>1. PlanInv => PlansAreAudited
  <2> SUFFICES ASSUME PlanInv PROVE PlansAreAudited
    OBVIOUS
  <2>1. \A p \in Plans : history[log[p].trigger] > 0
    BY DEF PlanInv, LogInv
  <2>2. \A r \in Requests : history[r] \in Nat /\ faults \in Nat
    BY DEF PlanInv, TInv, RowsTyped, Requests, OfType
  <2>3. ASSUME NEW r \in Requests
        PROVE  history[r] <= 1 + faults /\ (history[r] > 1 => mishaps # {})
    BY <2>2 DEF PlanInv, AuditInv
  <2> QED
    BY <2>1, <2>3 DEF PlansAreAudited
<1> QED
  BY <1>1, PlansAlways, PTL

\* The view is not behind a plan it was given and includes the losses that
\* plan does, those recorded before its request among them, in whatever order
\* plans are delivered again (read_model_projector.py, the gate on
\* generated_at).
THEOREM ViewNeverBehind == Spec => []ViewIsCurrent
<1>1. PlanInv => ViewIsCurrent
  <2> SUFFICES ASSUME PlanInv, NEW p \in Plans
               PROVE  /\ log[p].seen >= log[log[p].trigger].seen
                      /\ status[p] = "dispatched" => view.at >= p /\ view.seen >= log[p].seen
    BY DEF ViewIsCurrent
  <2>1. /\ log[p].seen \in Nat /\ log[log[p].trigger].seen \in Nat
        /\ log[log[p].trigger].seen <= log[p].seen
    BY DEF PlanInv, LogInv
  <2>2. ASSUME status[p] = "dispatched"
        PROVE  view.at >= p /\ view.seen >= log[p].seen
    <3>1. view.at >= p /\ p \in Nat \ {0}
      BY <2>2, LogNumbers DEF PlanInv, ViewInv, TInv, Plans, OfType
    <3>2. view # NoPlan
      BY <3>1 DEF NoPlan
    <3>3. view.at \in Plans /\ view.seen = log[view.at].seen
      BY <3>2 DEF PlanInv, ViewInv
    <3>4. log[p].seen <= log[view.at].seen /\ log[view.at].seen \in Nat
      BY <3>1, <3>3 DEF PlanInv, LogInv
    <3> QED
      BY <2>1, <3>1, <3>3, <3>4
  <2> QED
    BY <2>1, <2>2
<1> QED
  BY <1>1, PlansAlways, PTL

\* The upsert of the purchase signal has no gate, and needs none: a plan that
\* comes again after a later one has failed before
\* (procurement_signal_projector.py and the relay's walk).
THEOREM SignalsNotBehind == Spec => []SignalsFollowPlans
<1>1. PlanInv => SignalsFollowPlans
  BY DEF PlanInv, SignalInv
<1> QED
  BY <1>1, PlansAlways, PTL

-----------------------------------------------------------------------------
(* That the scheduler implements the debouncer.                            *)

Projected(row) == row.type = "MRPRecomputeRequested" /\ row.reason = "projected_loss"

\* A projected request goes back to an alarm, and carries its time.
AnswerInv ==
    \A r \in Requests : log[r].reason = "projected_loss" =>
        /\ log[r].trigger \in Alarms
        /\ log[r].at = log[log[r].trigger].at

LEMMA OldAlarms ==
    ASSUME NEW rows, Grown(rows)
    PROVE  /\ \A e \in Events : AlarmOf(e)' = AlarmOf(e)
           /\ Alarms \subseteq Alarms' /\ Events \subseteq Events'
BY DEF Grown, AlarmOf, Alarms, OfType

\* The requests of a log that has grown by a row of another kind are the old.
LEMMA AnsweredStays ==
    ASSUME AnswerInv, NEW rows, Grown(rows), rows # <<>> => ~Projected(rows[1])
    PROVE  Answered' = Answered /\ AnswerInv'
<1> DEFINE Asked == {q \in Requests : log[q].reason = "projected_loss"}
<1>1. Asked' = Asked /\ Asked \subseteq Events
  BY DEF Grown, Projected, Requests, OfType
<1>2. \A r \in Asked : log'[r] = log[r] /\ log[r].trigger \in Events
  BY <1>1 DEF Grown, AnswerInv, Alarms, OfType
<1>3. \A r \in Asked : AlarmOf(log[r].trigger)' = AlarmOf(log[r].trigger)
  BY <1>2, OldAlarms DEF AlarmOf, Grown
<1>4. Answered' = Answered
  BY <1>1, <1>2, <1>3 DEF Answered
<1>5. AnswerInv'
  BY <1>1, <1>2, OldAlarms DEF AnswerInv, Grown
<1> QED
  BY <1>4, <1>5

\* _emit: the alarm is answered, or its bucket was.
LEMMA BucketTaken ==
    ASSUME AnswerInv, NEW e
    PROVE  InBucket("projected_loss", log[e].at) <=> AlarmOf(e).bucket \in Promise!Buckets
<1> DEFINE Asked == {q \in Requests : log[q].reason = "projected_loss"}
<1>1. \A r \in Asked : AlarmOf(log[r].trigger).bucket = log[r].at \div Bucket
  BY DEF AnswerInv, AlarmOf
<1>2. Promise!Buckets = {AlarmOf(log[r].trigger).bucket : r \in Asked}
  BY DEF Promise!Buckets, Answered
<1>3. AlarmOf(e).bucket = log[e].at \div Bucket
  BY DEF AlarmOf
<1>4. InBucket("projected_loss", log[e].at) <=>
          \E r \in Asked : log[r].at \div Bucket = log[e].at \div Bucket
  BY DEF InBucket
<1> HIDE DEF Asked
<1> QED
  BY <1>1, <1>2, <1>3, <1>4

LEMMA AnsweredGrows ==
    ASSUME AnswerInv, NEW row, Grown(<<row>>), Projected(row),
           row.trigger \in Alarms, row.at = log[row.trigger].at
    PROVE  Answered' = Answered \cup {AlarmOf(row.trigger)} /\ AnswerInv'
<1> DEFINE Asked == {q \in Requests : log[q].reason = "projected_loss"}
<1>1. <<row>> # <<>> /\ <<row>>[1] = row
  OBVIOUS
<1>2. /\ \A e \in Events : log'[e] = log[e]
      /\ log'[New] = row /\ New \notin Events /\ Events' = Events \cup {New}
  BY <1>1 DEF Grown
<1>3. Asked' = Asked \cup {New} /\ Asked \subseteq Events
  BY <1>2 DEF Projected, Requests, OfType
<1>4. \A r \in Asked : log'[r] = log[r] /\ log[r].trigger \in Events
  BY <1>2, <1>3 DEF AnswerInv, Alarms, OfType
<1>5. \A e \in Events : [id |-> e, bucket |-> log'[e].at \div Bucket] = AlarmOf(e)
  BY <1>2 DEF AlarmOf
<1>6. row.trigger \in Events
  BY DEF Alarms, OfType
<1>7. Answered' = {[id |-> log'[r].trigger, bucket |-> log'[log'[r].trigger].at \div Bucket] :
                      r \in Asked'}
  BY DEF Answered, AlarmOf
<1>8. Answered = {AlarmOf(log[r].trigger) : r \in Asked}
  BY DEF Answered
<1> HIDE DEF Asked
<1>9. Answered' = Answered \cup {AlarmOf(row.trigger)}
  BY <1>2, <1>3, <1>4, <1>5, <1>6, <1>7, <1>8
<1>10. AnswerInv'
  <2>1. ASSUME NEW r \in Asked'
        PROVE  log'[r].trigger \in Alarms' /\ log'[r].at = log'[log'[r].trigger].at
    <3>1. CASE r \in Asked
      <4>1. log[r].trigger \in Alarms /\ log[r].at = log[log[r].trigger].at
        BY <3>1 DEF AnswerInv, Asked
      <4> QED
        BY <1>2, <1>4, <3>1, <4>1, OldAlarms
    <3>2. CASE r = New
      BY <1>2, <1>6, <3>2, OldAlarms
    <3> QED
      BY <1>3, <3>1, <3>2
  <2> QED
    BY <2>1 DEF AnswerInv, Asked
<1> QED
  BY <1>9, <1>10

\* The alarms that leave, before and after a step of the timers.
LEMMA LeavingIs ==
    ASSUME TInv, SideInv
    PROVE  \A t \in DOMAIN timers : timers[t].does = "emit" =>
               timers[t].payload \in Alarms /\ timers[t].payload \in Events
BY DEF SideInv, TimersOf, Alarms, OfType, None

\* While the timers keep still, what waits and what leaves does.
LEMMA TimersKeepStill ==
    ASSUME TInv, SideInv, NEW rows, Grown(rows), UNCHANGED <<timers, pending>>
    PROVE  Waiting' = Waiting /\ Leaving' = Leaving
<1>1. \A e \in Events : AlarmOf(e)' = AlarmOf(e)
  BY OldAlarms
<1>2. pending # None => pending \in Events
  BY DEF SideInv, Alarms, OfType
<1>3. Waiting' = Waiting
  BY <1>1, <1>2 DEF Waiting, AlarmOf
<1>4. Leaving' = {[thread |-> t, alarm |-> AlarmOf(timers[t].payload)'] :
                      t \in {u \in DOMAIN timers : timers[u].does = "emit"}}
  BY DEF Leaving, AlarmOf
<1>5. \A t \in {u \in DOMAIN timers : timers[u].does = "emit"} :
          AlarmOf(timers[t].payload)' = AlarmOf(timers[t].payload)
  BY <1>1, LeavingIs DEF AlarmOf, Grown
<1>6. Leaving' = Leaving
  BY <1>4, <1>5 DEF Leaving
<1> QED
  BY <1>3, <1>6

\* _fire: what waits leaves with the thread that took it, or nothing waits.
LEMMA FireLeaves ==
    ASSUME TInv, SideInv, NEW t \in DOMAIN timers, Fire(t)
    PROVE  [Promise!Next]_(Promise!vars)
<1>1. /\ log' = log /\ pending' = None /\ mishaps' = mishaps
      /\ timers' = [timers EXCEPT ![t] = IF pending = None THEN Timer("over", None)
                                         ELSE Timer("emit", pending)]
      /\ timers[t].does # "emit"
  BY DEF Fire, walkVars
<1>2. DOMAIN timers' = DOMAIN timers /\ \A u \in DOMAIN timers : u # t => timers'[u] = timers[u]
  BY <1>1
<1>3. \A e : AlarmOf(e)' = AlarmOf(e)
  BY <1>1 DEF AlarmOf
<1>4. Answered' = Answered
  BY <1>1 DEF Answered, AlarmOf, Requests, OfType, Events
<1>5. Leaving = {[thread |-> u, alarm |-> AlarmOf(timers[u].payload)] :
                    u \in {u \in DOMAIN timers : timers[u].does = "emit"}}
  BY DEF Leaving
<1>6. Leaving' = {[thread |-> u, alarm |-> AlarmOf(timers'[u].payload)] :
                    u \in {u \in DOMAIN timers : timers'[u].does = "emit"}}
  BY <1>1, <1>2 DEF Leaving, AlarmOf
<1>7. Waiting' = {}
  BY <1>1 DEF Waiting
<1>8. CASE pending = None
  <2>1. timers'[t].does = "over"
    BY <1>1, <1>8 DEF Timer
  <2>2. {u \in DOMAIN timers : timers'[u].does = "emit"} = {u \in DOMAIN timers : timers[u].does = "emit"}
    BY <1>1, <1>2, <2>1
  <2>3. Leaving' = Leaving
    BY <1>1, <1>2, <1>5, <1>6, <2>2
  <2>4. Waiting = {}
    BY <1>8 DEF Waiting
  <2> QED
    BY <1>1, <1>4, <1>7, <2>3, <2>4 DEF Promise!vars
<1>9. CASE pending # None
  <2> DEFINE taken == [thread |-> t, alarm |-> AlarmOf(pending)]
  <2>1. timers'[t].does = "emit" /\ timers'[t].payload = pending
    BY <1>1, <1>9 DEF Timer
  <2>2. {u \in DOMAIN timers : timers'[u].does = "emit"}
            = {u \in DOMAIN timers : timers[u].does = "emit"} \cup {t}
    BY <1>1, <1>2, <2>1
  <2>3. Leaving' = Leaving \cup {taken}
    BY <1>1, <1>2, <1>5, <1>6, <2>1, <2>2
  <2>4. Waiting = {taken.alarm}
    BY <1>9 DEF Waiting
  <2>5. \A other \in Leaving : other.thread # taken.thread
    BY <1>1, <1>5
  <2>6. taken \in Leaving'
    BY <2>3
  <2> HIDE DEF taken
  <2>7. Promise!Leave
    BY <1>1, <1>4, <1>7, <2>3, <2>4, <2>5, <2>6 DEF Promise!Leave
  <2> QED
    BY <2>7 DEF Promise!Next
<1> QED
  BY <1>8, <1>9

\* The end of a thread takes its departure away, and no other.
LEMMA ThreadEnds ==
    ASSUME TInv, SideInv, NEW t \in DOMAIN timers, timers[t].does = "emit",
           timers' = [timers EXCEPT ![t] = Timer("over", None)],
           NEW rows, Grown(rows)
    PROVE  /\ [thread |-> t, alarm |-> AlarmOf(timers[t].payload)] \in Leaving
           /\ Leaving' = Leaving \ {[thread |-> t, alarm |-> AlarmOf(timers[t].payload)]}
<1>1. /\ DOMAIN timers' = DOMAIN timers /\ timers'[t].does = "over"
      /\ \A u \in DOMAIN timers : u # t => timers'[u] = timers[u]
  BY DEF Timer
<1>2. {u \in DOMAIN timers' : timers'[u].does = "emit"}
          = {u \in DOMAIN timers : timers[u].does = "emit"} \ {t}
  BY <1>1
<1>3. \A u \in {u \in DOMAIN timers : timers[u].does = "emit"} \ {t} :
          AlarmOf(timers[u].payload)' = AlarmOf(timers[u].payload)
  BY <1>1, OldAlarms, LeavingIs DEF AlarmOf, Grown
<1>4. Leaving' = {[thread |-> u, alarm |-> AlarmOf(timers[u].payload)'] :
                     u \in {u \in DOMAIN timers' : timers'[u].does = "emit"}}
  BY DEF Leaving, AlarmOf
<1>5. Leaving' = {[thread |-> u, alarm |-> AlarmOf(timers[u].payload)] :
                     u \in {u \in DOMAIN timers : timers[u].does = "emit"} \ {t}}
  BY <1>2, <1>3, <1>4
<1>6. Leaving = {[thread |-> u, alarm |-> AlarmOf(timers[u].payload)] :
                    u \in {u \in DOMAIN timers : timers[u].does = "emit"}}
  BY DEF Leaving
<1> QED
  BY <1>5, <1>6

\* _emit appends the alarm's request, unless ux_dedup has its key.
LEMMA EmitAnswers ==
    ASSUME TInv, SideInv, AnswerInv, NEW t \in DOMAIN timers, Emit(t)
    PROVE  [Promise!Next]_(Promise!vars) /\ AnswerInv'
<1> DEFINE e == timers[t].payload
           rows == Emitted(e, losses)
           row == Event("MRPRecomputeRequested", log[e].at, "projected_loss", e, losses)
           taken == [thread |-> t, alarm |-> AlarmOf(e)]
<1>1. /\ timers[t].does = "emit" /\ timers' = [timers EXCEPT ![t] = Timer("over", None)]
      /\ log' = log \o rows
      /\ pending' = pending /\ mishaps' = mishaps
  BY DEF Emit, append_many, Commit
<1>2. e \in Alarms /\ e \in Events
  BY <1>1, LeavingIs
<1>3. rows = IF Bucketed(e) THEN <<>> ELSE <<row>>
  BY <1>2 DEF Emitted, Bucketed, Reason, Alarms, OfType
<1>4. OneOrNone(rows)
  BY <1>3 DEF OneOrNone
<1>5. /\ Projected(row) /\ row.trigger = e /\ row.at = log[e].at
  BY DEF Projected, Event
<1> HIDE DEF e, rows, row
<1>6. Grown(rows)
  BY <1>1, <1>4, LogGrowsBy DEF TInv
<1>7. taken \in Leaving /\ Leaving' = Leaving \ {taken}
  BY <1>1, <1>6, ThreadEnds DEF e
<1>8. Waiting' = Waiting
  <2>1. pending # None => pending \in Events
    BY DEF SideInv, Alarms, OfType
  <2> QED
    BY <1>1, <1>6, <2>1, OldAlarms DEF Waiting, AlarmOf
<1>9. Bucketed(e) <=> AlarmOf(e).bucket \in Promise!Buckets
  BY BucketTaken DEF Bucketed
<1>10. /\ AnswerInv'
       /\ Answered' = IF AlarmOf(e).bucket \in Promise!Buckets THEN Answered
                      ELSE Answered \cup {AlarmOf(e)}
  <2>1. CASE Bucketed(e)
    <3>1. rows = <<>>
      BY <1>3, <2>1
    <3>2. Answered' = Answered /\ AnswerInv'
      BY <1>6, <3>1, AnsweredStays
    <3> QED
      BY <1>9, <2>1, <3>2
  <2>2. CASE ~Bucketed(e)
    <3>1. Grown(<<row>>)
      BY <1>3, <1>6, <2>2
    <3>2. Answered' = Answered \cup {AlarmOf(row.trigger)} /\ AnswerInv'
      BY <1>2, <1>5, <3>1, AnsweredGrows
    <3> QED
      BY <1>5, <1>9, <2>2, <3>2
  <2> QED
    BY <2>1, <2>2
<1>11. taken.alarm = AlarmOf(e)
  OBVIOUS
<1> HIDE DEF taken
<1>12. Promise!Answer(taken)
  BY <1>1, <1>7, <1>8, <1>10, <1>11 DEF Promise!Answer
<1>13. Promise!Next
  BY <1>7, <1>12 DEF Promise!Next
<1> QED
  BY <1>10, <1>13

\* An idle log is one that has grown by nothing.
LEMMA GrownByNothing ==
    ASSUME SInv, log' = log
    PROVE  Grown(<<>>)
<1>1. PICK S : log \in Seq(S)
  BY DEF SInv
<1>2. log' = log \o <<>>
  BY <1>1
<1> QED
  BY <1>2, LogGrowsBy DEF OneOrNone

LEMMA EmitLoses ==
    ASSUME TInv, SideInv, AnswerInv, NEW t \in DOMAIN timers, EmitFails(t)
    PROVE  [Promise!Next]_(Promise!vars) /\ AnswerInv'
<1> DEFINE taken == [thread |-> t, alarm |-> AlarmOf(timers[t].payload)]
<1>1. /\ timers[t].does = "emit" /\ timers' = [timers EXCEPT ![t] = Timer("over", None)]
      /\ log' = log /\ pending' = pending /\ mishaps' = mishaps \cup {"emit"}
  BY DEF EmitFails
<1>2. Grown(<<>>)
  BY <1>1, GrownByNothing DEF TInv
<1>3. taken \in Leaving /\ Leaving' = Leaving \ {taken}
  BY <1>1, <1>2, ThreadEnds
<1>4. Waiting' = Waiting
  BY <1>1 DEF Waiting, AlarmOf
<1>5. Answered' = Answered /\ AnswerInv'
  BY <1>2, AnsweredStays
<1> HIDE DEF taken
<1>6. Promise!Lose(taken)
  BY <1>1, <1>3, <1>4, <1>5 DEF Promise!Lose
<1> QED
  BY <1>3, <1>5, <1>6 DEF Promise!Next

\* _schedule: the alarm takes the place of the one that waits; what has left
\* is not called back.
LEMMA ScheduleAsks ==
    ASSUME TInv, SideInv, NEW e \in Events, Schedule(e), NEW rows, Grown(rows)
    PROVE  Waiting' = {AlarmOf(e)} /\ Leaving' = Leaving
<1>1. pending' = e /\ e # None
  BY LogNumbers DEF Schedule, TInv, None
<1>2. PICK does \in {"over", "late"} : timers' = Restarted(armed, does)
  BY DEF Schedule
<1> DEFINE kept == IF armed = None THEN timers
                   ELSE [timers EXCEPT ![armed] = Timer(does, None)]
           Emits(ts) == {u \in DOMAIN ts : ts[u].does = "emit"}
<1>3. timers \in Seq(TimerRecords) /\ DOMAIN timers = 1..Len(timers) /\ Len(timers) \in Nat
  BY DEF TInv, SInv
<1>4. /\ DOMAIN kept = 1..Len(timers)
      /\ \A u \in DOMAIN timers : u # armed => kept[u] = timers[u]
      /\ armed # None => /\ armed \in DOMAIN timers /\ timers[armed].does = "wait"
                         /\ kept[armed] = Timer(does, None)
      /\ armed = None => kept = timers
  <2>1. armed # None => armed \in DOMAIN timers /\ timers[armed].does = "wait"
    BY <1>3 DEF TInv, SInv, PendingIsArmed, None
  <2>2. CASE armed = None
    BY <1>3, <2>2
  <2>3. CASE armed # None
    <3>1. kept = [timers EXCEPT ![armed] = Timer(does, None)]
      BY <2>3
    <3> HIDE DEF kept
    <3> QED
      BY <1>3, <2>1, <2>3, <3>1
  <2> QED
    BY <2>2, <2>3
<1>5. kept \in Seq(TimerRecords) /\ Len(kept) = Len(timers)
  <2>1. Timer(does, None) \in TimerRecords
    BY DEF Timer, TimerRecords, None
  <2>2. CASE armed = None
    BY <1>3, <2>2
  <2>3. CASE armed # None
    <3>1. kept = [timers EXCEPT ![armed] = Timer(does, None)]
      BY <2>3
    <3> HIDE DEF kept, TimerRecords
    <3> QED
      BY <1>3, <1>4, <2>1, <2>3, <3>1
  <2> QED
    BY <2>2, <2>3
<1>6. timers' = Append(kept, Timer("wait", None)) /\ Timer("wait", None) \in TimerRecords
  BY <1>2 DEF Restarted, Timer, TimerRecords, None
<1> HIDE DEF kept
<1>7. /\ DOMAIN timers' = DOMAIN timers \cup {Len(timers) + 1}
      /\ \A u \in DOMAIN timers : timers'[u] = kept[u]
      /\ timers'[Len(timers) + 1] = Timer("wait", None)
      /\ Len(timers) + 1 \notin DOMAIN timers
  BY <1>3, <1>4, <1>5, <1>6
<1>8. Timer("wait", None).does # "emit" /\ Timer(does, None).does # "emit"
  BY DEF Timer
<1>9. /\ \A u \in DOMAIN timers : timers'[u].does = "emit" <=> timers[u].does = "emit"
      /\ \A u \in DOMAIN timers : timers[u].does = "emit" => timers'[u] = timers[u]
  <2>1. CASE armed = None
    BY <1>4, <1>7, <2>1
  <2>2. CASE armed # None
    <3>1. timers'[armed].does # "emit" /\ timers[armed].does # "emit"
      BY <1>4, <1>7, <1>8, <2>2
    <3> QED
      BY <1>4, <1>7, <2>2, <3>1
  <2> QED
    BY <2>1, <2>2
<1>10. Emits(timers') = Emits(timers)
  BY <1>7, <1>8, <1>9
<1>11. \A u \in Emits(timers) : AlarmOf(timers[u].payload)' = AlarmOf(timers[u].payload)
  BY <1>9, OldAlarms, LeavingIs DEF AlarmOf, Grown
<1>12. Leaving' = Leaving
  BY <1>10, <1>11 DEF Leaving, AlarmOf
<1>13. Waiting' = {AlarmOf(e)}
  BY <1>1, OldAlarms DEF Waiting, AlarmOf
<1> QED
  BY <1>12, <1>13

\* What a publish appends is nothing, a plan, or a recovery's request.
LEMMA PublishAnswersNothing ==
    ASSUME NEW e \in Events, NEW done \in Partial(e)
    PROVE  /\ Appended(e, done) # <<>> => ~Projected(Appended(e, done)[1])
           /\ "schedule" \in done => Appended(e, done) = <<>>
<1>1. /\ "emit" \in done => log[e].type = "StateChanged"
      /\ "schedule" \in done => "emit" \notin done /\ "plan" \notin done
  <2>1. CASE e \in Requests
    BY <2>1, PartialOfARequest DEF Runner
  <2>2. CASE e \in Plans
    BY <2>2, PartialOfAPlan
  <2>3. CASE e \notin Requests /\ e \notin Plans /\ RaisesClosed(e)
    <3>1. log[e].type = "StateChanged"
      BY <2>3 DEF RaisesClosed
    <3>2. Partial(e) = SUBSET {"charge", "emit"}
      BY <2>3, <3>1 DEF Partial
    <3> QED
      BY <3>1, <3>2
  <2>4. CASE e \notin Requests /\ e \notin Plans /\ ~RaisesClosed(e)
    <3>1. Partial(e) = {{}, {"schedule"}} \/ Partial(e) = {{}}
      BY <2>4 DEF Partial
    <3> QED
      BY <3>1
  <2> QED
    BY <2>1, <2>2, <2>3, <2>4
<1>2. CASE "emit" \in done
  <2>1. Reason(e) = "reconciled_loss"
    BY <1>1, <1>2 DEF Reason
  <2> QED
    BY <1>1, <1>2, <2>1 DEF Appended, Emitted, Projected, Event
<1>3. CASE "emit" \notin done /\ "plan" \in done
  BY <1>1, <1>3 DEF Appended, Projected, Event
<1>4. CASE "emit" \notin done /\ "plan" \notin done
  BY <1>4 DEF Appended
<1> QED
  BY <1>2, <1>3, <1>4

\* A publish asks, or leaves the debouncer alone.
LEMMA PublishAsks ==
    ASSUME TInv, SideInv, AnswerInv, Ahead # {}, NEW done \in Partial(NextRow),
           Handled(NextRow, done), log' = log \o Appended(NextRow, done),
           mishaps' \in {mishaps, mishaps \cup {"publish"}}
    PROVE  [Promise!Next]_(Promise!vars) /\ AnswerInv'
<1> DEFINE e == NextRow
           rows == Appended(e, done)
<1>1. e \in Events
  BY AheadFacts
<1>2. rows # <<>> => ~Projected(rows[1])
  BY <1>1, PublishAnswersNothing
<1>3. Grown(rows)
  BY AppendedOneOrNone, LogGrowsBy DEF TInv
<1>4. /\ "schedule" \in done => Schedule(e)
      /\ "schedule" \notin done => UNCHANGED <<timers, pending>>
  BY DEF Handled, schedVars
<1> HIDE DEF e, rows
<1>5. Answered' = Answered /\ AnswerInv'
  BY <1>2, <1>3, AnsweredStays
<1>6. CASE "schedule" \in done
  <2>1. Waiting' = {AlarmOf(e)} /\ Leaving' = Leaving
    BY <1>1, <1>3, <1>4, <1>6, ScheduleAsks
  <2>2. Promise!Ask(AlarmOf(e))
    BY <1>5, <2>1 DEF Promise!Ask
  <2> QED
    BY <1>5, <2>1, <2>2 DEF Promise!Next, Promise!Stumble
<1>7. CASE "schedule" \notin done
  <2>1. Waiting' = Waiting /\ Leaving' = Leaving
    BY <1>3, <1>4, <1>7, TimersKeepStill
  <2> QED
    BY <1>5, <2>1 DEF Promise!Next, Promise!Stumble, Promise!vars
<1> QED
  BY <1>6, <1>7

LEMMA CrashForgets ==
    ASSUME TInv, SideInv, AnswerInv, Crash
    PROVE  [Promise!Next]_(Promise!vars) /\ AnswerInv'
<1>1. /\ pending' = None /\ mishaps' = mishaps \cup {"crash"}
      /\ timers' = [t \in DOMAIN timers |-> Timer("over", None)]
  BY DEF Crash
<1>2. Waiting' = {} /\ Leaving' = {}
  <2>1. \A t \in DOMAIN timers' : timers'[t].does # "emit"
    BY <1>1 DEF Timer
  <2> QED
    BY <1>1, <2>1 DEF Waiting, Leaving
<1>3. \E rows : Grown(rows) /\ (rows # <<>> => ~Projected(rows[1]))
  <2>1. CASE SettleNot(<<>>)
    <3>1. Grown(<<>>)
      BY <2>1, LogGrowsBy DEF OneOrNone, SettleNot, Commit, TInv
    <3> QED
      BY <3>1
  <2>2. CASE Ahead # {} /\ \E done \in Partial(NextRow) : SettleNot(Appended(NextRow, done))
    <3>1. PICK done \in Partial(NextRow) : SettleNot(Appended(NextRow, done))
      BY <2>2
    <3>2. NextRow \in Events
      BY <2>2, AheadFacts
    <3>3. log' = log \o Appended(NextRow, done)
      BY <3>1 DEF SettleNot, Commit
    <3>4. Grown(Appended(NextRow, done))
      BY <3>3, AppendedOneOrNone, LogGrowsBy DEF TInv
    <3> QED
      BY <3>2, <3>4, PublishAnswersNothing
  <2> QED
    BY <2>1, <2>2 DEF Crash
<1>4. Answered' = Answered /\ AnswerInv'
  BY <1>3, AnsweredStays
<1>5. Promise!Forget
  BY <1>1, <1>2, <1>4 DEF Promise!Forget
<1> QED
  BY <1>4, <1>5 DEF Promise!Next

\* Steps that neither the timers nor the requests for alarms see.
LEMMA OthersStutter ==
    ASSUME TInv, SideInv, AnswerInv, NEW rows, Grown(rows),
           rows # <<>> => ~Projected(rows[1]), UNCHANGED <<timers, pending, mishaps>>
    PROVE  [Promise!Next]_(Promise!vars) /\ AnswerInv'
BY TimersKeepStill, AnsweredStays DEF Promise!vars

LEMMA StepDebounces ==
    ASSUME TInv, SideInv, AnswerInv, [Next]_vars
    PROVE  [Promise!Next]_(Promise!vars) /\ AnswerInv'
<1> DEFINE Good == [Promise!Next]_(Promise!vars) /\ AnswerInv'
<1> SUFFICES Good
  OBVIOUS
<1> HIDE DEF Good
<1>1. ASSUME NEW event, ~Projected(event), Written(event) PROVE Good
  <2>1. log' = log \o <<event>> /\ UNCHANGED <<timers, pending, mishaps>>
    BY <1>1 DEF Written, append_many, Commit, schedVars
  <2>2. Grown(<<event>>)
    BY <2>1, LogGrowsBy DEF OneOrNone, TInv
  <2>3. <<event>>[1] = event
    OBVIOUS
  <2> QED
    BY <1>1, <2>1, <2>2, <2>3, OthersStutter DEF Good
<1>2. CASE \E at \in Times : Alarm(at) \/ Recovery(at)
  <2>1. PICK at \in Times : Alarm(at) \/ Recovery(at)
    BY <1>2
  <2>2. PICK type \in {"AlarmTriggered", "StateChanged"} :
            Written(Event(type, at, "", None, 0))
    BY <2>1 DEF Alarm, Recovery
  <2>3. ~Projected(Event(type, at, "", None, 0))
    BY DEF Projected, Event
  <2> QED
    BY <1>1, <2>2, <2>3
<1>3. CASE request_recompute
  <2>1. ~Projected(Event("MRPRecomputeRequested", 0, "manual", None, losses))
    BY DEF Projected, Event
  <2> QED
    BY <1>1, <1>3, <2>1 DEF request_recompute
<1>4. CASE \E t \in DOMAIN timers : Fire(t) \/ Emit(t) \/ EmitFails(t)
  <2>1. ASSUME NEW t \in DOMAIN timers, Fire(t) PROVE Good
    <3>1. Grown(<<>>)
      BY <2>1, GrownByNothing DEF Fire, walkVars, TInv
    <3>2. AnswerInv'
      BY <3>1, AnsweredStays
    <3> QED
      BY <2>1, <3>2, FireLeaves DEF Good
  <2> QED
    BY <1>4, <2>1, EmitAnswers, EmitLoses DEF Good
<1>5. CASE Deliver \/ DeliverFails \/ MarkFails
  <2>1. NextRow \in Requests \/ RaisesClosed(NextRow) => {} \in Partial(NextRow)
    BY PartialOfARequest DEF Runner, Partial
  <2>2. \A done \in Whole(NextRow) : done \in Partial(NextRow)
    BY <2>1 DEF Whole
  <2>3. PICK done \in Partial(NextRow) :
            /\ Ahead # {} /\ Handled(NextRow, done)
            /\ log' = log \o Appended(NextRow, done)
    BY <1>5, <2>2 DEF Deliver, DeliverFails, MarkFails, SettleDispatched, SettleFailed,
       SettleNot, Commit
  <2>4. mishaps' \in {mishaps, mishaps \cup {"publish"}}
    BY <1>5 DEF Deliver, DeliverFails, MarkFails
  <2> QED
    BY <2>3, <2>4, PublishAsks DEF Good
<1>6. CASE NextDrain \/ UNCHANGED vars
  <2>1. log' = log /\ UNCHANGED <<timers, pending, mishaps>>
    BY <1>6 DEF NextDrain, StartOver, schedVars, vars, walkVars
  <2> QED
    BY <2>1, GrownByNothing, OthersStutter DEF Good, TInv
<1>7. CASE Crash
  BY <1>7, CrashForgets DEF Good
<1> QED
  BY <1>2, <1>3, <1>4, <1>5, <1>6, <1>7 DEF Next

\* The scheduler implements the debouncer, whatever its timers, the relay and
\* the crashes do: _schedule asks, _fire lets leave, _emit answers.
THEOREM SchedulerDebounces == Spec => ImplementsDebounce
<1>1. Init => Promise!Init /\ AnswerInv
  <2> SUFFICES ASSUME Init PROVE Promise!Init /\ AnswerInv
    OBVIOUS
  <2>1. Requests = {} /\ DOMAIN timers = {} /\ pending = None /\ mishaps = {}
    BY DEF Init, WalkInit, Requests, OfType, Events
  <2> QED
    BY <2>1 DEF Promise!Init, AnswerInv, Waiting, Leaving, Answered
<1>2. PlanInv /\ AnswerInv /\ [Next]_vars => [Promise!Next]_(Promise!vars) /\ AnswerInv'
  BY StepDebounces DEF PlanInv
<1> QED
  BY <1>1, <1>2, PlansAlways, PTL DEF Spec, ImplementsDebounce, Promise!Spec

-----------------------------------------------------------------------------
(* What the runner computes, for all inputs.  The two recursions, the sum   *)
(* over a set and the walk over the days, are looked at through the least   *)
(* case that could be wrong.                                               *)

\* Of finite sets some of which are bad, one has no bad proper subset.
LEMMA LeastSet ==
    ASSUME NEW S, IsFiniteSet(S), NEW Bad \in SUBSET (SUBSET S), Bad # {}
    PROVE  \E T \in Bad : \A V \in SUBSET T : V # T => V \notin Bad
<1> DEFINE sizes == {n \in Nat : \E T \in Bad : Cardinality(T) = n}
<1>1. \A T \in SUBSET S : IsFiniteSet(T) /\ Cardinality(T) \in Nat
  BY FS_Subset, FS_CardinalityType
<1>2. sizes \in SUBSET Nat /\ sizes # {}
  BY <1>1
<1>3. PICK n \in sizes : \A m \in sizes : n <= m
  <2> HIDE DEF sizes
  <2> QED
    BY <1>2, LeastNatural
<1>4. PICK T \in Bad : Cardinality(T) = n
  BY <1>3
<1>5. ASSUME NEW V \in SUBSET T, V # T PROVE V \notin Bad
  <2>1. Cardinality(V) < Cardinality(T)
    BY <1>1, <1>4, <1>5, FS_Subset
  <2>2. Cardinality(V) \in Nat /\ V \in SUBSET S /\ n \in Nat
    BY <1>1, <1>2, <1>3, <1>4
  <2> QED
    BY <1>3, <1>4, <2>1, <2>2
<1> QED
  BY <1>4, <1>5

\* The element a sum takes out first.
Taken(T) == CHOOSE x \in T : TRUE

Adds(f, S, sum) ==
    sum = [T \in SUBSET S |-> IF T = {} THEN 0
                              ELSE LET x == CHOOSE x \in T : TRUE IN f[x] + sum[T \ {x}]]

\* The total of a set is what its definition by recursion says.
TotalUnfolds(f, T) ==
    Total(f, T) = IF T = {} THEN 0 ELSE f[Taken(T)] + Total(f, T \ {Taken(T)})

LEMMA TotalIsASum ==
    ASSUME NEW f, NEW S
    PROVE  Total(f, S) = (CHOOSE sum : Adds(f, S, sum))[S]
  BY SMT DEF Total, FoldFunctionOnSet, MapThenFoldSet, Adds

LEMMA TakenIsIn ==
    ASSUME NEW T, T # {}
    PROVE  Taken(T) \in T
  BY DEF Taken

LEMMA SumsAgree ==
    ASSUME NEW f, NEW T, IsFiniteSet(T), NEW sum, Adds(f, T, sum),
           NEW S \in SUBSET T, \A V \in SUBSET S : TotalUnfolds(f, V)
    PROVE  sum[S] = Total(f, S)
<1> DEFINE bad == {V \in SUBSET S : sum[V] # Total(f, V)}
<1>1. SUFFICES ASSUME bad # {} PROVE FALSE
  OBVIOUS
<1>2. IsFiniteSet(S)
  BY FS_Subset
<1>3. PICK V \in bad : \A W \in SUBSET V : W # V => W \notin bad
  <2>1. bad \in SUBSET (SUBSET S)
    OBVIOUS
  <2> HIDE DEF bad
  <2> QED
    BY <1>1, <1>2, <2>1, LeastSet
<1>4. V \in SUBSET T /\ TotalUnfolds(f, V)
  BY <1>3
<1>5. sum[V] = IF V = {} THEN 0 ELSE f[Taken(V)] + sum[V \ {Taken(V)}]
  BY <1>4 DEF Adds, Taken
<1>6. CASE V = {}
  BY <1>3, <1>4, <1>5, <1>6 DEF TotalUnfolds
<1>7. CASE V # {}
  <2>1. Taken(V) \in V
    BY <1>7, TakenIsIn
  <2>2. sum[V \ {Taken(V)}] = Total(f, V \ {Taken(V)})
    BY <1>3, <2>1
  <2> QED
    BY <1>3, <1>4, <1>5, <1>7, <2>2 DEF TotalUnfolds
<1> QED
  BY <1>6, <1>7

LEMMA TotalByRecursion ==
    ASSUME NEW f, NEW S, IsFiniteSet(S)
    PROVE  TotalUnfolds(f, S)
<1> DEFINE bad == {V \in SUBSET S : ~ TotalUnfolds(f, V)}
<1>1. SUFFICES ASSUME bad # {} PROVE FALSE
  OBVIOUS
<1>2. PICK T \in bad : \A V \in SUBSET T : V # T => V \notin bad
  <2>1. bad \in SUBSET (SUBSET S)
    OBVIOUS
  <2> HIDE DEF bad
  <2> QED
    BY <1>1, <2>1, LeastSet
<1>3. IsFiniteSet(T)
  BY <1>2, FS_Subset
<1>4. \A V \in SUBSET T : V # T => TotalUnfolds(f, V)
  BY <1>2
<1> DEFINE sum == [V \in SUBSET T |->
                     IF V = {} THEN 0 ELSE f[Taken(V)] + Total(f, V \ {Taken(V)})]
<1>5. Adds(f, T, sum)
  <2>1. ASSUME NEW V \in SUBSET T, V # {}
        PROVE  sum[V \ {Taken(V)}] = Total(f, V \ {Taken(V)})
    <3>1. Taken(V) \in V
      BY <2>1, TakenIsIn
    <3> DEFINE W == V \ {Taken(V)}
    <3>2. W \in SUBSET T /\ W # T
      BY <2>1, <3>1
    <3>3. TotalUnfolds(f, W)
      BY <1>4, <3>2
    <3> HIDE DEF W
    <3> QED
      BY <3>2, <3>3 DEF TotalUnfolds, W
  <2>2. sum = [V \in SUBSET T |->
                 IF V = {} THEN 0 ELSE f[Taken(V)] + sum[V \ {Taken(V)}]]
    <3>1. ASSUME NEW V \in SUBSET T
          PROVE  sum[V] = IF V = {} THEN 0 ELSE f[Taken(V)] + sum[V \ {Taken(V)}]
      BY <2>1
    <3> QED
      BY <3>1
  <2> HIDE DEF sum
  <2> QED
    BY <2>2 DEF Adds, Taken
<1> DEFINE s == CHOOSE g : Adds(f, T, g)
<1>6. Adds(f, T, s)
  <2> HIDE DEF sum
  <2> QED
    BY <1>5
<1>7. Total(f, T) = s[T]
  BY TotalIsASum
<1> HIDE DEF s, sum, bad
<1>8. s[T] = IF T = {} THEN 0 ELSE f[Taken(T)] + s[T \ {Taken(T)}]
  BY <1>6 DEF Adds, Taken
<1>9. T # {} => s[T \ {Taken(T)}] = Total(f, T \ {Taken(T)})
  <2> SUFFICES ASSUME T # {} PROVE s[T \ {Taken(T)}] = Total(f, T \ {Taken(T)})
    OBVIOUS
  <2> DEFINE R == T \ {Taken(T)}
  <2>1. R \in SUBSET T /\ \A V \in SUBSET R : V \in SUBSET T /\ V # T
    BY TakenIsIn
  <2>2. \A V \in SUBSET R : TotalUnfolds(f, V)
    BY <1>4, <2>1
  <2> HIDE DEF R
  <2>3. R \in SUBSET T
    BY <2>1
  <2>4. s[R] = Total(f, R)
    BY ONLY <1>3, <1>6, <2>2, <2>3, SumsAgree
  <2> QED
    BY <2>4 DEF R
<1>10. TotalUnfolds(f, T)
  BY <1>7, <1>8, <1>9 DEF TotalUnfolds
<1> QED
  BY <1>2, <1>10 DEF bad

\* A sum of integers is an integer.
LEMMA TotalIsANumber ==
    ASSUME NEW f, NEW S, IsFiniteSet(S), \A x \in S : f[x] \in Int
    PROVE  Total(f, S) \in Int
<1> DEFINE bad == {V \in SUBSET S : Total(f, V) \notin Int}
<1>1. SUFFICES ASSUME bad # {} PROVE FALSE
  OBVIOUS
<1>2. PICK T \in bad : \A V \in SUBSET T : V # T => V \notin bad
  <2>1. bad \in SUBSET (SUBSET S)
    OBVIOUS
  <2> HIDE DEF bad
  <2> QED
    BY <1>1, <2>1, LeastSet
<1>3. TotalUnfolds(f, T)
  BY <1>2, FS_Subset, TotalByRecursion
<1>4. T # {}
  BY <1>2, <1>3 DEF TotalUnfolds
<1>5. Taken(T) \in T /\ f[Taken(T)] \in Int
  BY <1>2, <1>4, TakenIsIn
<1>6. Total(f, T \ {Taken(T)}) \in Int
  BY <1>2, <1>5
<1> QED
  BY <1>2, <1>3, <1>4, <1>5, <1>6 DEF TotalUnfolds

\* Any element may be taken out.
LEMMA TotalTakesOut ==
    ASSUME NEW f, NEW S, IsFiniteSet(S), \A x \in S : f[x] \in Int, NEW e \in S
    PROVE  Total(f, S) = f[e] + Total(f, S \ {e})
<1> DEFINE rest(V, x) == Total(f, V \ {x})
           bad == {V \in SUBSET S : \E x \in V : Total(f, V) # f[x] + rest(V, x)}
<1>1. SUFFICES ASSUME bad # {} PROVE FALSE
  OBVIOUS
<1>2. PICK T \in bad : \A V \in SUBSET T : V # T => V \notin bad
  <2>1. bad \in SUBSET (SUBSET S)
    OBVIOUS
  <2> HIDE DEF bad
  <2> QED
    BY <1>1, <2>1, LeastSet
<1>3. PICK x \in T : Total(f, T) # f[x] + rest(T, x)
  BY <1>2
<1>4. TotalUnfolds(f, T) /\ T # {}
  BY <1>2, <1>3, FS_Subset, TotalByRecursion
<1> DEFINE y == Taken(T)
           U == T \ {y}
           W == T \ {x}
           N == T \ {x, y}
<1>5. y \in T
  BY <1>4, TakenIsIn
<1>6. Total(f, T) = f[y] + Total(f, U)
  BY <1>4 DEF TotalUnfolds
<1>7. x # y
  BY <1>3, <1>6
<1>8. /\ U \in SUBSET S /\ U \notin bad /\ x \in U
      /\ W \in SUBSET S /\ W \notin bad /\ y \in W
      /\ N \in SUBSET S
      /\ U \ {x} = N /\ W \ {y} = N
  BY <1>2, <1>3, <1>5, <1>7
<1> HIDE DEF y, U, W, N
<1>9. Total(f, U) = f[x] + Total(f, N) /\ Total(f, W) = f[y] + Total(f, N)
  BY <1>8
<1>10. f[x] \in Int /\ f[y] \in Int /\ Total(f, N) \in Int
  BY <1>2, <1>3, <1>5, <1>8, FS_Subset, TotalIsANumber
<1>11. rest(T, x) = Total(f, W)
  BY DEF W
<1> QED
  BY <1>3, <1>6, <1>9, <1>10, <1>11

\* The total looks at the summands of its set only.
LEMMA TotalDependsOn ==
    ASSUME NEW f, NEW g, NEW S, IsFiniteSet(S), \A x \in S : f[x] = g[x]
    PROVE  Total(f, S) = Total(g, S)
<1> DEFINE bad == {V \in SUBSET S : Total(f, V) # Total(g, V)}
<1>1. SUFFICES ASSUME bad # {} PROVE FALSE
  OBVIOUS
<1>2. PICK T \in bad : \A V \in SUBSET T : V # T => V \notin bad
  <2>1. bad \in SUBSET (SUBSET S)
    OBVIOUS
  <2> HIDE DEF bad
  <2> QED
    BY <1>1, <2>1, LeastSet
<1>3. TotalUnfolds(f, T) /\ TotalUnfolds(g, T)
  BY <1>2, FS_Subset, TotalByRecursion
<1>4. T # {}
  BY <1>2, <1>3 DEF TotalUnfolds
<1>5. Taken(T) \in T
  BY <1>4, TakenIsIn
<1>6. /\ f[Taken(T)] = g[Taken(T)]
      /\ Total(f, T \ {Taken(T)}) = Total(g, T \ {Taken(T)})
  BY <1>2, <1>5
<1> QED
  BY <1>2, <1>3, <1>4, <1>6 DEF TotalUnfolds

-----------------------------------------------------------------------------
(* The walk.                                                               *)

\* What a day makes of the stock the day before left.
DayOf(c, d, before) ==
    IF d \notin c.forecast THEN before
    ELSE Carried(before) + Incoming(c, d) - c.demand[d]

Walks(c, n, walk) ==
    walk = [d \in 0..n |-> IF d = 0 THEN c.stock ELSE DayOf(c, d, walk[d - 1])]

LEMMA WalkIsChosen ==
    ASSUME NEW c
    PROVE  EndAvailable(c) = CHOOSE walk : Walks(c, Horizon, walk)
  BY DEF EndAvailable, Walks, DayOf

LEMMA AWalkExists ==
    ASSUME NEW c, NEW h \in Nat
    PROVE  \E walk : Walks(c, h, walk)
<1> DEFINE bad == {n \in Nat : ~ \E walk : Walks(c, n, walk)}
<1>1. SUFFICES ASSUME bad # {} PROVE FALSE
  OBVIOUS
<1>2. PICK n \in bad : \A m \in bad : n <= m
  <2>1. bad \in SUBSET Nat
    OBVIOUS
  <2> HIDE DEF bad
  <2> QED
    BY <1>1, <2>1, LeastNatural
<1>3. CASE n = 0
  <2> DEFINE w == [d \in 0..0 |-> c.stock]
  <2>1. Walks(c, 0, w)
    BY DEF Walks
  <2> QED
    BY <1>2, <1>3, <2>1
<1>4. CASE n # 0
  <2>1. n - 1 \in Nat /\ n - 1 \notin bad
    BY <1>2, <1>4
  <2>2. PICK v : Walks(c, n - 1, v)
    BY <2>1
  <2> DEFINE w == [d \in 0..n |-> IF d = n THEN DayOf(c, n, v[n - 1]) ELSE v[d]]
  <2>3. \A d \in 0..(n - 1) : v[d] = IF d = 0 THEN c.stock ELSE DayOf(c, d, v[d - 1])
    BY <2>2 DEF Walks
  <2>4. \A d \in 0..(n - 1) : w[d] = v[d]
    BY <1>2, <2>1
  <2>5. w[n] = DayOf(c, n, w[n - 1])
    BY <2>1, <2>4
  <2>6. \A d \in 0..n : w[d] = IF d = 0 THEN c.stock ELSE DayOf(c, d, w[d - 1])
    <3> SUFFICES ASSUME NEW d \in 0..n
                 PROVE  w[d] = IF d = 0 THEN c.stock ELSE DayOf(c, d, w[d - 1])
      OBVIOUS
    <3>1. CASE d = n
      BY <1>4, <2>5, <3>1
    <3>2. CASE d # n
      <4>1. d \in 0..(n - 1) /\ (d # 0 => d - 1 \in 0..(n - 1))
        BY <1>2, <3>2
      <4> HIDE DEF w
      <4> QED
        BY <2>3, <2>4, <4>1
    <3> QED
      BY <3>1, <3>2
  <2>7. w = [d \in 0..n |-> w[d]]
    OBVIOUS
  <2> HIDE DEF w
  <2>8. Walks(c, n, w)
    BY <2>6, <2>7 DEF Walks
  <2> QED
    BY <1>2, <2>8
<1> QED
  BY <1>3, <1>4

\* The walk starts from the stock and goes from a day to the next.
LEMMA WalkSteps ==
    ASSUME NEW c
    PROVE  /\ EndAvailable(c)[0] = c.stock
           /\ \A d \in 1..Horizon :
                 EndAvailable(c)[d] = DayOf(c, d, EndAvailable(c)[d - 1])
<1> DEFINE walk == CHOOSE w : Walks(c, Horizon, w)
<1>1. Horizon \in Nat
  BY MRPAssumption
<1>2. Walks(c, Horizon, walk)
  BY <1>1, AWalkExists
<1>3. EndAvailable(c) = walk
  BY WalkIsChosen
<1> HIDE DEF walk
<1>4. /\ walk[0] = c.stock
      /\ \A d \in 1..Horizon : walk[d] = DayOf(c, d, walk[d - 1])
  BY <1>1, <1>2 DEF Walks
<1> QED
  BY <1>3, <1>4

\* A case of inputs as the walk sees it: whole numbers for the days it looks at.
Counted(c) ==
    /\ c.forecast \subseteq Days /\ c.stock \in Int
    /\ \A d \in Days : /\ c.demand[d] \in Int
                       /\ c.purchase[d] \in Int
                       /\ c.lost[d] \in Int

LEMMA CasesAreCounted ==
    ASSUME NEW c \in Cases
    PROVE  /\ Counted(c) /\ c.safety \in Nat /\ c.stock \in Nat
           /\ \A d \in Days : c.demand[d] \in Nat /\ c.purchase[d] \in Nat /\ c.lost[d] \in Nat
<1>1. /\ c.forecast \in SUBSET Days /\ c.stock \in Stocks /\ c.safety \in Stocks
      /\ c.demand \in [Days -> Demands] /\ c.purchase \in [Days -> Deliveries]
      /\ c.lost \in [Days -> LostQtys]
  BY DEF Cases
<1>2. \A d \in Days : c.demand[d] \in Nat /\ c.purchase[d] \in Nat /\ c.lost[d] \in Nat
  BY <1>1, MRPAssumption
<1>3. c.safety \in Nat /\ c.stock \in Nat
  BY <1>1, MRPAssumption
<1> QED
  BY <1>1, <1>2, <1>3 DEF Counted

LEMMA IncomingIsANumber ==
    ASSUME NEW c, Counted(c), NEW d \in Days
    PROVE  Incoming(c, d) \in Nat
  BY DEF Counted, Incoming, Most

LEMMA DayNumbers ==
    /\ Horizon \in Nat /\ Days \subseteq Nat /\ 0 \notin Days
    /\ \A d : d \in Days <=> d \in 0..Horizon /\ d # 0
    /\ \A d \in Days : d \in Int /\ d - 1 \in 0..Horizon /\ 1 <= d
  BY MRPAssumption DEF Days

\* What a day leaves is a number.
LEMMA WalkIsANumber ==
    ASSUME NEW c, Counted(c)
    PROVE  \A d \in 0..Horizon : EndAvailable(c)[d] \in Int
<1> DEFINE bad == {d \in 0..Horizon : EndAvailable(c)[d] \notin Int}
<1>1. SUFFICES ASSUME bad # {} PROVE FALSE
  OBVIOUS
<1>2. PICK n \in bad : \A m \in bad : n <= m
  <2>1. bad \in SUBSET Nat
    OBVIOUS
  <2> HIDE DEF bad
  <2> QED
    BY <1>1, <2>1, LeastNatural
<1>3. n # 0
  BY <1>2, WalkSteps DEF Counted
<1>4. n \in Days /\ n \in 1..Horizon /\ n - 1 \in 0..Horizon /\ n - 1 < n
  BY <1>2, <1>3, DayNumbers DEF Days
<1>5. EndAvailable(c)[n - 1] \in Int
  BY <1>2, <1>4
<1>6. Incoming(c, n) \in Int /\ c.demand[n] \in Int
  BY <1>4, IncomingIsANumber DEF Counted
<1>7. DayOf(c, n, EndAvailable(c)[n - 1]) \in Int
  BY <1>5, <1>6 DEF DayOf, Carried
<1> QED
  BY <1>2, <1>4, <1>7, WalkSteps

\* The forecast days up to a day, and what they bring in.
Until(c, d) == {e \in c.forecast : e <= d}
Income(c)   == [e \in Days |-> Incoming(c, e)]

LEMMA UntilFacts ==
    ASSUME NEW c, Counted(c), NEW d \in Nat
    PROVE  /\ Until(c, d) \subseteq Days /\ IsFiniteSet(Until(c, d))
           /\ Until(c, 0) = {}
           /\ d # 0 /\ d \in c.forecast =>
                 d \in Until(c, d) /\ Until(c, d) \ {d} = Until(c, d - 1)
           /\ d # 0 /\ d \notin c.forecast => Until(c, d) = Until(c, d - 1)
<1>1. c.forecast \subseteq Days
  BY DEF Counted
<1>2. Until(c, d) \subseteq Days /\ Until(c, 0) = {}
  BY <1>1, DayNumbers DEF Until
<1>3. IsFiniteSet(Until(c, d))
  <2>1. IsFiniteSet(Days)
    BY DayNumbers, FS_Interval DEF Days
  <2> QED
    BY <1>2, <2>1, FS_Subset
<1>4. \A e \in c.forecast : e <= d <=> e <= d - 1 \/ e = d
  BY <1>1, DayNumbers
<1>5. ~ (d <= d - 1)
  OBVIOUS
<1> QED
  BY <1>2, <1>3, <1>4, <1>5 DEF Until

LEMMA NothingTotals ==
    ASSUME NEW f
    PROVE  Total(f, {}) = 0
  BY FS_EmptySet, TotalByRecursion DEF TotalUnfolds

\* The walk against its closed form.
LEMMA WalkBalances ==
    ASSUME NEW c, Counted(c)
    PROVE  \A d \in 0..Horizon :
              EndAvailable(c)[d] = c.stock + Total(Income(c), Until(c, d))
                                           - Total(c.demand, Until(c, d))
<1> DEFINE came(d) == Total(Income(c), Until(c, d))
           went(d) == Total(c.demand, Until(c, d))
           bad == {d \in 0..Horizon : EndAvailable(c)[d] # c.stock + came(d) - went(d)}
<1>1. SUFFICES ASSUME bad # {} PROVE FALSE
  OBVIOUS
<1>2. PICK n \in bad : \A m \in bad : n <= m
  <2>1. bad \in SUBSET Nat
    OBVIOUS
  <2> HIDE DEF bad
  <2> QED
    BY <1>1, <2>1, LeastNatural
<1>3. n # 0
  <2>1. came(0) = 0 /\ went(0) = 0
    BY UntilFacts, NothingTotals
  <2> HIDE DEF came, went
  <2>2. c.stock \in Int
    BY DEF Counted
  <2> QED
    BY <1>2, <2>1, <2>2, WalkSteps
<1>4. n \in Days /\ n \in 1..Horizon /\ n \in Nat /\ n - 1 \in 0..Horizon /\ n - 1 < n
      /\ n - 1 \in Nat
  BY <1>2, <1>3, DayNumbers DEF Days
<1>5. EndAvailable(c)[n - 1] = c.stock + came(n - 1) - went(n - 1)
  <2>1. n - 1 \notin bad
    BY <1>2, <1>4
  <2> HIDE DEF came, went
  <2> QED
    BY <1>4, <2>1
<1>6. EndAvailable(c)[n] = DayOf(c, n, EndAvailable(c)[n - 1])
  BY <1>4, WalkSteps
<1>7. \A e \in Days : Income(c)[e] \in Int /\ c.demand[e] \in Int
  BY IncomingIsANumber DEF Income, Counted
<1>8. came(n - 1) \in Int /\ went(n - 1) \in Int /\ c.stock \in Int
  <2>1. Until(c, n - 1) \subseteq Days /\ IsFiniteSet(Until(c, n - 1))
    BY <1>4, UntilFacts
  <2> QED
    BY <1>7, <2>1, TotalIsANumber DEF Counted
<1>9. CASE n \in c.forecast
  <2>1. /\ Until(c, n) \subseteq Days /\ IsFiniteSet(Until(c, n))
        /\ n \in Until(c, n) /\ Until(c, n) \ {n} = Until(c, n - 1)
    BY <1>4, <1>9, <1>3, UntilFacts
  <2>2. Total(Income(c), Until(c, n)) = Income(c)[n] + Total(Income(c), Until(c, n) \ {n})
    BY <1>7, <2>1, TotalTakesOut
  <2>3. Total(c.demand, Until(c, n)) = c.demand[n] + Total(c.demand, Until(c, n) \ {n})
    BY <1>7, <2>1, TotalTakesOut
  <2>4. came(n) = Incoming(c, n) + came(n - 1) /\ went(n) = c.demand[n] + went(n - 1)
    BY <1>4, <2>1, <2>2, <2>3 DEF Income
  <2>5. Incoming(c, n) \in Int /\ c.demand[n] \in Int
    BY <1>4, <1>7, IncomingIsANumber
  <2>6. EndAvailable(c)[n] = EndAvailable(c)[n - 1] + Incoming(c, n) - c.demand[n]
    BY <1>6, <1>9 DEF DayOf, Carried
  <2> HIDE DEF came, went
  <2>7. EndAvailable(c)[n] = c.stock + came(n) - went(n)
    BY <1>5, <1>8, <2>4, <2>5, <2>6
  <2> QED
    BY <1>2, <2>7
<1>10. CASE n \notin c.forecast
  <2>1. came(n) = came(n - 1) /\ went(n) = went(n - 1)
    BY <1>3, <1>4, <1>10, UntilFacts
  <2>2. EndAvailable(c)[n] = EndAvailable(c)[n - 1]
    BY <1>6, <1>10 DEF DayOf
  <2> HIDE DEF came, went
  <2> QED
    BY <1>2, <1>5, <2>1, <2>2
<1> QED
  BY <1>9, <1>10

\* The walk is its closed form for every case of inputs.
LEMMA EveryWalkIsBalance == WalkIsBalance
<1> SUFFICES ASSUME NEW c \in Cases, NEW d \in c.forecast
             PROVE  LET until == {e \in c.forecast : e <= d}
                        came  == [e \in until |-> IF c.purchase[e] >= c.lost[e]
                                                  THEN c.purchase[e] - c.lost[e] ELSE 0]
                    IN EndAvailable(c)[d] =
                       c.stock + Total(came, until) - Total(c.demand, until)
  BY DEF WalkIsBalance
<1> DEFINE until == {e \in c.forecast : e <= d}
           came  == [e \in until |-> IF c.purchase[e] >= c.lost[e]
                                     THEN c.purchase[e] - c.lost[e] ELSE 0]
<1>1. Counted(c) /\ d \in Days /\ d \in 0..Horizon /\ d \in Nat
  BY CasesAreCounted, DayNumbers DEF Counted
<1>2. until = Until(c, d)
  BY DEF Until
<1>3. until \subseteq Days /\ IsFiniteSet(until)
  BY <1>1, <1>2, UntilFacts
<1>4. \A e \in until : came[e] = Income(c)[e]
  <2> SUFFICES ASSUME NEW e \in until PROVE came[e] = Income(c)[e]
    OBVIOUS
  <2>1. e \in Days /\ c.purchase[e] \in Nat /\ c.lost[e] \in Nat
    BY <1>3, CasesAreCounted
  <2>2. Income(c)[e] = Most(0, c.purchase[e] - c.lost[e])
    BY <2>1 DEF Income, Incoming
  <2> QED
    BY <2>1, <2>2 DEF Most
<1>5. EndAvailable(c)[d] = c.stock + Total(Income(c), until) - Total(c.demand, until)
  BY <1>1, <1>2, WalkBalances
<1> HIDE DEF until, came
<1>6. Total(came, until) = Total(Income(c), until)
  BY <1>3, <1>4, TotalDependsOn
<1> QED
  BY <1>5, <1>6 DEF until, came

LEMMA FirstIsLeast ==
    ASSUME NEW S \in SUBSET Nat, S # {}
    PROVE  First(S) \in S /\ \A e \in S : First(S) <= e
<1>1. \E d \in S : \A e \in S : d <= e
  BY LeastNatural
<1> QED
  BY <1>1 DEF First

\* A step of the walk sees of a case no more than this.
LEMMA DayOfForecast ==
    ASSUME NEW c, NEW d \in c.forecast, NEW before
    PROVE  DayOf(c, d, before) = before + Incoming(c, d) - c.demand[d]
  BY DEF DayOf, Carried

\* With the order, a day brings in what it did, and the order on its day.
LEMMA OrderIsDelivered ==
    ASSUME NEW c \in Cases, NEW day \in Days, NEW qty \in Nat
    PROVE  LET o == Ordered(c, qty, day)
           IN  /\ Counted(o) /\ o.forecast = c.forecast
               /\ o.stock = c.stock /\ o.demand = c.demand
               /\ Incoming(o, day) = Incoming(c, day) + qty
               /\ \A d \in Days : d # day => Incoming(o, d) = Incoming(c, d)
<1> DEFINE o == Ordered(c, qty, day)
<1>1. /\ o.forecast = c.forecast /\ o.stock = c.stock /\ o.demand = c.demand
      /\ o.lost = c.lost
      /\ o.purchase = [e \in Days |-> IF e = day THEN c.lost[day] + Incoming(c, day) + qty
                                      ELSE c.purchase[e]]
  BY DEF Ordered, Cases
<1>2. Counted(c) /\ \A d \in Days : c.lost[d] \in Nat /\ c.purchase[d] \in Nat
  BY CasesAreCounted
<1>3. Incoming(c, day) \in Nat
  BY <1>2, IncomingIsANumber
<1> HIDE DEF o
<1>4. o.purchase[day] = c.lost[day] + Incoming(c, day) + qty
  BY <1>1
<1>5. Incoming(o, day) = Incoming(c, day) + qty
  <2>1. o.purchase[day] - o.lost[day] = Incoming(c, day) + qty
    BY <1>1, <1>2, <1>3, <1>4
  <2>2. Incoming(o, day) = Most(0, Incoming(c, day) + qty)
    BY <2>1 DEF Incoming
  <2> QED
    BY <1>3, <2>2 DEF Most
<1>6. \A d \in Days : d # day => Incoming(o, d) = Incoming(c, d)
  BY <1>1 DEF Incoming
<1>7. Counted(o)
  <2>1. \A d \in Days : o.purchase[d] \in Int
    BY <1>1, <1>2, <1>3
  <2> QED
    BY <1>1, <1>2, <2>1 DEF Counted
<1> QED
  BY <1>1, <1>5, <1>6, <1>7 DEF o

\* Before its day the order changes nothing.
LEMMA OrderComesLater ==
    ASSUME NEW c \in Cases, NEW day \in Days, NEW qty \in Nat
    PROVE  \A d \in 0..Horizon : d < day =>
              EndAvailable(Ordered(c, qty, day))[d] = EndAvailable(c)[d]
<1> DEFINE o == Ordered(c, qty, day)
           bad == {d \in 0..Horizon : d < day /\ EndAvailable(o)[d] # EndAvailable(c)[d]}
<1>1. SUFFICES ASSUME bad # {} PROVE FALSE
  OBVIOUS
<1>2. PICK n \in bad : \A m \in bad : n <= m
  <2>1. bad \in SUBSET Nat
    OBVIOUS
  <2> HIDE DEF bad
  <2> QED
    BY <1>1, <2>1, LeastNatural
<1>3. /\ o.forecast = c.forecast /\ o.stock = c.stock /\ o.demand = c.demand
      /\ \A d \in Days : d # day => Incoming(o, d) = Incoming(c, d)
  BY OrderIsDelivered
<1>4. n \in 0..Horizon /\ n < day /\ EndAvailable(o)[n] # EndAvailable(c)[n] /\ n \in Nat
      /\ day \in Nat
  BY <1>2, DayNumbers
<1>5. n # 0
  BY <1>3, <1>4, WalkSteps
<1>6. n \in Days /\ n \in 1..Horizon /\ n - 1 \in 0..Horizon /\ n - 1 < n /\ n - 1 < day
  BY <1>4, <1>5, DayNumbers DEF Days
<1>7. EndAvailable(o)[n - 1] = EndAvailable(c)[n - 1]
  BY <1>2, <1>4, <1>6
<1>8. Incoming(o, n) = Incoming(c, n)
  BY <1>3, <1>4, <1>6
<1> HIDE DEF o
<1>9. DayOf(o, n, EndAvailable(o)[n - 1]) = DayOf(c, n, EndAvailable(c)[n - 1])
  BY <1>3, <1>7, <1>8 DEF DayOf
<1> QED
  BY <1>4, <1>6, <1>9, WalkSteps

\* The forecast days with an order, and those that are short.
Orders(c) == {d \in c.forecast : Recommended(c)[d] > 0}
Shorts(c) == {d \in c.forecast : Shortage(c)[d] > 0}

LEMMA DaysWithAnOrder ==
    ASSUME NEW c \in Cases
    PROVE  /\ Orders(c) \in SUBSET Nat /\ Shorts(c) \in SUBSET Nat
           /\ Orders(c) \subseteq Days
           /\ \A d \in c.forecast :
                 /\ EndAvailable(c)[d] \in Int
                 /\ d \in Orders(c) <=> EndAvailable(c)[d] < c.safety
                 /\ d \in Orders(c) => Recommended(c)[d] = c.safety - EndAvailable(c)[d]
                 /\ d \in Shorts(c) => d \in Orders(c)
<1>1. Counted(c) /\ c.safety \in Nat /\ c.forecast \subseteq Days
  BY CasesAreCounted DEF Counted
<1>2. Orders(c) \in SUBSET Nat /\ Shorts(c) \in SUBSET Nat /\ Orders(c) \subseteq Days
  BY <1>1, DayNumbers DEF Orders, Shorts
<1>3. ASSUME NEW d \in c.forecast
      PROVE  /\ EndAvailable(c)[d] \in Int
             /\ d \in Orders(c) <=> EndAvailable(c)[d] < c.safety
             /\ d \in Orders(c) => Recommended(c)[d] = c.safety - EndAvailable(c)[d]
             /\ d \in Shorts(c) => d \in Orders(c)
  <2>1. d \in 0..Horizon
    BY <1>1, DayNumbers
  <2>2. EndAvailable(c)[d] \in Int
    BY <1>1, <2>1, WalkIsANumber
  <2>3. /\ Recommended(c)[d] = Most(0, c.safety - EndAvailable(c)[d])
        /\ Shortage(c)[d] = Most(0, -EndAvailable(c)[d])
    BY DEF Recommended, Shortage
  <2> DEFINE a == EndAvailable(c)[d]
  <2>4. d \in Orders(c) <=> Most(0, c.safety - a) > 0
    BY <2>3 DEF Orders
  <2>5. d \in Shorts(c) <=> Most(0, -a) > 0
    BY <2>3 DEF Shorts
  <2> HIDE DEF a
  <2>6. a \in Int
    BY <2>2 DEF a
  <2>7. /\ d \in Orders(c) <=> a < c.safety
        /\ d \in Orders(c) => Most(0, c.safety - a) = c.safety - a
        /\ d \in Shorts(c) => d \in Orders(c)
    BY <1>1, <2>4, <2>5, <2>6 DEF Most
  <2> QED
    BY <2>2, <2>3, <2>7 DEF a
<1> QED
  BY <1>2, <1>3

LEMMA SummaryFields ==
    ASSUME NEW c
    PROVE  /\ Summary(c).has_shortage <=> Shorts(c) # {}
           /\ Shorts(c) # {} => Summary(c).earliest = First(Shorts(c))
           /\ Orders(c) # {} => /\ Summary(c).eta = First(Orders(c))
                                /\ Summary(c).po_qty = Recommended(c)[First(Orders(c))]
           /\ Orders(c) = {} => Summary(c).po_qty = 0
  BY DEF Summary, Shorts, Orders

\* The suggestion is in time and enough, for every case of inputs.
LEMMA EverySuggestionHolds == SuggestionHolds
<1> SUFFICES ASSUME NEW c \in Cases
             PROVE  LET s == Summary(c) IN
                    /\ s.has_shortage => s.po_qty > 0 /\ s.eta <= s.earliest
                    /\ s.po_qty > 0 =>
                          LET after == EndAvailable(Ordered(c, s.po_qty, s.eta)) IN
                          /\ after[s.eta] = c.safety
                          /\ \A d \in c.forecast : d <= s.eta => after[d] >= 0
  BY DEF SuggestionHolds
<1> DEFINE s == Summary(c)
           first == First(Orders(c))
           left == EndAvailable(c)
<1>1. Counted(c) /\ c.safety \in Nat /\ c.forecast \subseteq Days
  BY CasesAreCounted DEF Counted
<1>2. ASSUME Orders(c) # {}
      PROVE  /\ s.eta = first /\ first \in Orders(c) /\ \A d \in Orders(c) : first <= d
             /\ first \in c.forecast /\ first \in Days /\ left[first] \in Int
             /\ s.po_qty = c.safety - left[first] /\ s.po_qty > 0 /\ s.po_qty \in Nat
  <2>1. first \in Orders(c) /\ \A d \in Orders(c) : first <= d
    BY <1>2, DaysWithAnOrder, FirstIsLeast
  <2>2. first \in c.forecast /\ first \in Days
    BY <1>1, <2>1 DEF Orders
  <2>3. /\ left[first] \in Int /\ left[first] < c.safety
        /\ Recommended(c)[first] = c.safety - left[first]
    BY <2>1, <2>2, DaysWithAnOrder
  <2>4. s.eta = first /\ s.po_qty = Recommended(c)[first]
    BY <1>2, SummaryFields
  <2> HIDE DEF s, first, left
  <2> QED
    BY <1>1, <2>1, <2>2, <2>3, <2>4
<1>3. s.po_qty > 0 => Orders(c) # {}
  BY SummaryFields
<1>4. ASSUME s.has_shortage PROVE s.po_qty > 0 /\ s.eta <= s.earliest
  <2>1. Shorts(c) # {} /\ s.earliest = First(Shorts(c))
    BY <1>4, SummaryFields
  <2>2. First(Shorts(c)) \in Shorts(c)
    BY <2>1, DaysWithAnOrder, FirstIsLeast
  <2>3. First(Shorts(c)) \in Orders(c)
    BY <2>2, DaysWithAnOrder DEF Shorts
  <2> QED
    BY <1>2, <2>1, <2>3
<1>5. ASSUME s.po_qty > 0
      PROVE  LET after == EndAvailable(Ordered(c, s.po_qty, s.eta)) IN
             /\ after[s.eta] = c.safety
             /\ \A d \in c.forecast : d <= s.eta => after[d] >= 0
  <2> DEFINE qty == s.po_qty
             o == Ordered(c, qty, first)
             after == EndAvailable(o)
  <2>1. /\ s.eta = first /\ first \in Orders(c) /\ \A d \in Orders(c) : first <= d
        /\ first \in c.forecast /\ first \in Days /\ left[first] \in Int
        /\ qty = c.safety - left[first] /\ qty \in Nat
    BY <1>2, <1>3, <1>5
  <2> HIDE DEF s, first, qty
  <2>2. /\ o.forecast = c.forecast /\ o.demand = c.demand
        /\ Incoming(o, first) = Incoming(c, first) + qty
    BY <2>1, OrderIsDelivered
  <2>3. \A d \in 0..Horizon : d < first => after[d] = left[d]
    BY <2>1, OrderComesLater
  <2>4. first \in 1..Horizon /\ first - 1 \in 0..Horizon /\ first - 1 < first
    BY <2>1, DayNumbers DEF Days
  <2>5. after[first] = c.safety
    <3>1. after[first] = DayOf(o, first, after[first - 1])
      BY <2>4, WalkSteps
    <3>2. left[first] = DayOf(c, first, left[first - 1])
      BY <2>4, WalkSteps
    <3>3. after[first - 1] = left[first - 1] /\ left[first - 1] \in Int
      BY <1>1, <2>3, <2>4, WalkIsANumber
    <3>4. Incoming(c, first) \in Int /\ c.demand[first] \in Int
      BY <1>1, <2>1, IncomingIsANumber DEF Counted
    <3> HIDE DEF o, after, left
    <3>5. /\ after[first] = left[first - 1] + (Incoming(c, first) + qty) - c.demand[first]
          /\ left[first] = left[first - 1] + Incoming(c, first) - c.demand[first]
      BY <2>1, <2>2, <3>1, <3>2, <3>3, DayOfForecast
    <3> QED
      BY <1>1, <2>1, <3>3, <3>4, <3>5
  <2>6. \A d \in c.forecast : d <= first => after[d] >= 0
    <3> SUFFICES ASSUME NEW d \in c.forecast, d <= first PROVE after[d] >= 0
      OBVIOUS
    <3>1. d \in Nat /\ first \in Nat /\ d \in 0..Horizon
      BY <1>1, <2>1, DayNumbers
    <3>2. CASE d = first
      BY <1>1, <2>5, <3>2
    <3>3. CASE d # first
      <4>1. d < first /\ after[d] = left[d]
        BY <2>3, <3>1, <3>3
      <4>2. d \notin Orders(c)
        BY <2>1, <3>1, <4>1
      <4>3. left[d] \in Int /\ ~ (left[d] < c.safety)
        BY <4>2, DaysWithAnOrder
      <4> HIDE DEF after, left
      <4> QED
        BY <1>1, <4>1, <4>3
    <3> QED
      BY <3>2, <3>3
  <2> QED
    BY <2>1, <2>5, <2>6 DEF s, first, qty
<1> QED
  BY <1>4, <1>5

\* A plan in the log rests on a walk that balances, for any horizon, lead time
\* and any whole quantities: end_available of a day is the stock, plus what came
\* in on the forecast days, less their demand (mrp_service.py:14).
THEOREM PlansRestOnABalance == Spec => []PlansBalance
<1>1. PlansBalance
  BY EveryWalkIsBalance DEF PlansBalance
<1> QED
  BY <1>1, PTL

\* The order a plan suggests is in time and enough, for any such inputs: with it
\* the day that needs it ends on the safety stock and no day until then is short
\* (mrp_runner.py, _summarize).
THEOREM PlansSuggestEnough == Spec => []PlansSuggestInTime
<1>1. PlansSuggestInTime
  BY EverySuggestionHolds DEF PlansSuggestInTime
<1> QED
  BY <1>1, PTL
=============================================================================
