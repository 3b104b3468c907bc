------------------------------ MODULE ViewProofs ------------------------------
(***************************************************************************)
(* That the views converge, for any alarms, attempts, faults, clocks and   *)
(* batches.  As the views see it a step is one of two kinds: a batch is    *)
(* appended and they stand, or the log stands and the next row is          *)
(* delivered to some of the projectors, to both of them when the relay     *)
(* marks it dispatched.  And that the alarm view clears no alarm.          *)
(***************************************************************************)
EXTENDS ReadModels, NaturalFacts, SequenceTheorems, TLAPS

-----------------------------------------------------------------------------
(* The inductive invariant.                                                *)

Marks == {"pending", "dispatched", "dead"}
RowTypes == {"StateChanged", "AlarmTriggered", "AlarmReset", "AlarmAcknowledged"}

\* What the writers put in a row.  An AlarmReset carries no ALID: only a
\* transition into ALARM has one.
RowShape(r) ==
    /\ r.type \in RowTypes
    /\ r.at \in 1..MaxTime
    /\ r.type = "StateChanged" => r.to \in {RUN, IDLE, ALARM}
    /\ r.type \in {"AlarmTriggered", "AlarmAcknowledged"} => r.alid \in Alids
    /\ r.type \in {"StateChanged", "AlarmReset"} => r.alid = NoAlid

OfTransition(r) == r.type \in {"AlarmTriggered", "AlarmReset"}

LogInv ==
    /\ \E S : log \in Seq(S)
    /\ \A e \in Events : RowShape(log[e])
    /\ \A e \in Events : OfTransition(log[e]) =>
          \E f \in StateEvents : log[f].at = log[e].at
    /\ \A e \in Pending : attempts[e] < MAX_ATTEMPTS

\* The row shows a state that the log holds with the row's time.
ShowsItsTime ==
    \E f \in StateEvents : log[f].at = machine.eventAt /\ log[f].to = machine.state

\* The row's time is that of a transition, and no earlier than any delivered
\* one: of those that have this very time, one is shown.
StateInv ==
    /\ machine.eventAt # NULL => \E f \in StateEvents : log[f].at = machine.eventAt
    /\ \A e \in StateEvents : status[e] = "dispatched" =>
          /\ log[e].at <= machine.eventAt
          /\ log[e].at = machine.eventAt => ShowsItsTime

\* A row of alarm_view was last seen at an occurrence of its alarm, at none
\* earlier than the delivered ones; what is acknowledged has a row.
AlarmInv ==
    /\ \A a \in Alids : alarms[a] # NoAlarm =>
          alarms[a].seen # NULL /\ \E e \in Raised(a) : alarms[a].seen = log[e].at
    /\ \A a \in Alids : \A e \in Raised(a) : status[e] = "dispatched" =>
          alarms[a] # NoAlarm /\ log[e].at <= alarms[a].seen
    /\ \A e \in Events : log[e].type = "AlarmAcknowledged" =>
          /\ alarms[log[e].alid] # NoAlarm
          /\ status[e] = "dispatched" => alarms[log[e].alid].acked # NULL

VInv == TypeOK /\ LogInv /\ StateInv /\ AlarmInv

MachineRows == [state: {RUN, IDLE, ALARM, NoState}, eventAt: DateTime,
                alid: Alids \cup {NULL}]
AlarmColumns == [triggered: DateTime, seen: DateTime,
                 cleared: DateTime, acked: DateTime]
InOrder(row) == row.triggered <= row.seen /\ row.cleared <= row.seen

-----------------------------------------------------------------------------
(* The log and the outbox columns.                                         *)

LEMMA LogNumbers ==
    ASSUME LogInv
    PROVE  Len(log) \in Nat /\ Events = 1..Len(log)
BY DEF LogInv, Events

LEMMA NextRowAhead ==
    ASSUME LogInv, Ahead # {}
    PROVE  NextRow \in Pending
<1>1. Ahead \in SUBSET Nat
  BY LogNumbers DEF Ahead, Pending
<1>2. \E e \in Ahead : \A f \in Ahead : e <= f
  BY <1>1, LeastNatural
<1> QED
  BY <1>2 DEF NextRow, Ahead

\* A column of the outbox, with a value for every row of a batch.
Pad(events, v) == [i \in DOMAIN events |-> v]

Column(n, S, f) == f \in [1..n -> S]

Extended(n, k, v, old, new) ==
    /\ \A e \in 1..n : new[e] = old[e]
    /\ \A e \in 1..(n + k) : e \notin 1..n => new[e] = v

LEMMA ColumnGrows ==
    ASSUME NEW n \in Nat, NEW k \in Nat, NEW S, NEW old, Column(n, S, old),
           NEW events, DOMAIN events = 1..k, NEW v \in S,
           NEW new, new = old \o Pad(events, v)
    PROVE  Column(n + k, S, new) /\ Extended(n, k, v, old, new)
<1> DEFINE pad == Pad(events, v)
<1>1. old \in Seq(S) /\ Len(old) = n
  BY DEF Column
<1>2. pad \in [1..k -> S] /\ \A i \in 1..k : pad[i] = v
  BY DEF Pad
<1>3. pad \in Seq(S) /\ Len(pad) = k /\ new = old \o pad
  BY <1>2
<1> HIDE DEF pad
<1>4. /\ new \in Seq(S) /\ Len(new) = n + k
      /\ \A i \in 1..(n + k) : new[i] = IF i <= n THEN old[i] ELSE pad[i - n]
  <2>1. /\ old \o pad \in Seq(S) /\ Len(old \o pad) = Len(old) + Len(pad)
        /\ \A i \in 1..(Len(old) + Len(pad)) :
              (old \o pad)[i] = IF i <= Len(old) THEN old[i] ELSE pad[i - Len(old)]
    BY <1>1, <1>3, ConcatProperties, Zenon
  <2> QED
    BY <1>1, <1>3, <2>1
<1>5. new \in [1..(n + k) -> S]
  BY <1>4, LenProperties
<1>6. \A e \in 1..(n + k) : e \notin 1..n => e - n \in 1..k /\ ~ (e <= n)
  OBVIOUS
<1> QED
  BY <1>2, <1>4, <1>5, <1>6 DEF pad, Column, Extended

LEMMA LogGrows ==
    ASSUME NEW S, NEW l \in Seq(S), NEW events \in Seq(S)
    PROVE  /\ l \o events \in Seq(S)
           /\ Len(l \o events) = Len(l) + Len(events)
           /\ DOMAIN (l \o events) = 1..(Len(l) + Len(events))
           /\ \A e \in 1..Len(l) : (l \o events)[e] = l[e]
           /\ \A i \in 1..Len(events) : (l \o events)[Len(l) + i] = events[i]
<1> DEFINE m == l \o events
<1>1. /\ m \in Seq(S) /\ Len(m) = Len(l) + Len(events)
      /\ Len(l) \in Nat /\ Len(events) \in Nat
      /\ \A i \in 1..(Len(l) + Len(events)) :
            m[i] = IF i <= Len(l) THEN l[i] ELSE events[i - Len(l)]
  BY ConcatProperties, LenProperties
<1> HIDE DEF m
<1>2. DOMAIN m = 1..(Len(l) + Len(events))
  BY <1>1, LenProperties
<1>3. \A i \in 1..Len(events) :
         /\ Len(l) + i \in 1..(Len(l) + Len(events))
         /\ ~ (Len(l) + i <= Len(l))
         /\ (Len(l) + i) - Len(l) = i
  BY <1>1
<1> QED
  BY <1>1, <1>2, <1>3 DEF m

-----------------------------------------------------------------------------
(* A batch is appended.                                                    *)

\* The batches the writers append: rows in shape, an alarm row behind its
\* transition, an acknowledgement alone and of an alarm that has a row.
Batch(events) ==
    /\ \E S : events \in Seq(S)
    /\ Len(events) \in Nat
    /\ \A i \in 1..Len(events) : RowShape(events[i])
    /\ \A i \in 1..Len(events) : OfTransition(events[i]) =>
          \E j \in 1..Len(events) : /\ events[j].type = "StateChanged"
                                    /\ events[j].at = events[i].at
    /\ \A i \in 1..Len(events) : events[i].type = "AlarmAcknowledged" =>
          alarms[events[i].alid] # NoAlarm

\* The events of a batch as the log has them afterwards.
Appended(events) ==
    /\ Events \subseteq Events'
    /\ \A e \in Events : log'[e] = log[e] /\ status'[e] = status[e]
                         /\ attempts'[e] = attempts[e]
    /\ \A e \in Events' \ Events :
          /\ status'[e] = "pending" /\ attempts'[e] = 0
          /\ \E i \in 1..Len(events) : log'[e] = events[i]
    /\ \A i \in 1..Len(events) : \E e \in Events' : log'[e] = events[i]
    /\ \E S : log' \in Seq(S)
    /\ status' \in [Events' -> Marks]
    /\ attempts' \in [Events' -> 0..MAX_ATTEMPTS]

LEMMA BatchAppends ==
    ASSUME TypeOK, LogInv, NEW events, Batch(events), append_many(events)
    PROVE  Appended(events)
<1>1. PICK R : log \in Seq(R)
  BY DEF LogInv
<1>2. PICK T : events \in Seq(T)
  BY DEF Batch
<1> DEFINE S == R \cup T
           n == Len(log)
           k == Len(events)
<1>3. log \in Seq(S) /\ events \in Seq(S) /\ n \in Nat /\ k \in Nat
  BY <1>1, <1>2
<1>4. DOMAIN events = 1..k /\ Events = 1..n
  BY <1>3, LenProperties DEF Events
<1> DEFINE Counts == 0..MAX_ATTEMPTS
           new    == "pending"
           zero   == 0
<1>5. /\ log' = log \o events
      /\ status' = status \o Pad(events, new)
      /\ attempts' = attempts \o Pad(events, zero)
  BY DEF append_many, Commit, Pad
<1>6. /\ log' \in Seq(S) /\ Events' = 1..(n + k)
      /\ \A e \in 1..n : log'[e] = log[e]
      /\ \A i \in 1..k : log'[n + i] = events[i]
  BY <1>3, <1>5, LogGrows DEF Events
<1>7. /\ Column(n, Marks, status) /\ Column(n, Counts, attempts)
      /\ new \in Marks /\ zero \in Counts
  BY <1>4, WalkAssumption DEF TypeOK, WalkTypeOK, Marks, Column
<1> HIDE DEF S, n, k, Counts, new, zero
<1>8. Column(n + k, Marks, status') /\ Extended(n, k, new, status, status')
  BY <1>3, <1>4, <1>5, <1>7, ColumnGrows, Zenon
<1>9. Column(n + k, Counts, attempts') /\ Extended(n, k, zero, attempts, attempts')
  BY <1>3, <1>4, <1>5, <1>7, ColumnGrows, Zenon
<1>10. ASSUME NEW e \in Events' \ Events
       PROVE  \E i \in 1..k : log'[e] = events[i]
  <2>1. e - n \in 1..k /\ n + (e - n) = e
    BY <1>3, <1>4, <1>6
  <2> QED
    BY <1>6, <2>1
<1>11. ASSUME NEW i \in 1..k
       PROVE  \E e \in Events' : log'[e] = events[i]
  <2>1. n + i \in Events'
    BY <1>3, <1>6
  <2> QED
    BY <1>6, <2>1
<1>12. Events \subseteq Events'
  BY <1>3, <1>4, <1>6
<1> QED
  BY <1>4, <1>6, <1>8, <1>9, <1>10, <1>11, <1>12
  DEF Appended, k, Counts, new, zero, Column, Extended

LEMMA BatchKeepsInv ==
    ASSUME VInv, NEW events, Batch(events), AppendBatch(events)
    PROVE  VInv'
<1>1. Appended(events)
  BY BatchAppends DEF AppendBatch, VInv
<1>2. UNCHANGED <<machine, alarms, cursor, faults>> /\ batches' \in 0..MaxBatches
  BY ViewAssumption DEF AppendBatch, append_many, views, VInv, TypeOK
<1>3. \A e \in Events' : e \in Events \/ \E i \in 1..Len(events) : log'[e] = events[i]
  BY <1>1 DEF Appended
<1>4. \A e \in Events' : status'[e] = "dispatched" => e \in Events /\ status[e] = "dispatched"
  BY <1>1 DEF Appended
<1>5. TypeOK'
  BY <1>1, <1>2 DEF VInv, TypeOK, WalkTypeOK, Appended, Marks, DateTime
<1>6. StateEvents \subseteq StateEvents' /\ \A a \in Alids : Raised(a) \subseteq Raised(a)'
  BY <1>1 DEF Appended, StateEvents, Raised
<1>7. LogInv'
  <2>1. \A e \in Events' : RowShape(log'[e])
    BY <1>1, <1>3 DEF Appended, Batch, VInv, LogInv
  <2>2. ASSUME NEW e \in Events', OfTransition(log'[e])
        PROVE  \E f \in StateEvents' : log'[f].at = log'[e].at
    <3>1. CASE e \in Events
      <4>1. PICK f \in StateEvents : log[f].at = log[e].at
        BY <1>1, <2>2, <3>1 DEF Appended, VInv, LogInv
      <4>2. f \in Events
        BY DEF StateEvents
      <4> QED
        BY <1>1, <1>6, <3>1, <4>1, <4>2 DEF Appended
    <3>2. CASE e \notin Events
      <4>1. PICK i \in 1..Len(events) : log'[e] = events[i]
        BY <1>3, <3>2
      <4>2. PICK j \in 1..Len(events) : /\ events[j].type = "StateChanged"
                                        /\ events[j].at = events[i].at
        BY <2>2, <4>1 DEF Batch
      <4>3. PICK f \in Events' : log'[f] = events[j]
        BY <1>1 DEF Appended
      <4> QED
        BY <4>1, <4>2, <4>3 DEF StateEvents
    <3> QED
      BY <3>1, <3>2
  <2>3. \A e \in Pending' : attempts'[e] < MAX_ATTEMPTS
    BY <1>1, WalkAssumption DEF Appended, Pending, VInv, LogInv
  <2> QED
    BY <1>1, <2>1, <2>2, <2>3 DEF LogInv, Appended, OfTransition, RowShape
<1>8. StateInv'
  <2>1. \A f \in StateEvents : f \in Events /\ log'[f] = log[f] /\ f \in StateEvents'
    BY <1>1, <1>6 DEF StateEvents, Appended
  <2>2. \A e \in StateEvents' : status'[e] = "dispatched" =>
           e \in StateEvents /\ status[e] = "dispatched"
    BY <1>1, <1>4 DEF StateEvents, Appended
  <2>3. ShowsItsTime => ShowsItsTime'
    BY <1>2, <2>1 DEF ShowsItsTime
  <2> QED
    BY <1>2, <2>1, <2>2, <2>3 DEF VInv, StateInv
<1>9. AlarmInv'
  <2>1. \A a \in Alids : \A e \in Raised(a) :
           e \in Events /\ log'[e] = log[e] /\ e \in Raised(a)'
    BY <1>1, <1>6 DEF Raised, Appended
  <2>2. \A a \in Alids : \A e \in Raised(a)' : status'[e] = "dispatched" =>
           e \in Raised(a) /\ status[e] = "dispatched"
    BY <1>1, <1>4 DEF Raised, Appended
  <2>3. \A e \in Events' : log'[e].type = "AlarmAcknowledged" =>
           alarms[log'[e].alid] # NoAlarm
    BY <1>1, <1>3, SMTT(30) DEF Appended, Batch, VInv, AlarmInv
  <2>4. \A e \in Events' : log'[e].type = "AlarmAcknowledged" /\ status'[e] = "dispatched" =>
           alarms[log'[e].alid].acked # NULL
    BY <1>1, <1>4 DEF Appended, VInv, AlarmInv
  <2> QED
    BY <1>2, <2>1, <2>2, <2>3, <2>4 DEF VInv, AlarmInv
<1> QED
  BY <1>5, <1>7, <1>8, <1>9 DEF VInv

\* The short concatenations a batch is built from.
LEMMA ShortConcat ==
    ASSUME NEW x, NEW y
    PROVE  /\ <<x>> \o <<>> = <<x>>
           /\ <<x>> \o <<y>> = <<x, y>>
           /\ <<x, y>> \o <<>> = <<x, y>>
<1> DEFINE S == {x, y}
           z == <<x>> \o <<y>>
<1>1. /\ <<x>> \in Seq(S) /\ <<y>> \in Seq(S) /\ <<x, y>> \in Seq(S)
      /\ Len(<<x>>) = 1 /\ Len(<<y>>) = 1 /\ Len(<<x, y>>) = 2
      /\ <<x>>[1] = x /\ <<y>>[1] = y /\ <<x, y>>[1] = x /\ <<x, y>>[2] = y
  OBVIOUS
<1> HIDE DEF S
<1>2. z = Append(<<x>>, y)
  BY <1>1
<1>3. z \in Seq(S) /\ Len(z) = 2 /\ z[1] = x /\ z[2] = y
  BY <1>1, <1>2
<1> HIDE DEF z
<1>4. \A i \in 1..2 : z[i] = <<x, y>>[i]
  BY <1>1, <1>3
<1>5. z = <<x, y>>
  BY <1>1, <1>3, <1>4, SeqEqual
<1> QED
  BY <1>1, <1>5, ConcatEmptySeq DEF z

LEMMA TransitionIsBatch ==
    ASSUME NEW to \in {RUN, IDLE, ALARM}, NEW alid \in Alids \cup {NoAlid},
           NEW at \in 1..MaxTime, NEW from, from # to,
           to = ALARM <=> alid # NoAlid
    PROVE  Batch(advance(from, to, alid, at, NoClick))
<1> DEFINE sc == StateChanged(from, to, at, NoClick)
           up == AlarmTriggered(alid, at, NoClick)
           dn == AlarmReset(from, to, alid, at, NoClick)
           b  == advance(from, to, alid, at, NoClick)
<1>1. b = <<sc>> \o (IF to = ALARM THEN <<up>> ELSE <<>>)
               \o (IF from = ALARM /\ to \in {RUN, IDLE} THEN <<dn>> ELSE <<>>)
  BY DEF advance
<1>2. /\ sc.type = "StateChanged" /\ sc.at = at /\ sc.to = to /\ sc.alid = NoAlid
      /\ up.type = "AlarmTriggered" /\ up.at = at /\ up.alid = alid
      /\ dn.type = "AlarmReset" /\ dn.at = at /\ dn.alid = alid
  BY DEF Event, StateChanged, AlarmTriggered, AlarmReset
<1> HIDE DEF sc, up, dn, b
<1>3. RowShape(sc) /\ (to = ALARM => RowShape(up)) /\ (to # ALARM => RowShape(dn))
  BY <1>2 DEF RowShape, RowTypes
<1>4. /\ <<sc>> \o <<>> = <<sc>>
      /\ <<sc>> \o <<up>> = <<sc, up>> /\ <<sc, up>> \o <<>> = <<sc, up>>
      /\ <<sc>> \o <<dn>> = <<sc, dn>>
  BY ShortConcat
<1>5. SUFFICES Batch(b)
  BY DEF b
<1>6. ASSUME b = <<sc>> PROVE Batch(b)
  <2>1. b \in Seq({sc}) /\ Len(b) = 1 /\ b[1] = sc
    BY <1>6
  <2> QED
    BY <1>2, <1>3, <2>1 DEF Batch, OfTransition
<1>7. ASSUME NEW r, b = <<sc, r>>, RowShape(r), r.at = at,
             r.type # "AlarmAcknowledged"
      PROVE  Batch(b)
  <2>1. b \in Seq({sc, r}) /\ Len(b) = 2 /\ b[1] = sc /\ b[2] = r
    BY <1>7
  <2>2. \A i \in 1..2 : i = 1 \/ i = 2
    OBVIOUS
  <2>3. \A i \in 1..Len(b) : RowShape(b[i]) /\ b[i].at = at
                            /\ b[i].type # "AlarmAcknowledged"
    BY <1>2, <1>3, <1>7, <2>1, <2>2
  <2>4. 1 \in 1..Len(b) /\ b[1].type = "StateChanged" /\ b[1].at = at
    BY <1>2, <2>1
  <2>5. Len(b) \in Nat /\ \E S : b \in Seq(S)
    BY <2>1
  <2> HIDE DEF b
  <2> QED
    BY <2>3, <2>4, <2>5 DEF Batch
<1>8. CASE to = ALARM
  <2>1. b = <<sc, up>>
    BY <1>1, <1>4, <1>8 DEF RUN, IDLE, ALARM
  <2> QED
    BY <1>2, <1>3, <1>7, <1>8, <2>1
<1>9. CASE to # ALARM /\ from = ALARM
  <2>1. b = <<sc, dn>>
    BY <1>1, <1>4, <1>9
  <2> QED
    BY <1>2, <1>3, <1>7, <1>9, <2>1
<1>10. CASE to # ALARM /\ from # ALARM
  <2>1. b = <<sc>>
    BY <1>1, <1>4, <1>10
  <2> QED
    BY <1>6, <2>1
<1> QED
  BY <1>8, <1>9, <1>10

LEMMA AcknowledgementIsBatch ==
    ASSUME NEW alid \in Alids, NEW at \in 1..MaxTime, alarms[alid] # NoAlarm
    PROVE  Batch(<<AlarmAcknowledged(alid, at)>>)
<1> DEFINE r == AlarmAcknowledged(alid, at)
<1>1. r.type = "AlarmAcknowledged" /\ r.at = at /\ r.alid = alid
  BY DEF AlarmAcknowledged, Event
<1> HIDE DEF r
<1>2. <<r>> \in Seq({r}) /\ Len(<<r>>) = 1 /\ <<r>>[1] = r
  OBVIOUS
<1>3. RowShape(r)
  BY <1>1 DEF RowShape, RowTypes
<1>4. PICK b : b = <<r>>
  OBVIOUS
<1>5. Len(b) = 1 /\ b[1] = r /\ \E S : b \in Seq(S)
  BY <1>2, <1>4
<1>6. alarms[r.alid] # NoAlarm
  BY <1>1
<1>7. Batch(b)
  BY <1>1, <1>3, <1>5, <1>6 DEF Batch, OfTransition
<1> QED
  BY <1>4, <1>7 DEF r

-----------------------------------------------------------------------------
(* What the projectors make of one event.                                  *)

\* The machine's row moves forward in time, to the event's or not at all, and
\* takes the state of a transition that is not behind it.
MachineMoves(row, ev, new) ==
    /\ new \in MachineRows
    /\ row.eventAt <= new.eventAt
    /\ new.eventAt \in {row.eventAt, ev.at}
    /\ ev.type \in {"AlarmAcknowledged"} => new = row
    /\ ev.type = "StateChanged" =>
          IF row.eventAt <= ev.at THEN new.eventAt = ev.at /\ new.state = ev.to
          ELSE new.eventAt = row.eventAt /\ new.state = row.state
    /\ ev.type # "StateChanged" => new.state = row.state

LEMMA MachineProjected ==
    ASSUME NEW row \in MachineRows, NEW ev, RowShape(ev)
    PROVE  MachineMoves(row, ev, ProjectMachine(row, ev))
<1> DEFINE new == ProjectMachine(row, ev)
<1>1. /\ row.eventAt \in 0..MaxTime /\ row.alid \in Alids \cup {NULL}
      /\ row.state \in {RUN, IDLE, ALARM, NoState}
      /\ ev.at \in 1..MaxTime /\ MaxTime \in Nat
      /\ row = [state |-> row.state, eventAt |-> row.eventAt, alid |-> row.alid]
  BY ViewAssumption DEF MachineRows, DateTime, RowShape
<1>2. CASE ev.type = "StateChanged"
  <2>1. PICK state, at :
           /\ state = IF ev.at >= row.eventAt THEN ev.to ELSE row.state
           /\ at = IF ev.at >= row.eventAt THEN ev.at ELSE row.eventAt
           /\ new = [state |-> state, eventAt |-> at, alid |-> row.alid]
    BY <1>1, <1>2 DEF ProjectMachine, MachineOnState, Later
  <2>2. ev.to \in {RUN, IDLE, ALARM}
    BY <1>2 DEF RowShape
  <2> HIDE DEF new
  <2>3. /\ new \in MachineRows
        /\ new.eventAt = IF ev.at >= row.eventAt THEN ev.at ELSE row.eventAt
        /\ new.state = IF ev.at >= row.eventAt THEN ev.to ELSE row.state
    BY <1>1, <2>1, <2>2 DEF MachineRows, DateTime
  <2>4. MachineMoves(row, ev, new)
    BY <1>1, <1>2, <2>3 DEF MachineMoves
  <2> QED
    BY <2>4 DEF new
<1>3. CASE OfTransition(ev)
  <2>1. PICK alid \in Alids \cup {NULL} : new = MachineOnAlarm(row, ev, alid)
    BY <1>3 DEF ProjectMachine, OfTransition, RowShape
  <2> HIDE DEF new
  <2>2. CASE new = row
    BY <1>1, <1>3, <2>2 DEF MachineMoves, OfTransition, new
  <2>3. CASE new # row
    <3>1. ~ (row.eventAt > ev.at)
      BY <2>1, <2>3 DEF MachineOnAlarm
    <3>2. row.eventAt <= ev.at
      BY <1>1, <3>1
    <3>3. new = [state |-> row.state, eventAt |-> ev.at, alid |-> alid]
      BY <1>1, <2>1, <2>3 DEF MachineOnAlarm
    <3>4. new \in MachineRows /\ new.state = row.state /\ new.eventAt = ev.at
      BY <1>1, <3>3 DEF MachineRows, DateTime
    <3>5. MachineMoves(row, ev, new)
      BY <1>1, <1>3, <3>2, <3>4 DEF MachineMoves, OfTransition
    <3> QED
      BY <3>5 DEF new
  <2> QED
    BY <2>2, <2>3
<1>4. CASE ev.type = "AlarmAcknowledged"
  <2>1. new = row
    BY <1>4 DEF ProjectMachine
  <2> QED
    BY <1>1, <1>4, <2>1 DEF MachineMoves
<1> QED
  BY <1>2, <1>3, <1>4 DEF RowShape, RowTypes, OfTransition

\* An alarm's row, once it is there, stays, keeps its acknowledgement, and is
\* seen at the newest occurrence it was given.
AlarmMoves(row, ev, new) ==
    /\ new \in AlarmColumns /\ InOrder(new)
    /\ ev.type = "AlarmTriggered" =>
          /\ new # NoAlarm /\ ev.at <= new.seen
          /\ new.seen # row.seen \/ row = NoAlarm => new.seen = ev.at
          /\ row.seen <= new.seen
    /\ ev.type = "AlarmAcknowledged" =>
          /\ row # NoAlarm => new # NoAlarm /\ new.acked # NULL
          /\ row = NoAlarm => new = NoAlarm
          /\ new.seen = row.seen
    /\ row # NoAlarm => new # NoAlarm
    /\ row.acked # NULL => new.acked # NULL

LEMMA AlarmProjected ==
    ASSUME NEW row \in AlarmColumns, InOrder(row), row # NoAlarm => row.seen # NULL,
           NEW ev, RowShape(ev), ev.type \in {"AlarmTriggered", "AlarmAcknowledged"}
    PROVE  AlarmMoves(row, ev, ProjectAlarm(row, ev))
<1> DEFINE new == ProjectAlarm(row, ev)
<1>1. /\ row.triggered \in 0..MaxTime /\ row.seen \in 0..MaxTime
      /\ row.cleared \in 0..MaxTime /\ row.acked \in 0..MaxTime
      /\ ev.at \in 1..MaxTime /\ MaxTime \in Nat
      /\ row.triggered <= row.seen /\ row.cleared <= row.seen
      /\ row = [triggered |-> row.triggered, seen |-> row.seen,
                cleared |-> row.cleared, acked |-> row.acked]
  BY ViewAssumption DEF AlarmColumns, DateTime, RowShape, InOrder
<1>2. NoAlarm.seen = 0 /\ NoAlarm.acked = 0 /\ NULL = 0
  BY DEF NoAlarm, NULL
<1>3. CASE ev.type = "AlarmTriggered" /\ row = NoAlarm
  <2>1. new = [triggered |-> ev.at, seen |-> ev.at, cleared |-> 0, acked |-> 0]
    BY <1>3 DEF ProjectAlarm, AlarmOnTriggered, NoAlarm, NULL
  <2> HIDE DEF new
  <2>2. /\ new \in AlarmColumns /\ InOrder(new)
        /\ new.seen = ev.at /\ new.acked = 0
    BY <1>1, <2>1 DEF AlarmColumns, DateTime, InOrder
  <2>3. new # NoAlarm
    BY <1>1, <1>2, <2>2
  <2>4. AlarmMoves(row, ev, new)
    BY <1>1, <1>2, <1>3, <2>2, <2>3 DEF AlarmMoves
  <2> QED
    BY <2>4 DEF new
<1>4. CASE ev.type = "AlarmTriggered" /\ row # NoAlarm
  <2>1. PICK triggered \in {ev.at, row.triggered}, cleared \in {NULL, row.cleared} :
           new = [triggered |-> triggered, seen |-> Later(ev.at, row.seen),
                  cleared |-> cleared, acked |-> row.acked]
    BY <1>1, <1>4 DEF ProjectAlarm, AlarmOnTriggered
  <2> HIDE DEF new
  <2>2. /\ Later(ev.at, row.seen) \in 1..MaxTime
        /\ ev.at <= Later(ev.at, row.seen) /\ row.seen <= Later(ev.at, row.seen)
        /\ Later(ev.at, row.seen) \in {ev.at, row.seen}
    BY <1>1 DEF Later
  <2>3. /\ new \in AlarmColumns /\ InOrder(new)
        /\ new.seen = Later(ev.at, row.seen) /\ new.acked = row.acked
    BY <1>1, <1>2, <2>1, <2>2 DEF AlarmColumns, DateTime, InOrder
  <2>4. new # NoAlarm
    BY <1>2, <2>2, <2>3
  <2>5. AlarmMoves(row, ev, new)
    BY <1>1, <1>2, <1>4, <2>2, <2>3, <2>4 DEF AlarmMoves
  <2> QED
    BY <2>5 DEF new
<1>5. CASE ev.type = "AlarmAcknowledged" /\ row = NoAlarm
  <2>1. new = row
    BY <1>5 DEF ProjectAlarm
  <2> HIDE DEF new
  <2>2. AlarmMoves(row, ev, new)
    BY <1>2, <1>5, <2>1 DEF AlarmMoves
  <2> QED
    BY <2>2 DEF new
<1>6. CASE ev.type = "AlarmAcknowledged" /\ row # NoAlarm
  <2>1. new = [triggered |-> row.triggered, seen |-> row.seen, cleared |-> row.cleared,
               acked |-> IF row.acked = NULL THEN ev.at ELSE row.acked]
    BY <1>1, <1>6 DEF ProjectAlarm, AlarmOnAcknowledged
  <2> HIDE DEF new
  <2>2. /\ new \in AlarmColumns /\ InOrder(new) /\ new.seen = row.seen
        /\ new.acked # NULL
    BY <1>1, <1>2, <2>1 DEF AlarmColumns, DateTime, InOrder
  <2>3. new # NoAlarm
    BY <1>2, <2>2
  <2>4. AlarmMoves(row, ev, new)
    BY <1>1, <1>2, <1>6, <2>2, <2>3 DEF AlarmMoves
  <2> QED
    BY <2>4 DEF new
<1> QED
  BY <1>3, <1>4, <1>5, <1>6

-----------------------------------------------------------------------------
(* A row is delivered, to some of the projectors or to none.               *)

\* The log stands, and what is newly marked dispatched is the row in hand,
\* with both projectors done.
Settled(who) ==
    /\ UNCHANGED <<log, batches>>
    /\ WalkTypeOK'
    /\ \A e \in Pending' : attempts'[e] < MAX_ATTEMPTS
    /\ \A e \in Events : status'[e] = "dispatched" =>
          status[e] = "dispatched" \/ (e = NextRow /\ who = Both)

LEMMA CommitsNothing ==
    ASSUME TypeOK, LogInv,
           NEW statuses \in [Events -> Marks], NEW counts \in [Events -> 0..MAX_ATTEMPTS],
           Commit(<<>>, statuses, counts)
    PROVE  log' = log /\ status' = statuses /\ attempts' = counts
<1> DEFINE n == Len(log)
<1>1. n \in Nat /\ Events = 1..n
  BY LogNumbers
<1> HIDE DEF n
<1>2. PICK R : log \in Seq(R)
  BY DEF LogInv
<1>3. (\E S : statuses \in Seq(S)) /\ (\E S : counts \in Seq(S))
  <2> DEFINE Counts == 0..MAX_ATTEMPTS
  <2>1. statuses \in [1..n -> Marks] /\ counts \in [1..n -> Counts]
    BY <1>1
  <2> HIDE DEF Counts
  <2>2. statuses \in Seq(Marks) /\ counts \in Seq(Counts)
    BY <1>1, <2>1
  <2> QED
    BY <2>2
<1>4. /\ [i \in DOMAIN <<>> |-> "pending"] = <<>>
      /\ [i \in DOMAIN <<>> |-> 0] = <<>>
  OBVIOUS
<1>5. /\ log' = log \o <<>>
      /\ status' = statuses \o <<>>
      /\ attempts' = counts \o <<>>
  BY <1>4, Zenon DEF Commit
<1> QED
  BY <1>2, <1>3, <1>5, ConcatEmptySeq, Zenon

LEMMA WalkSettles ==
    ASSUME VInv, UNCHANGED batches,
           Ahead # {}, SettleDispatched(<<>>), UNCHANGED faults
    PROVE  Settled(Both)
<1>1. NextRow \in Pending /\ NextRow \in Events
  BY NextRowAhead DEF VInv, Pending
<1> DEFINE statuses == [status EXCEPT ![NextRow] = "dispatched"]
<1>2. /\ status \in [Events -> Marks] /\ attempts \in [Events -> 0..MAX_ATTEMPTS]
      /\ faults \in 0..MaxFaults /\ LogInv /\ TypeOK
  BY DEF VInv, TypeOK, WalkTypeOK, Marks
<1>3. /\ statuses \in [Events -> Marks] /\ statuses[NextRow] = "dispatched"
      /\ \A e \in Events : e # NextRow => statuses[e] = status[e]
  BY <1>1, <1>2 DEF Marks
<1>4. Commit(<<>>, statuses, attempts) /\ cursor' = NextRow
  BY DEF SettleDispatched
<1> HIDE DEF statuses
<1>5. log' = log /\ status' = statuses /\ attempts' = attempts
  BY <1>2, <1>3, <1>4, CommitsNothing
<1>6. Events' = Events
  BY <1>5 DEF Events
<1>7. WalkTypeOK'
  BY <1>1, <1>2, <1>3, <1>4, <1>5, <1>6 DEF WalkTypeOK, Marks
<1>8. Pending' \subseteq Pending
  BY <1>3, <1>5, <1>6 DEF Pending
<1> QED
  BY <1>2, <1>3, <1>5, <1>7, <1>8 DEF Settled, LogInv

LEMMA WalkFails ==
    ASSUME VInv, UNCHANGED batches, Ahead # {}, SettleFailed(<<>>), Fault
    PROVE  Settled({})
<1>1. NextRow \in Pending /\ NextRow \in Events
  BY NextRowAhead DEF VInv, Pending
<1>2. /\ status \in [Events -> Marks] /\ attempts \in [Events -> 0..MAX_ATTEMPTS]
      /\ faults \in 0..MaxFaults /\ LogInv /\ TypeOK
      /\ attempts[NextRow] \in 0..MAX_ATTEMPTS /\ attempts[NextRow] < MAX_ATTEMPTS
      /\ MAX_ATTEMPTS \in Nat
  BY <1>1, WalkAssumption DEF VInv, TypeOK, WalkTypeOK, Marks, LogInv
<1> DEFINE counts == [attempts EXCEPT ![NextRow] = @ + 1]
           mark == IF counts[NextRow] >= MAX_ATTEMPTS THEN "dead" ELSE status[NextRow]
           statuses == [status EXCEPT ![NextRow] = mark]
<1>3. /\ counts \in [Events -> 0..MAX_ATTEMPTS]
      /\ counts[NextRow] = attempts[NextRow] + 1
      /\ \A e \in Events : e # NextRow => counts[e] = attempts[e]
  BY <1>1, <1>2
<1>4. Commit(<<>>, statuses, counts) /\ cursor' = NextRow
  BY DEF SettleFailed
<1> HIDE DEF counts
<1>5. status[NextRow] = "pending" /\ mark \in {"dead", "pending"}
      /\ (mark = "pending" => counts[NextRow] < MAX_ATTEMPTS)
  BY <1>1, <1>2, <1>3 DEF Pending
<1> HIDE DEF mark
<1>6. /\ statuses \in [Events -> Marks] /\ statuses[NextRow] = mark
      /\ \A e \in Events : e # NextRow => statuses[e] = status[e]
  BY <1>1, <1>2, <1>5 DEF Marks
<1> HIDE DEF statuses
<1>7. log' = log /\ status' = statuses /\ attempts' = counts
  BY <1>2, <1>3, <1>4, <1>6, CommitsNothing
<1>8. Events' = Events
  BY <1>7 DEF Events
<1>9. faults' \in 0..MaxFaults
  BY <1>2, WalkAssumption DEF Fault
<1>10. WalkTypeOK'
  BY <1>1, <1>3, <1>4, <1>6, <1>7, <1>8, <1>9 DEF WalkTypeOK, Marks
<1>11. \A e \in Pending' : attempts'[e] < MAX_ATTEMPTS
  BY <1>2, <1>3, <1>5, <1>6, <1>7, <1>8 DEF Pending, LogInv
<1> QED
  BY <1>5, <1>6, <1>7, <1>10, <1>11 DEF Settled

LEMMA WalkStartsOver ==
    ASSUME VInv, UNCHANGED batches, (SettleNot(<<>>) /\ Fault) \/ StartOver
    PROVE  Settled({})
<1>1. /\ status \in [Events -> Marks] /\ attempts \in [Events -> 0..MAX_ATTEMPTS]
      /\ faults \in 0..MaxFaults /\ LogInv /\ TypeOK
  BY DEF VInv, TypeOK, WalkTypeOK, Marks
<1>2. log' = log /\ status' = status /\ attempts' = attempts /\ cursor' = 0
  BY <1>1, CommitsNothing DEF SettleNot, StartOver
<1>3. Events' = Events
  BY <1>2 DEF Events
<1>4. faults' \in 0..MaxFaults
  BY <1>1, WalkAssumption DEF Fault, StartOver
<1>5. WalkTypeOK'
  BY <1>1, <1>2, <1>3, <1>4 DEF WalkTypeOK, Marks
<1>6. Pending' = Pending
  BY <1>2, <1>3 DEF Pending
<1> QED
  BY <1>1, <1>2, <1>5, <1>6 DEF Settled, LogInv

\* Some of the projectors have had the row in hand, or none.
Absorbed(who) ==
    \/ who = {} /\ UNCHANGED views
    \/ NextRow \in Events /\ Absorb(log[NextRow], who)

LEMMA MachineAbsorbs ==
    ASSUME VInv, NEW who, Settled(who), Absorbed(who)
    PROVE  machine' \in MachineRows /\ StateInv'
<1>1. /\ machine \in MachineRows /\ machine.eventAt \in 0..MaxTime /\ MaxTime \in Nat
      /\ UNCHANGED log
      /\ \A e \in Events : log[e].at \in 1..MaxTime
  BY ViewAssumption
  DEF VInv, TypeOK, MachineRows, DateTime, Settled, LogInv, RowShape
<1>2. StateEvents' = StateEvents /\ StateEvents \subseteq Events
  BY <1>1 DEF StateEvents, Events
<1>3. CASE machine' = machine /\ ~ ("machine" \in who)
  <2>1. \A e \in StateEvents : status'[e] = "dispatched" => status[e] = "dispatched"
    BY <1>2, <1>3 DEF Settled, Both
  <2>2. ShowsItsTime' <=> ShowsItsTime
    BY <1>1, <1>2, <1>3 DEF ShowsItsTime
  <2> QED
    BY <1>1, <1>2, <1>3, <2>1, <2>2 DEF VInv, StateInv
<1>4. CASE /\ "machine" \in who /\ NextRow \in Events
           /\ machine' = ProjectMachine(machine, log[NextRow])
  <2> DEFINE n == NextRow
             ev == log[n]
  <2>1. n \in Events /\ RowShape(ev) /\ ev.at \in 1..MaxTime
    BY <1>1, <1>4 DEF VInv, LogInv
  <2>2. MachineMoves(machine, ev, machine')
    BY <1>1, <1>4, <2>1, MachineProjected
  <2>3. \A e \in StateEvents : status'[e] = "dispatched" =>
           status[e] = "dispatched" \/ e = n
    BY <1>2 DEF Settled
  <2> HIDE DEF n
  <2>4. ev.type = "StateChanged" => n \in StateEvents
    BY <2>1 DEF StateEvents
  <2>5. /\ machine' \in MachineRows /\ machine.eventAt <= machine'.eventAt
        /\ machine'.eventAt \in {machine.eventAt, ev.at}
        /\ machine'.eventAt \in 0..MaxTime
    BY <2>2 DEF MachineMoves, MachineRows, DateTime
  <2>6. machine'.eventAt # NULL => \E f \in StateEvents : log[f].at = machine'.eventAt
    <3>1. CASE machine'.eventAt = machine.eventAt
      BY <3>1 DEF VInv, StateInv
    <3>2. CASE machine'.eventAt # machine.eventAt
      <4>1. machine'.eventAt = ev.at /\ ev.type # "AlarmAcknowledged"
        BY <2>2, <2>5, <3>2 DEF MachineMoves
      <4>2. CASE ev.type = "StateChanged"
        BY <2>4, <4>1, <4>2
      <4>3. CASE ev.type # "StateChanged"
        <5>1. OfTransition(ev)
          BY <2>1, <4>1, <4>3 DEF OfTransition, RowShape, RowTypes
        <5> QED
          BY <2>1, <4>1, <5>1 DEF VInv, LogInv
      <4> QED
        BY <4>2, <4>3
    <3> QED
      BY <3>1, <3>2
  <2>7. ASSUME NEW e \in StateEvents, status'[e] = "dispatched"
        PROVE  /\ log[e].at <= machine'.eventAt
               /\ log[e].at = machine'.eventAt => ShowsItsTime'
    <3>1. CASE e = n
      <4>1. ev.type = "StateChanged"
        BY <2>7, <3>1 DEF StateEvents
      <4>2. CASE machine.eventAt <= ev.at
        <5>1. machine'.eventAt = ev.at /\ machine'.state = ev.to
          BY <2>2, <4>1, <4>2 DEF MachineMoves
        <5> QED
          BY <1>1, <1>2, <2>1, <2>4, <3>1, <4>1, <5>1 DEF ShowsItsTime
      <4>3. CASE ~ (machine.eventAt <= ev.at)
        <5>1. machine'.eventAt = machine.eventAt
          BY <2>2, <4>1, <4>3 DEF MachineMoves
        <5> QED
          BY <1>1, <2>1, <3>1, <4>3, <5>1
      <4> QED
        BY <4>2, <4>3
    <3>2. CASE status[e] = "dispatched"
      <4>1. /\ log[e].at <= machine.eventAt
            /\ log[e].at = machine.eventAt => ShowsItsTime
        BY <2>7, <3>2 DEF VInv, StateInv
      <4>2. e \in Events /\ log[e].at \in 1..MaxTime
        BY <1>1, <1>2
      <4>3. log[e].at <= machine'.eventAt
        BY <1>1, <2>5, <4>1, <4>2
      <4>4. ASSUME log[e].at = machine'.eventAt PROVE ShowsItsTime'
        <5>1. machine'.eventAt = machine.eventAt /\ ShowsItsTime
          BY <1>1, <2>5, <4>1, <4>2, <4>4
        <5>2. CASE ev.type = "StateChanged" /\ machine.eventAt <= ev.at
          <6>1. machine'.eventAt = ev.at /\ machine'.state = ev.to
            BY <2>2, <5>2 DEF MachineMoves
          <6> QED
            BY <1>1, <1>2, <2>4, <5>2, <6>1 DEF ShowsItsTime
        <5>3. CASE ~ (ev.type = "StateChanged" /\ machine.eventAt <= ev.at)
          <6>1. machine'.state = machine.state
            BY <2>2, <5>3 DEF MachineMoves
          <6> QED
            BY <1>1, <1>2, <5>1, <6>1 DEF ShowsItsTime
        <5> QED
          BY <5>2, <5>3
      <4> QED
        BY <4>3, <4>4
    <3> QED
      BY <2>3, <2>7, <3>1, <3>2
  <2> QED
    BY <1>1, <1>2, <2>5, <2>6, <2>7 DEF StateInv
<1> QED
  BY <1>3, <1>4 DEF Absorbed, Absorb, views

LEMMA AlarmsAbsorb ==
    ASSUME VInv, NEW who, Settled(who), Absorbed(who)
    PROVE  /\ alarms' \in [Alids -> AlarmColumns]
           /\ \A a \in Alids : InOrder(alarms'[a])
           /\ AlarmInv'
<1>1. /\ UNCHANGED log /\ Events' = Events
      /\ \A e \in Events : RowShape(log[e])
      /\ alarms \in [Alids -> AlarmColumns] /\ \A a \in Alids : InOrder(alarms[a])
  BY DEF VInv, TypeOK, AlarmColumns, InOrder, Settled, LogInv, Events
<1>2. \A a \in Alids : Raised(a)' = Raised(a) /\ Raised(a) \subseteq Events
  BY <1>1 DEF Raised
<1>3. CASE alarms' = alarms /\ ~ ("alarms" \in who)
  <2>1. \A e \in Events : status'[e] = "dispatched" => status[e] = "dispatched"
    BY <1>3 DEF Settled, Both
  <2> QED
    BY <1>1, <1>2, <1>3, <2>1 DEF VInv, AlarmInv
<1>4. CASE "alarms" \in who /\ NextRow \in Events /\ alarms' = ProjectAlarms(log[NextRow])
  <2>1. PICK n \in Events : n = NextRow
    BY <1>4
  <2> DEFINE ev == log[n]
  <2>2. /\ RowShape(ev)
        /\ alarms' = [a \in Alids |-> IF ev.alid = a THEN ProjectAlarm(alarms[a], ev)
                                      ELSE alarms[a]]
    BY <1>1, <1>4, <2>1 DEF ProjectAlarms
  <2>3. \A e \in Events : status'[e] = "dispatched" => status[e] = "dispatched" \/ e = n
    BY <2>1 DEF Settled
  <2> HIDE DEF ev
  \* Of an alarm's own row: the event is the alarm's, or the row stands.
  <2>4. ASSUME NEW a \in Alids
        PROVE  \/ alarms'[a] = alarms[a] /\ ev.alid # a
               \/ /\ ev.alid = a /\ AlarmMoves(alarms[a], ev, alarms'[a])
                  /\ ev.type \in {"AlarmTriggered", "AlarmAcknowledged"}
    <3>1. CASE ev.alid # a
      BY <2>2, <3>1
    <3>2. CASE ev.alid = a
      <4>1. ev.type \in {"AlarmTriggered", "AlarmAcknowledged"}
        BY <2>2, <3>2, ViewAssumption DEF RowShape, RowTypes
      <4>2. alarms[a] # NoAlarm => alarms[a].seen # NULL
        BY DEF VInv, AlarmInv
      <4>3. alarms[a] \in AlarmColumns /\ InOrder(alarms[a])
        BY <1>1
      <4>4. AlarmMoves(alarms[a], ev, ProjectAlarm(alarms[a], ev))
        BY <2>2, <4>1, <4>2, <4>3, AlarmProjected
      <4>5. alarms'[a] = ProjectAlarm(alarms[a], ev)
        BY <2>2, <3>2
      <4> QED
        BY <3>2, <4>1, <4>4, <4>5
    <3> QED
      BY <3>1, <3>2
  <2>5. ASSUME NEW a \in Alids
        PROVE  /\ alarms'[a] \in AlarmColumns /\ InOrder(alarms'[a])
               /\ alarms[a].seen <= alarms'[a].seen
               /\ alarms[a] # NoAlarm => alarms'[a] # NoAlarm
               /\ alarms[a].acked # NULL => alarms'[a].acked # NULL
    <3>1. alarms[a].seen \in 0..MaxTime /\ MaxTime \in Nat
      BY <1>1, ViewAssumption DEF AlarmColumns, DateTime
    <3> QED
      BY <1>1, <2>4, <3>1 DEF AlarmMoves
  <2>6. alarms' \in [Alids -> AlarmColumns]
    BY <2>2, <2>5
  <2>7. ASSUME NEW a \in Alids, alarms'[a] # NoAlarm
        PROVE  alarms'[a].seen # NULL /\ \E e \in Raised(a) : alarms'[a].seen = log[e].at
    <3>1. CASE alarms[a] # NoAlarm /\ alarms'[a].seen = alarms[a].seen
      BY <3>1 DEF VInv, AlarmInv
    <3>2. CASE alarms[a] = NoAlarm \/ alarms'[a].seen # alarms[a].seen
      <4>1. ev.type = "AlarmTriggered" /\ ev.alid = a /\ alarms'[a].seen = ev.at
        BY <2>4, <2>7, <3>2 DEF AlarmMoves
      <4>2. n \in Raised(a) /\ ev.at # NULL
        BY <2>2, <4>1, ViewAssumption DEF Raised, ev, RowShape, NULL
      <4> QED
        BY <4>1, <4>2 DEF ev
    <3> QED
      BY <3>1, <3>2
  <2>8. ASSUME NEW a \in Alids, NEW e \in Raised(a), status'[e] = "dispatched"
        PROVE  alarms'[a] # NoAlarm /\ log[e].at <= alarms'[a].seen
    <3>1. CASE status[e] = "dispatched"
      <4>1. alarms[a] # NoAlarm /\ log[e].at <= alarms[a].seen
        BY <2>8, <3>1 DEF VInv, AlarmInv
      <4>2. /\ log[e].at \in 1..MaxTime /\ alarms[a].seen \in 0..MaxTime
            /\ alarms'[a].seen \in 0..MaxTime /\ MaxTime \in Nat
        BY <1>1, <1>2, <2>5, ViewAssumption DEF RowShape, AlarmColumns, DateTime
      <4> QED
        BY <2>5, <4>1, <4>2
    <3>2. CASE e = n
      <4>1. ev.type = "AlarmTriggered" /\ ev.alid = a
        BY <3>2 DEF Raised, ev
      <4> QED
        BY <2>4, <3>2, <4>1 DEF AlarmMoves, ev
    <3> QED
      BY <1>2, <2>3, <2>8, <3>1, <3>2
  <2>9. ASSUME NEW e \in Events, log[e].type = "AlarmAcknowledged"
        PROVE  /\ alarms'[log[e].alid] # NoAlarm
               /\ status'[e] = "dispatched" => alarms'[log[e].alid].acked # NULL
    <3> DEFINE a == log[e].alid
    <3>1. a \in Alids /\ alarms[a] # NoAlarm
          /\ (status[e] = "dispatched" => alarms[a].acked # NULL)
      BY <1>1, <2>9 DEF RowShape, VInv, AlarmInv
    <3>2. e = n => alarms'[a].acked # NULL
      <4>1. e = n => ev.type = "AlarmAcknowledged" /\ ev.alid = a
        BY <2>9 DEF ev
      <4> HIDE DEF a
      <4> QED
        BY <2>4, <3>1, <4>1 DEF AlarmMoves
    <3> QED
      BY <2>3, <2>5, <3>1, <3>2
  <2> QED
    BY <1>1, <1>2, <2>5, <2>6, <2>7, <2>8, <2>9 DEF AlarmInv
<1> QED
  BY <1>3, <1>4 DEF Absorbed, Absorb, views

LEMMA StepSettles ==
    ASSUME VInv, NEW who, Settled(who), Absorbed(who)
    PROVE  VInv'
<1>1. machine' \in MachineRows /\ StateInv'
  BY MachineAbsorbs
<1>2. /\ alarms' \in [Alids -> AlarmColumns]
      /\ \A a \in Alids : InOrder(alarms'[a])
      /\ AlarmInv'
  BY AlarmsAbsorb
<1>3. TypeOK'
  BY <1>1, <1>2
  DEF VInv, TypeOK, Settled, MachineRows, AlarmColumns, InOrder
<1>4. LogInv'
  <2>1. UNCHANGED log /\ Events' = Events /\ StateEvents' = StateEvents
    BY DEF Settled, Events, StateEvents
  <2> QED
    BY <2>1 DEF VInv, LogInv, Settled
<1> QED
  BY <1>1, <1>2, <1>3, <1>4 DEF VInv

-----------------------------------------------------------------------------
(* The invariant holds.                                                    *)

LEMMA InitInv == Init => VInv
<1> SUFFICES ASSUME Init PROVE VInv
  OBVIOUS
<1>1. log = <<>> /\ Events = {} /\ StateEvents = {} /\ Pending = {}
  BY DEF Init, WalkInit, Events, StateEvents, Pending
<1>2. \A a \in Alids : Raised(a) = {} /\ alarms[a] = NoAlarm
  BY <1>1 DEF Raised, Init
<1>3. TypeOK
  <2>1. MaxBatches \in Nat /\ MaxTime \in Nat /\ MaxFaults \in Nat
    BY ViewAssumption, WalkAssumption
  <2>2. WalkTypeOK /\ batches \in 0..MaxBatches
    BY <1>1, <2>1 DEF Init, WalkInit, WalkTypeOK
  <2>3. machine \in MachineRows
    BY <2>1 DEF Init, NoRow, NULL, MachineRows, DateTime
  <2>4. NoAlarm \in AlarmColumns /\ InOrder(NoAlarm)
    BY <2>1 DEF NoAlarm, NULL, AlarmColumns, DateTime, InOrder
  <2>5. alarms \in [Alids -> AlarmColumns] /\ \A a \in Alids : InOrder(alarms[a])
    BY <1>2, <2>4 DEF Init
  <2> QED
    BY <2>2, <2>3, <2>5 DEF TypeOK, MachineRows, AlarmColumns, InOrder
<1>4. LogInv
  <2>1. log \in Seq({})
    BY <1>1
  <2> QED
    BY <1>1, <2>1 DEF LogInv
<1>5. StateInv
  BY <1>1 DEF StateInv, Init, NoRow
<1>6. AlarmInv
  BY <1>1, <1>2 DEF AlarmInv
<1> QED
  BY <1>3, <1>4, <1>5, <1>6 DEF VInv

LEMMA NextInv == VInv /\ [Next]_vars => VInv'
<1> SUFFICES ASSUME VInv, [Next]_vars PROVE VInv'
  OBVIOUS
<1>1. ASSUME NEW to \in {RUN, IDLE, ALARM}, NEW alid \in Alids \cup {NoAlid},
             NEW at \in 1..MaxTime, Transition(to, alid, at)
      PROVE  VInv'
  <2>1. Batch(advance(latest_state_for(log), to, alid, at, NoClick))
    BY <1>1, TransitionIsBatch DEF Transition
  <2> QED
    BY <1>1, <2>1, BatchKeepsInv DEF Transition
<1>2. ASSUME NEW alid \in Alids, NEW at \in 1..MaxTime, Acknowledge(alid, at)
      PROVE  VInv'
  <2>1. Batch(<<AlarmAcknowledged(alid, at)>>)
    BY <1>2, AcknowledgementIsBatch DEF Acknowledge
  <2> QED
    BY <1>2, <2>1, BatchKeepsInv DEF Acknowledge
<1>3. CASE Deliver
  <2>1. Settled(Both)
    BY <1>3, WalkSettles DEF Deliver
  <2>2. Absorbed(Both)
    BY <1>3, NextRowAhead DEF Deliver, Absorbed, VInv, Pending
  <2> QED
    BY <2>1, <2>2, StepSettles
<1>4. CASE DeliverFails
  <2>1. PICK who \in SUBSET Both : Absorb(log[NextRow], who)
    BY <1>4 DEF DeliverFails
  <2>2. Settled({})
    BY <1>4, WalkFails DEF DeliverFails
  <2>3. Settled(who) /\ Absorbed(who)
    BY <1>4, <2>1, <2>2, NextRowAhead
    DEF DeliverFails, Settled, Absorbed, VInv, Pending, Both
  <2> QED
    BY <2>3, StepSettles
<1>5. CASE NextDrain
  <2>1. Settled({}) /\ Absorbed({})
    BY <1>5, WalkStartsOver DEF NextDrain, Absorbed
  <2> QED
    BY <2>1, StepSettles
<1>6. CASE Interrupt
  <2>1. Settled({})
    BY <1>6, WalkStartsOver DEF Interrupt
  <2>2. CASE UNCHANGED views
    BY <2>1, <2>2, StepSettles DEF Absorbed
  <2>3. ASSUME Ahead # {}, NEW who \in SUBSET Both, Absorb(log[NextRow], who)
        PROVE  VInv'
    <3>1. Settled(who) /\ Absorbed(who)
      BY <2>1, <2>3, NextRowAhead DEF Settled, Absorbed, VInv, Pending, Both
    <3> QED
      BY <3>1, StepSettles
  <2> QED
    BY <1>6, <2>2, <2>3 DEF Interrupt
<1>7. CASE UNCHANGED vars
  <2>1. UNCHANGED <<log, status, attempts, cursor, faults, batches, machine, alarms>>
    BY <1>7 DEF vars, walkVars, views
  <2>2. /\ UNCHANGED <<Events, Pending, StateEvents>>
        /\ \A a \in Alids : Raised(a)' = Raised(a)
    BY <2>1 DEF Events, Pending, StateEvents, Raised
  <2>3. ShowsItsTime' <=> ShowsItsTime
    BY <2>1, <2>2 DEF ShowsItsTime
  <2> QED
    BY <2>1, <2>2, <2>3 DEF VInv, TypeOK, WalkTypeOK, LogInv, StateInv, AlarmInv
<1> QED
  BY <1>1, <1>2, <1>3, <1>4, <1>5, <1>6, <1>7 DEF Next

THEOREM ViewInvariance == Spec => []VInv
BY InitInv, NextInv, PTL DEF Spec

\* Every column keeps its type, and no alarm is triggered or cleared later than
\* it was last seen.
THEOREM TypeCorrect == Spec => []TypeOK
<1>1. VInv => TypeOK
  BY DEF VInv
<1> QED
  BY ViewInvariance, <1>1, PTL

\* Once all that was appended is delivered, whatever was retried, repeated or
\* interrupted on the way, the machine's row shows a newest state.
THEOREM StateConverges == Spec => []StateViewConverges
<1>1. VInv => StateViewConverges
  <2> SUFFICES ASSUME VInv, Quiet, NoneDead, StateEvents # {}
               PROVE  /\ \E e \in Newest(StateEvents) : machine.state = log[e].to
                      /\ \A e \in StateEvents : machine.eventAt >= log[e].at
    BY DEF StateViewConverges
  <2>1. \A e \in StateEvents : e \in Events /\ status[e] = "dispatched"
    BY DEF Quiet, NoneDead, Pending, StateEvents, VInv, TypeOK, WalkTypeOK
  <2>2. \A e \in StateEvents : /\ log[e].at <= machine.eventAt
                               /\ log[e].at = machine.eventAt => ShowsItsTime
    BY <2>1 DEF VInv, StateInv
  <2>3. \A e \in StateEvents : log[e].at \in 1..MaxTime /\ machine.eventAt \in 0..MaxTime
    BY <2>1 DEF VInv, LogInv, RowShape, TypeOK, DateTime
  <2>4. PICK e \in StateEvents : log[e].at = machine.eventAt
    <3>1. machine.eventAt # NULL
      BY <2>2, <2>3, ViewAssumption DEF NULL
    <3> QED
      BY <3>1 DEF VInv, StateInv
  <2>5. PICK f \in StateEvents : log[f].at = machine.eventAt /\ log[f].to = machine.state
    BY <2>2, <2>4 DEF ShowsItsTime
  <2>6. f \in Newest(StateEvents)
    BY <2>2, <2>5 DEF Newest
  <2> QED
    BY <2>2, <2>3, <2>5, <2>6, ViewAssumption
<1> QED
  BY ViewInvariance, <1>1, PTL

\* No delivered alarm is without its row, no row without its alarm, and what is
\* acknowledged in the log is acknowledged in the view.
THEOREM AlarmsConverge == Spec => []AlarmViewConverges
<1>1. VInv => AlarmViewConverges
  <2> SUFFICES ASSUME VInv PROVE AlarmViewConverges
    OBVIOUS
  <2>1. ASSUME NEW a \in Alids, \A e \in Raised(a) : status[e] = "dispatched"
        PROVE  /\ Raised(a) # {} <=> alarms[a] # NoAlarm
               /\ \A e \in Newest(Raised(a)) : alarms[a].seen = log[e].at
    <3>1. Raised(a) # {} <=> alarms[a] # NoAlarm
      BY <2>1 DEF VInv, AlarmInv
    <3>2. ASSUME NEW e \in Newest(Raised(a)) PROVE alarms[a].seen = log[e].at
      <4>1. e \in Raised(a) /\ \A f \in Raised(a) : log[f].at <= log[e].at
        BY DEF Newest
      <4>2. PICK f \in Raised(a) : alarms[a].seen = log[f].at
        BY <3>1, <4>1 DEF VInv, AlarmInv
      <4>3. log[e].at <= alarms[a].seen /\ log[f].at <= log[e].at
        BY <2>1, <4>1 DEF VInv, AlarmInv
      <4>4. log[e].at \in 1..MaxTime /\ log[f].at \in 1..MaxTime /\ MaxTime \in Nat
        BY <4>1, ViewAssumption DEF Raised, VInv, LogInv, RowShape
      <4> QED
        BY <4>2, <4>3, <4>4
    <3> QED
      BY <3>1, <3>2
  <2>2. \A e \in Events :
           log[e].type = "AlarmAcknowledged" /\ status[e] = "dispatched" =>
              alarms[log[e].alid].acked # NULL
    BY DEF VInv, AlarmInv
  <2> QED
    BY <2>1, <2>2 DEF AlarmViewConverges
<1> QED
  BY ViewInvariance, <1>1, PTL

-----------------------------------------------------------------------------
(* No alarm is ever cleared in the view.                                   *)

NothingClears == \A a \in Alids : alarms[a].cleared = NULL

LEMMA NothingClearsStep ==
    ASSUME VInv, NothingClears, [Next]_vars
    PROVE  NothingClears'
<1>1. CASE UNCHANGED alarms
  BY <1>1 DEF NothingClears
<1>2. ASSUME Ahead # {}, NEW who, Absorb(log[NextRow], who)
      PROVE  NothingClears'
  <2> DEFINE ev == log[NextRow]
  <2>1. RowShape(ev)
    BY <1>2, NextRowAhead DEF VInv, LogInv, Pending
  <2>2. CASE alarms' = ProjectAlarms(ev)
    <3> HIDE DEF ev
    <3> SUFFICES ASSUME NEW a \in Alids PROVE alarms'[a].cleared = NULL
      BY DEF NothingClears
    <3>1. alarms'[a] = IF ev.alid = a THEN ProjectAlarm(alarms[a], ev) ELSE alarms[a]
      BY <2>2 DEF ProjectAlarms
    <3>2. alarms[a].cleared = NULL /\ alarms[a] \in AlarmColumns
      BY DEF NothingClears, VInv, TypeOK, AlarmColumns
    <3>3. CASE ev.alid # a
      BY <3>1, <3>2, <3>3
    <3>4. CASE ev.alid = a
      <4>1. ev.type \in {"AlarmTriggered", "AlarmAcknowledged"}
        BY <2>1, <3>4, ViewAssumption DEF RowShape, RowTypes
      <4>2. AlarmOnTriggered(alarms[a], ev).cleared = NULL
        BY <3>2 DEF AlarmOnTriggered, ReArmed, NoAlarm, AlarmColumns
      <4>3. AlarmOnAcknowledged(alarms[a], ev).cleared = NULL
        BY <3>2 DEF AlarmOnAcknowledged, AlarmColumns
      <4>4. ProjectAlarm(alarms[a], ev) \in
               {alarms[a], AlarmOnTriggered(alarms[a], ev), AlarmOnAcknowledged(alarms[a], ev)}
        BY <4>1 DEF ProjectAlarm
      <4> QED
        BY <3>1, <3>2, <3>4, <4>2, <4>3, <4>4
    <3> QED
      BY <3>3, <3>4
  <2> QED
    BY <1>1, <1>2, <2>2 DEF Absorb
<1>3. CASE \E to \in {RUN, IDLE, ALARM}, alid \in Alids \cup {NoAlid},
              at \in 1..MaxTime : Transition(to, alid, at)
  BY <1>1, <1>3 DEF Transition, AppendBatch, views
<1>4. CASE \E alid \in Alids, at \in 1..MaxTime : Acknowledge(alid, at)
  BY <1>1, <1>4 DEF Acknowledge, AppendBatch, views
<1>5. CASE Deliver \/ DeliverFails
  BY <1>2, <1>5 DEF Deliver, DeliverFails
<1>6. CASE NextDrain \/ Interrupt
  BY <1>1, <1>2, <1>6 DEF NextDrain, Interrupt, views
<1>7. CASE UNCHANGED vars
  BY <1>1, <1>7 DEF vars, views
<1> QED
  BY <1>3, <1>4, <1>5, <1>6, <1>7 DEF Next

\* No row of alarm_view gets a cleared_at, whatever happens: an AlarmReset
\* carries the ALID of the recovering sample, which is none, and
\* alarm_projector.py clears the row of the event's ALID.
THEOREM AlarmsNeverClear == Spec => []NothingClears
<1>1. Init => NothingClears
  BY DEF Init, NothingClears, NoAlarm
<1>2. VInv /\ NothingClears /\ [Next]_vars => NothingClears'
  BY NothingClearsStep
<1> QED
  BY <1>1, <1>2, ViewInvariance, PTL DEF Spec
=============================================================================
