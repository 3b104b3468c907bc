----------------------------- MODULE LedgerProofs -----------------------------
(***************************************************************************)
(* The downtime ledger for any number of transitions and failures, any     *)
(* rate and any clocks: no charge without a closed row of its own, rows    *)
(* that follow the log, and, while nothing fails, exactly the rows and the *)
(* charges that the history calls for; with aware times, no end at all.    *)
(***************************************************************************)
EXTENDS CapacityLedger, FiniteSetTheorems, SequenceTheorems, NaturalFacts, TLAPS

Transitions == [from: VALID_STATES, to: VALID_STATES, at: 1..MaxTime, zone: Zones]
Rows        == [start: 1..MaxTime, end: {Open} \cup 1..MaxTime, lost: Nat,
                reason: {ALARM, IDLE}, corr: Nat]
Charges     == [corr: Nat, qty: Nat \ {0}]
Steps       == {"idle", "opening", "looking", "closing", "charging", "others"}

Typed ==
    /\ history \in Seq(Transitions)
    /\ status \in [Events -> {"pending", "dispatched", "dead"}]
    /\ attempts \in [Events -> 0..MAX_ATTEMPTS]
    /\ cursor \in {0} \cup Events
    /\ pc \in Steps
    /\ found \in {NoRow} \cup DOMAIN downtime
    /\ raised \in BOOLEAN
    /\ downtime \in Seq(Rows)
    /\ losses \in Seq(Charges)
    /\ faults \in 0..MaxFaults

\* Where the handler stands says what it has in hand.
InHand ==
    /\ pc # "idle" => cursor \in Events /\ status[cursor] = "pending"
    /\ pc = "opening" => Leaves(history[cursor])
    /\ pc \in {"looking", "closing", "charging"} => Enters(history[cursor])
    /\ pc \in {"closing", "charging"} => found \in DOMAIN downtime
    /\ pc = "closing" => downtime[found].end = Open
    /\ raised => pc = "others"

\* A pending event has attempts left; rows and charges go back to events.
BackRefs ==
    /\ \A e \in Pending : attempts[e] < MAX_ATTEMPTS
    /\ \A i \in DOMAIN downtime : downtime[i].corr \in Events
    /\ \A i \in DOMAIN losses : losses[i].corr \in Events

LTypes == Typed /\ InHand /\ BackRefs

LEMMA Numbers ==
    /\ MaxTime \in Nat \ {0} /\ MaxFaults \in Nat /\ MAX_ATTEMPTS \in Nat \ {0}
    /\ Rate \in Nat /\ Origin \in VALID_STATES
BY LedgerAssumption

LEMMA LostIsANumber ==
    ASSUME NEW s \in 1..MaxTime, NEW e \in 1..MaxTime
    PROVE  Lost(s, e) \in Nat
<1>1. ASSUME NEW a \in Nat PROVE a * Rate \in Nat
  BY Numbers
<1>2. e > s => e - s \in Nat
  BY Numbers
<1> QED
  BY <1>1, <1>2 DEF Lost

LEMMA FaultCounts ==
    ASSUME faults \in 0..MaxFaults, Fault
    PROVE  faults' \in 0..MaxFaults
BY Numbers DEF Fault

LEMMA EventNumbers ==
    ASSUME Typed
    PROVE  /\ Events = 1..Len(history) /\ Len(history) \in Nat
           /\ \A e \in Events : history[e] \in Transitions
           /\ DOMAIN downtime = 1..Len(downtime) /\ Len(downtime) \in Nat
           /\ \A i \in DOMAIN downtime : downtime[i] \in Rows
           /\ DOMAIN losses = 1..Len(losses) /\ Len(losses) \in Nat
           /\ \A i \in DOMAIN losses : losses[i] \in Charges
BY DEF Typed, Events

\* The next row of a drain.
LEMMA NextIsAhead ==
    ASSUME Typed, Ahead # {},
           NEW n, n = CHOOSE e \in Ahead : \A f \in Ahead : e <= f
    PROVE  n \in Ahead /\ \A f \in Ahead : n <= f
<1>1. Ahead \subseteq Nat
  BY EventNumbers DEF Ahead, Pending
<1>2. \E e \in Ahead : \A f \in Ahead : e <= f
  BY <1>1, LeastNatural
<1> QED
  BY <1>2

LEMMA Appended ==
    ASSUME NEW n \in Nat, NEW S, NEW s \in [1..n -> S], NEW x \in S
    PROVE  /\ Append(s, x) \in [1..(n + 1) -> S]
           /\ Append(s, x)[n + 1] = x
           /\ \A e \in 1..n : Append(s, x)[e] = s[e]
<1> DEFINE t == Append(s, x)
<1>1. s \in Seq(S) /\ Len(s) = n
  OBVIOUS
<1>2. /\ t \in Seq(S) /\ Len(t) = n + 1 /\ t[n + 1] = x
      /\ \A e \in 1..n : t[e] = s[e]
  BY <1>1
<1> HIDE DEF t
<1>3. t \in [1..(n + 1) -> S]
  BY <1>2, LenProperties
<1> QED
  BY <1>2, <1>3 DEF t

LEMMA Replaced ==
    ASSUME NEW S, NEW s \in Seq(S), NEW i \in DOMAIN s, NEW x \in S
    PROVE  /\ [s EXCEPT ![i] = x] \in Seq(S)
           /\ DOMAIN [s EXCEPT ![i] = x] = DOMAIN s
           /\ [s EXCEPT ![i] = x][i] = x
           /\ \A j \in DOMAIN s : j # i => [s EXCEPT ![i] = x][j] = s[j]
OBVIOUS

\* What a transition does to the log and the outbox.
LEMMA LogGrows ==
    ASSUME Typed, NEW to \in {RUN, IDLE, ALARM}, NEW at \in 1..MaxTime,
           NEW zone \in Zones, Transition(to, at, zone)
    PROVE  /\ history' \in Seq(Transitions)
           /\ Events' = 1..(Len(history) + 1)
           /\ Len(history) + 1 \notin Events
           /\ \A e \in Events : e \in Events' /\ history'[e] = history[e]
                                /\ status'[e] = status[e] /\ attempts'[e] = attempts[e]
           /\ status'[Len(history) + 1] = "pending"
           /\ attempts'[Len(history) + 1] = 0
           /\ status' \in [Events' -> {"pending", "dispatched", "dead"}]
           /\ attempts' \in [Events' -> 0..MAX_ATTEMPTS]
<1> DEFINE ev == [from |-> LastState, to |-> to, at |-> at, zone |-> zone]
<1>1. ev \in Transitions
  <2>1. LastState \in VALID_STATES
    <3>1. CASE history = <<>>
      BY <3>1, Numbers DEF LastState
    <3>2. CASE history # <<>>
      <4>1. Len(history) \in DOMAIN history
        BY <3>2, EventNumbers DEF Typed
      <4>2. history[Len(history)] \in Transitions
        BY <4>1, EventNumbers DEF Events
      <4> QED
        BY <3>2, <4>2 DEF LastState, Transitions
    <3> QED
      BY <3>1, <3>2
  <2>2. to \in VALID_STATES
    BY DEF VALID_STATES
  <2> QED
    BY <2>1, <2>2 DEF Transitions
<1> HIDE DEF ev
<1>2. history' = Append(history, ev) /\ history \in Seq(Transitions)
  BY DEF Transition, ev, Typed
<1>3. /\ history' \in Seq(Transitions) /\ DOMAIN history' = 1..(Len(history) + 1)
      /\ Len(history) \in Nat /\ DOMAIN history = 1..Len(history)
      /\ \A e \in 1..Len(history) : history'[e] = history[e]
  BY <1>1, <1>2
<1>4. /\ Events = 1..Len(history) /\ Events' = 1..(Len(history) + 1)
  BY <1>3 DEF Events
<1>5. /\ status' = Append(status, "pending")
      /\ status \in [1..Len(history) -> {"pending", "dispatched", "dead"}]
  BY <1>4 DEF Transition, Typed
<1>6. /\ attempts' = Append(attempts, 0) /\ 0 \in 0..MAX_ATTEMPTS
      /\ attempts \in [1..Len(history) -> 0..MAX_ATTEMPTS]
  BY <1>4, Numbers DEF Transition, Typed
<1> DEFINE n == Len(history)
           first == "pending"
           Marks == {"pending", "dispatched", "dead"}
           Counts == 0..MAX_ATTEMPTS
<1> HIDE DEF n, first, Marks, Counts
<1>7. /\ Append(status, first) \in [1..(n + 1) -> Marks]
      /\ Append(status, first)[n + 1] = first
      /\ \A e \in 1..n : Append(status, first)[e] = status[e]
  <2>1. n \in Nat /\ status \in [1..n -> Marks] /\ first \in Marks
    BY <1>3, <1>5 DEF n, first, Marks
  <2>2. status \in Seq(Marks) /\ Len(status) = n
    BY <2>1
  <2> DEFINE t == Append(status, first)
  <2>3. /\ t \in Seq(Marks) /\ Len(t) = n + 1 /\ t[n + 1] = first
        /\ \A e \in 1..n : t[e] = status[e]
    BY <2>1, <2>2
  <2> HIDE DEF t
  <2>4. t \in [1..(n + 1) -> Marks]
    BY <2>3, LenProperties
  <2> QED
    BY <2>3, <2>4 DEF t
<1>8. /\ Append(attempts, 0) \in [1..(n + 1) -> Counts]
      /\ Append(attempts, 0)[n + 1] = 0
      /\ \A e \in 1..n : Append(attempts, 0)[e] = attempts[e]
  <2>1. n \in Nat /\ attempts \in [1..n -> Counts] /\ 0 \in Counts
    BY <1>3, <1>6 DEF n, Counts
  <2> QED
    BY ONLY <2>1, Appended
<1> QED
  BY <1>3, <1>4, <1>5, <1>6, <1>7, <1>8 DEF n, first, Marks, Counts

LEMMA TransitionTypes ==
    ASSUME LTypes, NEW to \in {RUN, IDLE, ALARM}, NEW at \in 1..MaxTime,
           NEW zone \in Zones, Transition(to, at, zone)
    PROVE  LTypes'
<1>1. UNCHANGED <<cursor, raised, pc, found, downtime, losses, faults>>
  BY DEF Transition, tables
<1>2. Typed'
  BY <1>1, LogGrows DEF LTypes, Typed
<1>3. InHand'
  BY <1>1, LogGrows DEF LTypes, Typed, InHand, Leaves, Enters
<1>4. BackRefs'
  <2>1. \A e \in Pending' : e \in Pending \/ e = Len(history) + 1
    BY LogGrows, EventNumbers DEF LTypes, Pending
  <2>2. \A e \in Pending' : attempts'[e] < MAX_ATTEMPTS
    <3>1. ASSUME NEW e \in Pending PROVE attempts'[e] < MAX_ATTEMPTS
      BY LogGrows DEF LTypes, BackRefs, Pending
    <3>2. attempts'[Len(history) + 1] < MAX_ATTEMPTS
      BY LogGrows, Numbers DEF LTypes
    <3> QED
      BY <2>1, <3>1, <3>2
  <2>3. /\ \A i \in DOMAIN downtime' : downtime'[i].corr \in Events'
        /\ \A i \in DOMAIN losses' : losses'[i].corr \in Events'
    BY <1>1, LogGrows DEF LTypes, BackRefs
  <2> QED
    BY <2>2, <2>3 DEF BackRefs
<1> QED
  BY <1>2, <1>3, <1>4 DEF LTypes

LEMMA PublishTypes ==
    ASSUME LTypes, Publish
    PROVE  LTypes'
<1>1. cursor' \in Ahead /\ pc' = Branch(history[cursor']) /\ raised' = FALSE
      /\ UNCHANGED <<history, status, attempts, found, downtime, losses, faults>>
  BY NextIsAhead DEF Publish, tables, LTypes
<1>2. Events' = Events /\ Pending' = Pending /\ cursor' \in Pending /\ cursor' \in Events
  BY <1>1 DEF Events, Pending, Ahead
<1>3. Typed'
  BY <1>1, <1>2 DEF LTypes, Typed, Branch, Steps
<1>4. InHand'
  BY <1>1, <1>2 DEF InHand, Branch, Leaves, Enters, Pending
<1>5. BackRefs'
  BY <1>1, <1>2 DEF LTypes, BackRefs
<1> QED
  BY <1>3, <1>4, <1>5 DEF LTypes

\* The relay begins anew, in this process or the next.
LEMMA AnewTypes ==
    ASSUME LTypes, cursor' = 0, pc' = "idle", raised' = FALSE,
           found' \in {NoRow, found}, faults' \in 0..MaxFaults,
           UNCHANGED <<history, status, attempts, downtime, losses>>
    PROVE  LTypes'
<1>1. Events' = Events /\ Pending' = Pending
  BY DEF Events, Pending
<1> QED
  BY <1>1 DEF LTypes, Typed, InHand, BackRefs, Steps

\* The handler is through with its tables.
LEMMA RaiseTypes ==
    ASSUME LTypes, pc # "idle", pc' = "others", raised' \in BOOLEAN,
           faults' \in 0..MaxFaults,
           UNCHANGED <<history, status, attempts, cursor, found, downtime, losses>>
    PROVE  LTypes'
<1>1. Events' = Events /\ Pending' = Pending
  BY DEF Events, Pending
<1> QED
  BY <1>1 DEF LTypes, Typed, InHand, BackRefs, Steps

\* The row a stop opens.
LEMMA RowOpens ==
    ASSUME LTypes, pc = "opening", downtime' = Append(downtime, DowntimeRow(cursor))
    PROVE  /\ downtime' \in Seq(Rows)
           /\ DOMAIN downtime' = 1..(Len(downtime) + 1)
           /\ \A i \in DOMAIN downtime : i \in DOMAIN downtime' /\ downtime'[i] = downtime[i]
           /\ downtime'[Len(downtime) + 1].corr = cursor
           /\ downtime'[Len(downtime) + 1].end = Open
<1>1. DowntimeRow(cursor) \in Rows
  <2>1. cursor \in Events /\ history[cursor] \in Transitions
        /\ Leaves(history[cursor]) /\ cursor \in Nat
    BY EventNumbers DEF LTypes, InHand
  <2> QED
    BY <2>1 DEF DowntimeRow, Rows, Transitions, Leaves
<1>2. DowntimeRow(cursor).corr = cursor /\ DowntimeRow(cursor).end = Open
  BY DEF DowntimeRow
<1>3. downtime \in Seq(Rows)
  BY DEF LTypes, Typed
<1> QED
  BY <1>1, <1>2, <1>3

LEMMA OpenRowTypes ==
    ASSUME LTypes, OpenRow
    PROVE  LTypes'
<1>1. pc = "opening" /\ UNCHANGED <<history, status, attempts, cursor, found>>
  BY DEF OpenRow
<1>2. CASE Fault /\ Raise
  BY <1>1, <1>2, FaultCounts, RaiseTypes DEF Raise, tables, LTypes, Typed
<1>3. CASE /\ downtime' = Append(downtime, DowntimeRow(cursor))
           /\ pc' = "others" /\ UNCHANGED <<losses, raised, faults>>
  <2>1. Events' = Events /\ Pending' = Pending
    BY <1>1 DEF Events, Pending
  <2>2. /\ downtime' \in Seq(Rows)
        /\ DOMAIN downtime' = 1..(Len(downtime) + 1)
        /\ \A i \in DOMAIN downtime : i \in DOMAIN downtime' /\ downtime'[i] = downtime[i]
        /\ downtime'[Len(downtime) + 1].corr = cursor
    BY <1>1, <1>3, RowOpens
  <2>3. Typed'
    BY <1>1, <1>3, <2>1, <2>2 DEF LTypes, Typed, Steps
  <2>4. InHand'
    BY <1>1, <1>3, <2>1 DEF LTypes, InHand
  <2>5. \A i \in DOMAIN downtime' : i \in DOMAIN downtime \/ i = Len(downtime) + 1
    BY <2>2, EventNumbers DEF LTypes
  <2>6. \A i \in DOMAIN downtime' : downtime'[i].corr \in Events'
    BY <1>1, <2>1, <2>2, <2>5 DEF LTypes, BackRefs, InHand
  <2>7. BackRefs'
    BY <1>1, <1>3, <2>1, <2>6 DEF LTypes, BackRefs
  <2> QED
    BY <2>3, <2>4, <2>7 DEF LTypes
<1> QED
  BY <1>2, <1>3 DEF OpenRow

\* get_open returns an open row, or none.
LEMMA GetOpen ==
    ASSUME LTypes
    PROVE  /\ get_open # NoRow => get_open \in OpenRows
           /\ get_open = NoRow => OpenRows = {}
<1> DEFINE Last(S, i) == \A j \in S : \/ downtime[j].start < downtime[i].start
                                      \/ downtime[j].start = downtime[i].start /\ j <= i
<1>1. ASSUME OpenRows # {} PROVE \E i \in OpenRows : Last(OpenRows, i)
  <2> DEFINE starts == {downtime[j].start : j \in OpenRows}
             late(x) == MaxTime - x
             Back    == {late(x) : x \in starts}
  <2>1. \A j \in OpenRows : downtime[j].start \in 1..MaxTime /\ j \in 1..Len(downtime)
    BY EventNumbers DEF LTypes, OpenRows, Rows
  <2>2. Back \in SUBSET Nat /\ Back # {}
    BY <2>1, <1>1, Numbers
  <2>3. PICK b \in Back : \A c \in Back : b <= c
    BY <2>2, LeastNatural
  <2>4. PICK k \in OpenRows : b = MaxTime - downtime[k].start
    BY <2>3
  <2>5. \A j \in OpenRows : downtime[j].start <= downtime[k].start
    <3>1. ASSUME NEW j \in OpenRows PROVE b <= MaxTime - downtime[j].start
      BY <2>3
    <3> QED
      BY <2>1, <2>4, <3>1, Numbers
  <2> DEFINE Tied  == {j \in OpenRows : downtime[j].start = downtime[k].start}
             Front == {Len(downtime) - j : j \in Tied}
  <2>6. Front \in SUBSET Nat /\ Front # {}
    BY <2>1, EventNumbers DEF LTypes
  <2>7. PICK d \in Front : \A c \in Front : d <= c
    BY <2>6, LeastNatural
  <2>8. PICK i \in Tied : d = Len(downtime) - i
    BY <2>7
  <2>9. \A j \in Tied : j <= i
    <3>1. ASSUME NEW j \in Tied PROVE d <= Len(downtime) - j
      BY <2>7
    <3> QED
      BY <2>1, <2>8, <3>1, EventNumbers DEF LTypes
  <2>10. Last(OpenRows, i)
    BY <2>1, <2>5, <2>8, <2>9
  <2> QED
    BY <2>8, <2>10
<1>2. CASE OpenRows = {}
  BY <1>2 DEF get_open
<1>3. CASE OpenRows # {}
  <2>1. get_open = CHOOSE i \in OpenRows : Last(OpenRows, i)
    BY <1>3 DEF get_open
  <2>2. get_open \in OpenRows
    BY <1>1, <1>3, <2>1
  <2>3. NoRow \notin OpenRows
    BY EventNumbers DEF LTypes, OpenRows, NoRow
  <2> QED
    BY <2>2, <2>3
<1> QED
  BY <1>2, <1>3

LEMMA LookUpTypes ==
    ASSUME LTypes, LookUp
    PROVE  LTypes'
<1>1. pc = "looking" /\ UNCHANGED <<history, status, attempts, cursor>>
  BY DEF LookUp
<1>2. Events' = Events /\ Pending' = Pending
  BY <1>1 DEF Events, Pending
<1>3. ASSUME Raise, found' = found, faults' \in 0..MaxFaults PROVE LTypes'
  BY <1>1, <1>3, RaiseTypes DEF Raise, tables
<1>4. CASE /\ found' = get_open
           /\ pc' = IF get_open = NoRow THEN "others" ELSE "closing"
           /\ UNCHANGED <<tables, raised, faults>>
  <2>1. /\ found' \in {NoRow} \cup OpenRows
        /\ pc' = "closing" => found' \in OpenRows
        /\ pc' \in {"others", "closing"}
    BY <1>4, GetOpen
  <2>2. OpenRows \subseteq DOMAIN downtime /\ \A i \in OpenRows : downtime[i].end = Open
    BY DEF OpenRows
  <2>3. ~raised
    BY <1>1 DEF LTypes, InHand
  <2>4. Typed'
    BY <1>1, <1>2, <1>4, <2>1, <2>2 DEF LTypes, Typed, Steps, tables
  <2>5. InHand'
    BY <1>1, <1>2, <1>4, <2>1, <2>2, <2>3 DEF LTypes, InHand, tables
  <2>6. BackRefs'
    BY <1>1, <1>2, <1>4 DEF LTypes, BackRefs, tables
  <2> QED
    BY <2>4, <2>5, <2>6 DEF LTypes
<1>5. faults \in 0..MaxFaults
  BY DEF LTypes, Typed
<1> QED
  BY <1>3, <1>4, <1>5, FaultCounts DEF LookUp

\* The row a return closes.
LEMMA RowCloses ==
    ASSUME LTypes, pc = "closing",
           downtime' = [downtime EXCEPT
               ![found].end = Current.at,
               ![found].lost = Lost(downtime[found].start, Current.at)]
    PROVE  /\ downtime' \in Seq(Rows) /\ DOMAIN downtime' = DOMAIN downtime
           /\ \A i \in DOMAIN downtime : i # found => downtime'[i] = downtime[i]
           /\ \A i \in DOMAIN downtime : downtime'[i].corr = downtime[i].corr
           /\ found \in DOMAIN downtime /\ downtime'[found].end = history[cursor].at
           /\ downtime'[found].end # Open
           /\ downtime'[found].start = downtime[found].start
           /\ downtime'[found].reason = downtime[found].reason
           /\ downtime'[found].lost = Lost(downtime[found].start, history[cursor].at)
<1> DEFINE row == downtime[found]
           new == [row EXCEPT !.end = Current.at, !.lost = Lost(row.start, Current.at)]
<1>1. found \in DOMAIN downtime /\ row \in Rows /\ downtime \in Seq(Rows)
  BY EventNumbers DEF LTypes, InHand, Typed
<1>2. Current.at \in 1..MaxTime /\ Current = history[cursor]
  BY EventNumbers DEF LTypes, InHand, Current, Transitions
<1>3. Lost(row.start, Current.at) \in Nat
  BY <1>1, <1>2, LostIsANumber DEF Rows
<1>4. /\ new \in Rows /\ new.corr = row.corr /\ new.end = Current.at
      /\ new.start = row.start /\ new.reason = row.reason
      /\ new.lost = Lost(row.start, Current.at)
  BY <1>1, <1>2, <1>3 DEF Rows
<1>5. downtime' = [downtime EXCEPT ![found] = new]
  BY <1>1
<1>6. Current.at # Open
  BY <1>2, Numbers DEF Open
<1> HIDE DEF new, row
<1>7. /\ downtime' \in Seq(Rows) /\ DOMAIN downtime' = DOMAIN downtime
      /\ downtime'[found] = new
      /\ \A i \in DOMAIN downtime : i # found => downtime'[i] = downtime[i]
  <2>1. /\ [downtime EXCEPT ![found] = new] \in Seq(Rows)
        /\ DOMAIN [downtime EXCEPT ![found] = new] = DOMAIN downtime
        /\ [downtime EXCEPT ![found] = new][found] = new
        /\ \A i \in DOMAIN downtime : i # found =>
              [downtime EXCEPT ![found] = new][i] = downtime[i]
    BY ONLY <1>1, <1>4, Replaced, Zenon
  <2> QED
    BY <1>5, <2>1
<1>8. \A i \in DOMAIN downtime : downtime'[i].corr = downtime[i].corr
  BY <1>4, <1>7 DEF row
<1> QED
  BY <1>1, <1>2, <1>4, <1>6, <1>7, <1>8 DEF row

LEMMA CloseRowTypes ==
    ASSUME LTypes, CloseRow
    PROVE  LTypes'
<1>1. pc = "closing" /\ UNCHANGED <<history, status, attempts, cursor, found>>
  BY DEF CloseRow
<1>2. CASE Fault /\ Raise
  BY <1>1, <1>2, FaultCounts, RaiseTypes DEF Raise, tables, LTypes, Typed
<1>3. CASE /\ downtime' = [downtime EXCEPT
                  ![found].end = Current.at,
                  ![found].lost = Lost(downtime[found].start, Current.at)]
           /\ pc' = "charging" /\ UNCHANGED <<losses, raised, faults>>
  <2>1. Events' = Events /\ Pending' = Pending
    BY <1>1 DEF Events, Pending
  <2>2. /\ downtime' \in Seq(Rows) /\ DOMAIN downtime' = DOMAIN downtime
        /\ \A i \in DOMAIN downtime : downtime'[i].corr = downtime[i].corr
        /\ found \in DOMAIN downtime
    BY <1>1, <1>3, RowCloses
  <2>3. ~raised
    BY <1>1 DEF LTypes, InHand
  <2>4. Typed'
    BY <1>1, <1>3, <2>1, <2>2 DEF LTypes, Typed, Steps
  <2>5. InHand'
    BY <1>1, <1>3, <2>1, <2>2, <2>3 DEF LTypes, InHand
  <2>6. BackRefs'
    BY <1>1, <1>3, <2>1, <2>2 DEF LTypes, BackRefs
  <2> QED
    BY <2>4, <2>5, <2>6 DEF LTypes
<1> QED
  BY <1>2, <1>3 DEF CloseRow

\* The losses after a charge: as before, or one more, for the row in hand.
LEMMA ChargeMay ==
    ASSUME LTypes, Charge
    PROVE  /\ pc = "charging" /\ pc' = "others" /\ raised' \in BOOLEAN
           /\ faults' \in 0..MaxFaults
           /\ UNCHANGED <<history, status, attempts, cursor, found, downtime>>
           /\ \/ losses' = losses
              \/ /\ downtime[found].lost # 0
                 /\ losses' = Append(losses, [corr |-> cursor,
                                              qty |-> downtime[found].lost])
<1>1. raised \in BOOLEAN /\ faults \in 0..MaxFaults
  BY DEF LTypes, Typed
<1>2. downtime[found].lost > 0 => downtime[found].lost # 0
  <2>1. pc = "charging"
    BY DEF Charge
  <2>2. downtime[found].lost \in Nat
    BY <2>1, EventNumbers DEF LTypes, InHand, Rows
  <2> QED
    BY <2>2
<1>3. faults' \in 0..MaxFaults /\ raised' \in BOOLEAN
  BY <1>1, FaultCounts DEF Charge
<1>4. \/ UNCHANGED <<losses, charged>>
      \/ RecordLoss /\ downtime[found].lost > 0
  BY DEF Charge
<1>5. /\ pc = "charging" /\ pc' = "others"
      /\ UNCHANGED <<history, status, attempts, cursor, found, downtime>>
  BY DEF Charge
<1> QED
  BY <1>2, <1>3, <1>4, <1>5 DEF RecordLoss

LEMMA ChargeAppends ==
    ASSUME LTypes, pc = "charging", downtime[found].lost # 0,
           losses' = Append(losses, [corr |-> cursor, qty |-> downtime[found].lost])
    PROVE  /\ losses' \in Seq(Charges) /\ DOMAIN losses' = 1..(Len(losses) + 1)
           /\ \A i \in DOMAIN losses : i \in DOMAIN losses' /\ losses'[i] = losses[i]
           /\ losses'[Len(losses) + 1].qty = downtime[found].lost
           /\ losses'[Len(losses) + 1].corr = cursor
<1> DEFINE row == [corr |-> cursor, qty |-> downtime[found].lost]
<1>1. /\ found \in DOMAIN downtime /\ downtime[found] \in Rows
      /\ cursor \in Nat
  BY EventNumbers DEF LTypes, InHand
<1>2. row \in Charges /\ row.qty = downtime[found].lost /\ row.corr = cursor
  BY <1>1 DEF Charges, Rows
<1>3. losses \in Seq(Charges) /\ losses' = Append(losses, row)
  BY DEF LTypes, Typed
<1> HIDE DEF row
<1> QED
  BY <1>2, <1>3

LEMMA ChargeTypes ==
    ASSUME LTypes, Charge
    PROVE  LTypes'
<1>1. CASE losses' = losses
  BY <1>1, ChargeMay, RaiseTypes
<1>2. CASE losses' # losses
  <2>1. /\ losses' \in Seq(Charges) /\ DOMAIN losses' = 1..(Len(losses) + 1)
        /\ \A i \in DOMAIN losses : i \in DOMAIN losses' /\ losses'[i] = losses[i]
        /\ losses'[Len(losses) + 1].corr = cursor
    BY <1>2, ChargeMay, ChargeAppends
  <2>2. Events' = Events /\ Pending' = Pending
    BY ChargeMay DEF Events, Pending
  <2>3. Typed'
    BY <2>1, <2>2, ChargeMay DEF LTypes, Typed, Steps
  <2>4. InHand'
    BY <2>2, ChargeMay DEF LTypes, InHand
  <2>5. \A i \in DOMAIN losses' : i \in DOMAIN losses \/ i = Len(losses) + 1
    BY <2>1, EventNumbers DEF LTypes
  <2>6. \A i \in DOMAIN losses' : losses'[i].corr \in Events'
    BY <2>1, <2>2, <2>5, ChargeMay DEF LTypes, BackRefs, InHand
  <2>7. BackRefs'
    BY <2>2, <2>6, ChargeMay DEF LTypes, BackRefs
  <2> QED
    BY <2>3, <2>4, <2>7 DEF LTypes
<1> QED
  BY <1>1, <1>2

\* The row in hand is dispatched, or a failed publish of it is counted.
LEMMA CountFailureMay ==
    ASSUME LTypes, pc = "others", CountFailure
    PROVE  /\ attempts' \in [Events -> 0..MAX_ATTEMPTS]
           /\ status' \in [Events -> {"pending", "dispatched", "dead"}]
           /\ attempts'[cursor] > 0
           /\ \A e \in Events \ {cursor} : attempts'[e] = attempts[e]
           /\ \A e \in Events \ {cursor} : status'[e] = status[e]
           /\ status'[cursor] = "pending" => attempts'[cursor] < MAX_ATTEMPTS
           /\ status'[cursor] # "dispatched"
           /\ cursor' = cursor
<1>1. /\ cursor \in Events /\ status[cursor] = "pending"
      /\ attempts[cursor] \in 0..MAX_ATTEMPTS /\ attempts[cursor] < MAX_ATTEMPTS
      /\ attempts \in [Events -> 0..MAX_ATTEMPTS]
      /\ status \in [Events -> {"pending", "dispatched", "dead"}]
  BY DEF LTypes, InHand, Typed, BackRefs, Pending
<1>2. /\ attempts' = [attempts EXCEPT ![cursor] = @ + 1] /\ cursor' = cursor
      /\ status' = IF attempts'[cursor] >= MAX_ATTEMPTS
                   THEN [status EXCEPT ![cursor] = "dead"] ELSE status
  BY DEF CountFailure
<1>3. /\ attempts' \in [Events -> 0..MAX_ATTEMPTS]
      /\ attempts'[cursor] = attempts[cursor] + 1
      /\ \A e \in Events \ {cursor} : attempts'[e] = attempts[e]
  BY <1>1, <1>2, Numbers
<1>4. CASE attempts'[cursor] >= MAX_ATTEMPTS
  BY <1>1, <1>2, <1>3, <1>4, Numbers
<1>5. CASE ~(attempts'[cursor] >= MAX_ATTEMPTS)
  BY <1>1, <1>2, <1>3, <1>5, Numbers
<1> QED
  BY <1>4, <1>5

LEMMA DispatchMay ==
    ASSUME LTypes, pc = "others", Dispatch
    PROVE  /\ status' \in [Events -> {"pending", "dispatched", "dead"}]
           /\ attempts' = attempts /\ cursor' = cursor
           /\ status'[cursor] = "dispatched"
           /\ \A e \in Events \ {cursor} : status'[e] = status[e]
BY DEF Dispatch, LTypes, InHand, Typed

\* A settled row leaves everything else as it was.
LEMMA SettleCases ==
    ASSUME LTypes, Settle
    PROVE  /\ pc = "others" /\ pc' = "idle" /\ raised' = FALSE /\ found' = NoRow
           /\ faults' \in 0..MaxFaults /\ UNCHANGED <<history, downtime, losses>>
           /\ \/ ~raised /\ Dispatch
              \/ CountFailure
              \/ cursor' = 0 /\ UNCHANGED <<status, attempts>>
<1>1. faults \in 0..MaxFaults
  BY DEF LTypes, Typed
<1> QED
  BY <1>1, FaultCounts DEF Settle, tables

LEMMA SettleTypes ==
    ASSUME LTypes, Settle
    PROVE  LTypes'
<1>1. CASE cursor' = 0 /\ UNCHANGED <<status, attempts>>
  BY <1>1, SettleCases, AnewTypes
<1>2. CASE Dispatch \/ CountFailure
  <2>1. Events' = Events
    BY SettleCases DEF Events
  <2>2. /\ status' \in [Events -> {"pending", "dispatched", "dead"}]
        /\ attempts' \in [Events -> 0..MAX_ATTEMPTS]
        /\ cursor' = cursor
        /\ \A e \in Events : status'[e] = "pending" => attempts'[e] < MAX_ATTEMPTS
    <3>1. /\ attempts \in [Events -> 0..MAX_ATTEMPTS]
          /\ \A e \in Events : status[e] = "pending" => attempts[e] < MAX_ATTEMPTS
      BY DEF LTypes, Typed, BackRefs, Pending
    <3>2. CASE Dispatch
      BY <3>1, <3>2, SettleCases, DispatchMay
    <3>3. CASE CountFailure
      BY <3>1, <3>3, SettleCases, CountFailureMay
    <3> QED
      BY <1>2, <3>2, <3>3
  <2>3. Typed'
    BY <2>1, <2>2, SettleCases DEF LTypes, Typed, Steps
  <2>4. InHand'
    BY SettleCases DEF InHand
  <2>5. BackRefs'
    BY <2>1, <2>2, SettleCases DEF LTypes, BackRefs, Pending
  <2> QED
    BY <2>3, <2>4, <2>5 DEF LTypes
<1> QED
  BY <1>1, <1>2, SettleCases

LEMMA LTypesStep ==
    ASSUME LTypes, [Next]_vars
    PROVE  LTypes'
<1>1. CASE UNCHANGED vars
  <2>1. Events' = Events /\ Pending' = Pending
    BY <1>1 DEF vars, relayVars, tables, Events, Pending
  <2> QED
    BY <1>1, <2>1 DEF vars, relayVars, tables, LTypes, Typed, InHand, BackRefs
<1>2. CASE NextDrain
  <2>1. pc = "idle" /\ ~raised /\ faults \in 0..MaxFaults
    BY <1>2 DEF NextDrain, LTypes, InHand, Typed
  <2> QED
    BY <1>2, <2>1, AnewTypes DEF NextDrain, tables, LTypes, Typed
<1>3. CASE Restart
  <2>1. faults \in 0..MaxFaults
    BY DEF LTypes, Typed
  <2> QED
    BY <1>3, <2>1, AnewTypes, FaultCounts DEF Restart, tables
<1> QED
  BY <1>1, <1>2, <1>3, TransitionTypes, PublishTypes, OpenRowTypes, LookUpTypes,
     CloseRowTypes, ChargeTypes, SettleTypes DEF Next, Relay, on_state_changed

LEMMA LedgerStarts ==
    ASSUME Init
    PROVE  LTypes
<1>1. history = <<>> /\ status = <<>> /\ attempts = <<>> /\ downtime = <<>> /\ losses = <<>>
  BY DEF Init
<1>2. /\ history \in Seq(Transitions) /\ Events = {} /\ DOMAIN downtime = {}
      /\ downtime \in Seq(Rows) /\ losses \in Seq(Charges) /\ DOMAIN losses = {}
  BY <1>1 DEF Events
<1>3. /\ status \in [Events -> {"pending", "dispatched", "dead"}]
      /\ attempts \in [Events -> 0..MAX_ATTEMPTS]
  BY <1>1, <1>2
<1>4. Typed
  <2>1. cursor = 0 /\ found = NoRow /\ raised = FALSE
    BY DEF Init
  <2>2. pc \in Steps
    BY DEF Init, Steps
  <2>3. faults \in 0..MaxFaults
    BY Numbers DEF Init
  <2> QED
    BY <1>2, <1>3, <2>1, <2>2, <2>3 DEF Typed
<1>5. InHand /\ BackRefs
  BY <1>2 DEF Init, InHand, BackRefs, Pending
<1> QED
  BY <1>4, <1>5 DEF LTypes

\* The strengthened typing holds for any number of transitions and failures.
THEOREM LedgerTypesAlways == Spec => []LTypes
BY LedgerStarts, LTypesStep, PTL DEF Spec

-----------------------------------------------------------------------------
(* Rows and log.                                                           *)

HasRow(e) == \E i \in DOMAIN downtime : downtime[i].corr = e

\* The walk goes on from a row only when it is settled, or its publish failed.
Walked ==
    /\ \A e \in Pending : e < cursor => attempts[e] > 0
    /\ pc = "idle" /\ cursor \in Pending => attempts[cursor] > 0
    /\ \A i \in DOMAIN downtime, e \in Pending :
          e < downtime[i].corr => attempts[e] > 0

\* A row goes back to a stop; a stop the handler is through with has a row.
Rowed ==
    /\ \A i \in DOMAIN downtime : Leaves(history[downtime[i].corr])
    /\ \A e \in Events : status[e] = "dispatched" /\ Leaves(history[e]) => HasRow(e)
    /\ pc = "others" /\ ~raised /\ Leaves(history[cursor]) => HasRow(cursor)

RInv == LTypes /\ Walked /\ Rowed

LEMMA NotBoth ==
    ASSUME NEW ev
    PROVE  ~(Leaves(ev) /\ Enters(ev))
BY DEF Leaves, Enters, RUN, ALARM, IDLE

\* A step that only moves the relay and the handler.
LEMMA StillRows ==
    ASSUME RInv, UNCHANGED <<history, status, attempts, downtime>>,
           \A e \in Pending : e < cursor' => attempts[e] > 0,
           pc' = "idle" /\ cursor' \in Pending => attempts[cursor'] > 0,
           pc' = "others" /\ ~raised' /\ Leaves(history[cursor']) => HasRow(cursor')
    PROVE  (Walked /\ Rowed)'
<1>1. Events' = Events /\ Pending' = Pending /\ \A e : HasRow(e)' = HasRow(e)
  BY DEF Events, Pending, HasRow
<1> QED
  BY <1>1 DEF RInv, Walked, Rowed

LEMMA AnewRows ==
    ASSUME RInv, UNCHANGED <<history, status, attempts, downtime>>,
           cursor' = 0, pc' = "idle"
    PROVE  (Walked /\ Rowed)'
<1>1. \A e \in Pending : e \in Nat \ {0}
  BY EventNumbers DEF RInv, LTypes, Pending
<1>2. (\A e \in Pending : ~(e < cursor')) /\ cursor' \notin Pending
  BY <1>1
<1>3. pc' # "others"
  OBVIOUS
<1> QED
  BY <1>2, <1>3, StillRows

LEMMA TransitionRows ==
    ASSUME RInv, NEW to \in {RUN, IDLE, ALARM}, NEW at \in 1..MaxTime,
           NEW zone \in Zones, Transition(to, at, zone)
    PROVE  (Walked /\ Rowed)'
<1>1. UNCHANGED <<cursor, raised, pc, downtime>>
  BY DEF Transition, tables
<1> DEFINE new == Len(history) + 1
<1>2. /\ \A e \in Events : e \in Events' /\ history'[e] = history[e]
                           /\ status'[e] = status[e] /\ attempts'[e] = attempts[e]
      /\ status'[new] = "pending"
      /\ \A e \in Events' : e \in Events \/ e = new
      /\ \A e \in Events : e < new /\ e \in Nat
      /\ new \in Nat
  BY LogGrows, EventNumbers DEF RInv, LTypes
<1> HIDE DEF new
<1>3. cursor \in {0} \cup Events /\ cursor < new /\ cursor \in Nat
  BY <1>2, EventNumbers DEF RInv, LTypes, Typed, new
<1>4. \A i \in DOMAIN downtime : downtime[i].corr \in Events
  BY DEF RInv, LTypes, BackRefs
<1>5. \A e \in Pending' : e \in Pending \/ e = new
  BY <1>2 DEF Pending
<1>6. Walked'
  <2>1. \A e \in Pending' : e < cursor' => attempts'[e] > 0
    BY <1>1, <1>2, <1>3, <1>5 DEF RInv, Walked, Pending
  <2>2. pc' = "idle" /\ cursor' \in Pending' => attempts'[cursor'] > 0
    BY <1>1, <1>2, <1>3, <1>5 DEF RInv, Walked, Pending
  <2>3. \A i \in DOMAIN downtime, e \in Pending' :
            e < downtime[i].corr => attempts'[e] > 0
    BY <1>2, <1>4, <1>5 DEF RInv, Walked, Pending
  <2> QED
    BY <1>1, <2>1, <2>2, <2>3 DEF Walked
<1>7. Rowed'
  <2>1. \A e : HasRow(e)' = HasRow(e)
    BY <1>1 DEF HasRow
  <2>2. \A i \in DOMAIN downtime : Leaves(history'[downtime[i].corr])
    BY <1>2, <1>4 DEF RInv, Rowed
  <2>4. \A e \in Events' : status'[e] = "dispatched" /\ Leaves(history'[e]) => HasRow(e)
    BY <1>2 DEF RInv, Rowed
  <2>5. pc = "others" /\ ~raised => cursor \in Events
    BY DEF RInv, LTypes, InHand
  <2>6. pc' = "others" /\ ~raised' /\ Leaves(history'[cursor']) => HasRow(cursor')
    BY <1>1, <1>2, <2>5 DEF RInv, Rowed
  <2> QED
    BY <1>1, <2>1, <2>2, <2>4, <2>6 DEF Rowed
<1> QED
  BY <1>6, <1>7

LEMMA PublishRows ==
    ASSUME RInv, Publish
    PROVE  (Walked /\ Rowed)'
<1>1. /\ pc = "idle" /\ cursor' \in Ahead /\ \A f \in Ahead : cursor' <= f
      /\ pc' = Branch(history[cursor'])
      /\ UNCHANGED <<history, status, attempts, downtime>>
  BY NextIsAhead DEF Publish, tables, RInv, LTypes
<1>2. \A e \in Pending : e < cursor' => attempts[e] > 0
  <2> SUFFICES ASSUME NEW e \in Pending, e < cursor' PROVE attempts[e] > 0
    OBVIOUS
  <2>1. /\ e \in Nat /\ cursor \in Nat /\ cursor' \in Nat
    BY <1>1, EventNumbers DEF RInv, LTypes, Typed, Pending, Ahead
  <2>2. ~(e > cursor)
    BY <1>1, <2>1 DEF Ahead
  <2>3. e < cursor \/ e = cursor
    BY <2>1, <2>2
  <2> QED
    BY <1>1, <2>3 DEF RInv, Walked
<1>3. pc' # "idle" /\ (pc' = "others" => ~Leaves(history[cursor']))
  BY <1>1 DEF Branch
<1> QED
  BY <1>1, <1>2, <1>3, StillRows

\* The handler raises, or is through with an event that opens no row.
LEMMA RaiseRows ==
    ASSUME RInv, UNCHANGED <<history, status, attempts, downtime, cursor>>,
           pc # "idle", pc' # "idle",
           pc' = "others" /\ ~raised' => ~Leaves(history[cursor])
    PROVE  (Walked /\ Rowed)'
<1>1. \A e \in Pending : e < cursor' => attempts[e] > 0
  BY DEF RInv, Walked
<1> QED
  BY <1>1, StillRows

LEMMA OpenRowRows ==
    ASSUME RInv, OpenRow
    PROVE  (Walked /\ Rowed)'
<1>1. pc = "opening" /\ UNCHANGED <<history, status, attempts, cursor, found>>
  BY DEF OpenRow
<1>2. CASE Fault /\ Raise
  BY <1>1, <1>2, RaiseRows DEF Raise, tables
<1>3. CASE /\ downtime' = Append(downtime, DowntimeRow(cursor))
           /\ pc' = "others" /\ UNCHANGED <<losses, raised, faults>>
  <2> DEFINE new == Len(downtime) + 1
  <2>1. Events' = Events /\ Pending' = Pending
    BY <1>1 DEF Events, Pending
  <2>2. /\ \A i \in DOMAIN downtime : i \in DOMAIN downtime' /\ downtime'[i] = downtime[i]
        /\ downtime'[new].corr = cursor /\ downtime'[new].end = Open
        /\ new \in DOMAIN downtime'
        /\ \A i \in DOMAIN downtime' : i \in DOMAIN downtime \/ i = new
    BY <1>1, <1>3, RowOpens, EventNumbers DEF RInv, LTypes
  <2> HIDE DEF new
  <2>3. Leaves(history[cursor])
    BY <1>1 DEF RInv, LTypes, InHand
  <2>4. \A e : HasRow(e) => HasRow(e)'
    BY <2>2 DEF HasRow
  <2>5. HasRow(cursor)'
    BY <1>1, <2>2 DEF HasRow
  <2>6. Walked'
    <3>1. \A i \in DOMAIN downtime', e \in Pending :
              e < downtime'[i].corr => attempts[e] > 0
      BY <2>2 DEF RInv, Walked
    <3>2. \A e \in Pending : e < cursor => attempts[e] > 0
      BY DEF RInv, Walked
    <3> QED
      BY <1>1, <1>3, <2>1, <3>1, <3>2 DEF Walked
  <2>7. \A i \in DOMAIN downtime' : Leaves(history[downtime'[i].corr])
    BY <2>2, <2>3 DEF RInv, Rowed
  <2>9. \A e \in Events : status[e] = "dispatched" /\ Leaves(history[e]) => HasRow(e)'
    BY <2>4 DEF RInv, Rowed
  <2>10. Rowed'
    BY <1>1, <2>1, <2>7, <2>9, <2>5 DEF Rowed
  <2> QED
    BY <2>6, <2>10
<1> QED
  BY <1>2, <1>3 DEF OpenRow

LEMMA CloseRowRows ==
    ASSUME RInv, CloseRow
    PROVE  (Walked /\ Rowed)'
<1>1. pc = "closing" /\ UNCHANGED <<history, status, attempts, cursor, found>>
  BY DEF CloseRow
<1>2. CASE Fault /\ Raise
  BY <1>1, <1>2, RaiseRows DEF Raise, tables
<1>3. CASE /\ downtime' = [downtime EXCEPT
                  ![found].end = Current.at,
                  ![found].lost = Lost(downtime[found].start, Current.at)]
           /\ pc' = "charging" /\ UNCHANGED <<losses, raised, faults>>
  <2>1. Events' = Events /\ Pending' = Pending
    BY <1>1 DEF Events, Pending
  <2>2. /\ DOMAIN downtime' = DOMAIN downtime
        /\ \A i \in DOMAIN downtime : downtime'[i].corr = downtime[i].corr
    BY <1>1, <1>3, RowCloses DEF RInv
  <2>3. \A e : HasRow(e)' = HasRow(e)
    BY <2>2 DEF HasRow
  <2>4. Walked'
    BY <1>1, <1>3, <2>1, <2>2 DEF RInv, Walked
  <2>5. Rowed'
    BY <1>1, <1>3, <2>1, <2>2, <2>3 DEF RInv, Rowed
  <2> QED
    BY <2>4, <2>5
<1> QED
  BY <1>2, <1>3 DEF CloseRow

LEMMA SettleRows ==
    ASSUME RInv, Settle
    PROVE  (Walked /\ Rowed)'
<1>1. /\ pc = "others" /\ pc' = "idle" /\ UNCHANGED <<history, downtime>>
      /\ \/ ~raised /\ Dispatch
         \/ CountFailure
         \/ cursor' = 0 /\ UNCHANGED <<status, attempts>>
  BY SettleCases DEF RInv
<1>2. CASE cursor' = 0 /\ UNCHANGED <<status, attempts>>
  BY <1>1, <1>2, AnewRows
<1>3. CASE (~raised /\ Dispatch) \/ CountFailure
  <2>1. /\ Events' = Events /\ \A e : HasRow(e)' = HasRow(e)
    BY <1>1 DEF Events, HasRow
  <2>2. /\ cursor' = cursor /\ cursor \in Events
        /\ \A e \in Events \ {cursor} : status'[e] = status[e] /\ attempts'[e] = attempts[e]
        /\ attempts[cursor] > 0 => attempts'[cursor] > 0
        /\ status'[cursor] # "dispatched" => attempts'[cursor] > 0
        /\ status'[cursor] = "dispatched" => ~raised
    <3>1. cursor \in Events
      BY <1>1 DEF RInv, LTypes, InHand
    <3>2. CASE ~raised /\ Dispatch
      BY <1>1, <3>1, <3>2, DispatchMay DEF RInv
    <3>3. CASE CountFailure
      BY <1>1, <3>1, <3>3, CountFailureMay DEF RInv
    <3> QED
      BY <1>3, <3>2, <3>3
  <2>3. \A e \in Pending' : attempts'[e] > 0 \/ (e \in Pending /\ e # cursor)
    BY <2>1, <2>2 DEF Pending
  <2>4. \A e \in Events : attempts[e] > 0 => attempts'[e] > 0
    BY <2>2
  <2>5. Pending \subseteq Events
    BY DEF Pending
  <2>6. Walked'
    BY <1>1, <2>1, <2>2, <2>3, <2>4, <2>5 DEF RInv, Walked
  <2>7. \A e \in Events : status'[e] = "dispatched" /\ Leaves(history[e]) => HasRow(e)
    BY <1>1, <2>2 DEF RInv, Rowed
  <2>9. Rowed'
    BY <1>1, <2>1, <2>7 DEF RInv, Rowed
  <2> QED
    BY <2>6, <2>9
<1> QED
  BY <1>1, <1>2, <1>3

LEMMA RowsStep ==
    ASSUME RInv, [Next]_vars
    PROVE  RInv'
<1>1. LTypes'
  BY LTypesStep DEF RInv
<1>2. CASE UNCHANGED vars
  <2>1. /\ UNCHANGED <<history, status, attempts, downtime, cursor, pc, raised>>
    BY <1>2 DEF vars, relayVars, tables
  <2> QED
    BY <1>1, <2>1, StillRows DEF RInv, Walked, Rowed
<1>3. CASE NextDrain \/ Restart
  <2>1. UNCHANGED <<history, status, attempts, downtime>> /\ cursor' = 0 /\ pc' = "idle"
    BY <1>3 DEF NextDrain, Restart, tables
  <2> QED
    BY <1>1, <2>1, AnewRows DEF RInv
<1>4. CASE LookUp \/ Charge
  <2>1. /\ UNCHANGED <<history, status, attempts, downtime, cursor>>
        /\ pc \in {"looking", "charging"} /\ pc' # "idle"
    BY <1>4 DEF LookUp, Charge, Raise, tables
  <2>2. ~Leaves(history[cursor])
    BY <2>1, NotBoth DEF RInv, LTypes, InHand
  <2> QED
    BY <1>1, <2>1, <2>2, RaiseRows DEF RInv
<1> QED
  BY <1>1, <1>2, <1>3, <1>4, TransitionRows, PublishRows, OpenRowRows, CloseRowRows,
     SettleRows DEF RInv, Next, Relay, on_state_changed

LEMMA RowsStart ==
    ASSUME Init
    PROVE  RInv
<1>1. history = <<>> /\ downtime = <<>> /\ cursor = 0 /\ pc = "idle"
  BY DEF Init
<1>2. Events = {} /\ Pending = {} /\ DOMAIN downtime = {}
  BY <1>1 DEF Events, Pending
<1> QED
  BY <1>1, <1>2, LedgerStarts DEF RInv, Walked, Rowed

-----------------------------------------------------------------------------
(* Publishes, closes and charges.                                          *)

Closed == {i \in DOMAIN downtime : downtime[i].end # Open}

\* An event is published once, and once more for every failure.
Counting ==
    /\ runs \in [Events -> Nat]
    /\ \A e \in Events : runs[e] <= attempts[e] + faults + 1
    /\ \A e \in Pending : (pc # "idle" /\ cursor = e) \/ runs[e] <= attempts[e] + faults
    /\ pc # "idle" => runs[cursor] >= 1

\* A publish of a stop opens one row.
Opened ==
    /\ closer \in [DOMAIN downtime -> {0} \cup Events]
    /\ \A i \in DOMAIN downtime : runs[downtime[i].corr] >= 1
    /\ pc = "opening" => \A i \in DOMAIN downtime :
          downtime[i].corr = cursor => runs[cursor] > 1
    /\ \A i, j \in DOMAIN downtime :
          i # j /\ downtime[i].corr = downtime[j].corr => runs[downtime[i].corr] > 1

ClosedBy(i, e) ==
    /\ e \in Events /\ Enters(history[e]) /\ history[e].at = downtime[i].end
    /\ downtime[i].corr < e \/ attempts[e] > 0
    /\ runs[e] >= 1

\* A publish of a return closes one row.
ClosedOnce ==
    /\ \A i \in Closed : ClosedBy(i, closer[i])
    /\ pc \in {"looking", "closing"} =>
          \A i \in Closed : closer[i] = cursor => runs[cursor] > 1
    /\ pc = "charging" =>
          /\ found \in Closed /\ closer[found] = cursor
          /\ \A i \in Closed : closer[i] = cursor => i = found \/ runs[cursor] > 1
    /\ \A i, j \in Closed : i # j /\ closer[i] = closer[j] => runs[closer[i]] > 1

HasCharge(i) == \E j \in DOMAIN losses : charged[j] = i

\* A charge is of a closed row of its own, and the row about to be charged is
\* nobody's yet.
ChargedOnce ==
    /\ charged \in [DOMAIN losses -> DOMAIN downtime]
    /\ \A i \in DOMAIN losses : /\ charged[i] \in Closed
                                /\ downtime[charged[i]].lost = losses[i].qty
                                /\ closer[charged[i]] = losses[i].corr
    /\ \A i, j \in DOMAIN losses : i # j => charged[i] # charged[j]
    /\ pc = "charging" => ~HasCharge(found)

\* A return the handler is through with has charged what it closed.
ChargedAll ==
    /\ \A i \in Closed : downtime[i].lost > 0 =>
          HasCharge(i) \/ status[closer[i]] # "dispatched" \/ runs[closer[i]] > 1
    /\ pc = "others" /\ ~raised =>
          \A i \in Closed : downtime[i].lost > 0 /\ closer[i] = cursor =>
              HasCharge(i) \/ runs[cursor] > 1

HInv == RInv /\ Counting /\ Opened /\ ClosedOnce /\ ChargedOnce /\ ChargedAll

LEMMA CountingRange ==
    ASSUME HInv
    PROVE  /\ faults \in Nat
           /\ \A e \in Events : e \in Nat \ {0} /\ runs[e] \in Nat /\ attempts[e] \in Nat
           /\ Pending \subseteq Events
           /\ pc # "idle" => cursor \in Pending
           /\ \A i \in DOMAIN downtime : downtime[i].corr \in Events
<1>1. /\ faults \in Nat /\ runs \in [Events -> Nat] /\ Pending \subseteq Events
      /\ \A e \in Events : e \in Nat \ {0}
      /\ \A i \in DOMAIN downtime : downtime[i].corr \in Events
  BY Numbers, EventNumbers DEF HInv, RInv, LTypes, Typed, BackRefs, Counting, Pending
<1>2. attempts \in [Events -> 0..MAX_ATTEMPTS] /\ 0..MAX_ATTEMPTS \subseteq Nat
  BY Numbers DEF HInv, RInv, LTypes, Typed
<1>3. pc # "idle" => cursor \in Pending
  BY DEF HInv, RInv, LTypes, InHand, Pending
<1> QED
  BY <1>1, <1>2, <1>3

\* A step that publishes nothing and only may add failures.
LEMMA StillCounting ==
    ASSUME HInv, UNCHANGED <<history, status, attempts, runs>>,
           faults' \in Nat, faults' >= faults,
           pc' = "idle" => pc = "idle" \/ faults' > faults,
           pc' # "idle" => pc # "idle" /\ cursor' = cursor
    PROVE  Counting'
<1>1. Events' = Events /\ Pending' = Pending
  BY DEF Events, Pending
<1>2. \A e \in Events : runs[e] <= attempts[e] + faults' + 1
  BY CountingRange DEF HInv, Counting
<1>3. ASSUME NEW e \in Pending
      PROVE  (pc' # "idle" /\ cursor' = e) \/ runs[e] <= attempts[e] + faults'
  <2>1. e \in Events /\ runs[e] \in Nat /\ attempts[e] \in Nat /\ faults \in Nat
    BY CountingRange
  <2>2. CASE pc # "idle" /\ cursor = e /\ pc' = "idle"
    <3>1. runs[e] <= attempts[e] + faults + 1 /\ faults' >= faults + 1
      BY <2>1, <2>2 DEF HInv, Counting
    <3> QED
      BY <2>1, <3>1
  <2>3. CASE pc # "idle" /\ cursor = e /\ pc' # "idle"
    BY <2>3
  <2>4. CASE ~(pc # "idle" /\ cursor = e)
    <3>1. runs[e] <= attempts[e] + faults
      BY <2>4 DEF HInv, Counting
    <3> QED
      BY <2>1, <3>1
  <2> QED
    BY <2>2, <2>3, <2>4
<1>4. pc' # "idle" => runs[cursor'] >= 1
  BY DEF HInv, Counting
<1> QED
  BY <1>1, <1>2, <1>3, <1>4 DEF HInv, Counting

LEMMA FaultRises ==
    ASSUME HInv, Fault
    PROVE  faults' \in Nat /\ faults' > faults
BY CountingRange DEF Fault

LEMMA TransitionCounting ==
    ASSUME HInv, NEW to \in {RUN, IDLE, ALARM}, NEW at \in 1..MaxTime,
           NEW zone \in Zones, Transition(to, at, zone)
    PROVE  /\ Counting'
           /\ \A e \in Events : runs'[e] = runs[e]
<1> DEFINE n == Len(history)
<1>1. runs' = Append(runs, 0) /\ runs \in [1..n -> Nat] /\ n \in Nat
  BY EventNumbers DEF Transition, HInv, RInv, LTypes, Counting
<1>2. Events = 1..n /\ Events' = 1..(n + 1) /\ Typed
  BY LogGrows, EventNumbers DEF HInv, RInv, LTypes
<1>3. /\ status'[n + 1] = "pending" /\ attempts'[n + 1] = 0
      /\ \A e \in Events : status'[e] = status[e] /\ attempts'[e] = attempts[e]
  BY <1>2, LogGrows
<1> DEFINE Counts == Nat
<1> HIDE DEF n, Counts
<1>4. /\ Append(runs, 0) \in [1..(n + 1) -> Counts]
      /\ Append(runs, 0)[n + 1] = 0
      /\ \A e \in 1..n : Append(runs, 0)[e] = runs[e]
  <2>1. n \in Nat /\ runs \in [1..n -> Counts] /\ 0 \in Counts
    BY <1>1 DEF Counts
  <2> QED
    BY ONLY <2>1, Appended
<1>5. /\ runs' \in [Events' -> Nat] /\ runs'[n + 1] = 0
      /\ \A e \in Events : runs'[e] = runs[e]
  BY <1>1, <1>2, <1>4 DEF Counts
<1>6. UNCHANGED <<pc, cursor, faults>>
  BY DEF Transition
<1>7. \A e \in Events' : e \in Events \/ e = n + 1
  BY <1>1, <1>2
<1>8. \A e \in Events' : runs'[e] <= attempts'[e] + faults' + 1
  BY <1>3, <1>5, <1>6, <1>7, CountingRange DEF HInv, Counting
<1>9. \A e \in Pending' : (pc' # "idle" /\ cursor' = e) \/ runs'[e] <= attempts'[e] + faults'
  <2>1. ASSUME NEW e \in Pending', e \in Events
        PROVE  (pc' # "idle" /\ cursor' = e) \/ runs'[e] <= attempts'[e] + faults'
    <3>1. e \in Pending
      BY <1>3, <2>1 DEF Pending
    <3> QED
      BY <1>3, <1>5, <1>6, <2>1, <3>1 DEF HInv, Counting
  <2>2. runs'[n + 1] <= attempts'[n + 1] + faults'
    BY <1>3, <1>5, <1>6, CountingRange
  <2> QED
    BY <1>7, <2>1, <2>2 DEF Pending
<1>10. pc' # "idle" => runs'[cursor'] >= 1
  BY <1>5, <1>6, CountingRange DEF HInv, Counting
<1> QED
  BY <1>5, <1>8, <1>9, <1>10 DEF Counting

\* What a publish does to the counts.
LEMMA PublishCounts ==
    ASSUME HInv, Publish
    PROVE  /\ pc = "idle" /\ pc' # "idle" /\ cursor' \in Pending /\ cursor' \in Events
           /\ pc' = Branch(history[cursor']) /\ raised' = FALSE
           /\ UNCHANGED <<history, status, attempts, found, downtime, losses, faults,
                          closer, charged>>
           /\ Events' = Events /\ Pending' = Pending
           /\ runs' \in [Events -> Nat] /\ runs'[cursor'] = runs[cursor'] + 1
           /\ \A e \in Events : e # cursor' => runs'[e] = runs[e]
<1>1. /\ pc = "idle" /\ cursor' \in Ahead /\ pc' = Branch(history[cursor'])
      /\ raised' = FALSE /\ runs' = [runs EXCEPT ![cursor'] = @ + 1]
      /\ UNCHANGED <<history, status, attempts, found, downtime, losses, faults,
                     closer, charged>>
  BY NextIsAhead DEF Publish, tables, HInv, RInv, LTypes
<1>2. cursor' \in Pending /\ cursor' \in Events
  BY <1>1, CountingRange DEF Ahead
<1>3. runs \in [Events -> Nat]
  BY DEF HInv, Counting
<1>4. Events' = Events /\ Pending' = Pending
  BY <1>1 DEF Events, Pending
<1>5. pc' # "idle"
  BY <1>1 DEF Branch
<1> QED
  BY <1>1, <1>2, <1>3, <1>4, <1>5

LEMMA PublishCounting ==
    ASSUME HInv, Publish
    PROVE  Counting'
<1>1. \A e \in Events : runs'[e] <= attempts[e] + faults + 1
  <2> SUFFICES ASSUME NEW e \in Events PROVE runs'[e] <= attempts[e] + faults + 1
    OBVIOUS
  <2>1. CASE e = cursor'
    <3>1. runs[e] <= attempts[e] + faults
      BY <2>1, PublishCounts DEF HInv, Counting
    <3> QED
      BY <2>1, <3>1, PublishCounts, CountingRange
  <2>2. CASE e # cursor'
    BY <2>2, PublishCounts, CountingRange DEF HInv, Counting
  <2> QED
    BY <2>1, <2>2
<1>2. \A e \in Pending : cursor' = e \/ runs'[e] <= attempts[e] + faults
  BY PublishCounts, CountingRange DEF HInv, Counting
<1>3. runs'[cursor'] >= 1
  BY PublishCounts, CountingRange
<1> QED
  BY <1>1, <1>2, <1>3, PublishCounts DEF Counting

LEMMA SettleCounting ==
    ASSUME HInv, Settle
    PROVE  Counting'
<1>1. /\ pc = "others" /\ pc' = "idle" /\ UNCHANGED <<history, runs>>
      /\ faults \in Nat /\ cursor \in Events /\ Events' = Events
  BY CountingRange DEF Settle, Events
<1>2. runs \in [Events -> Nat] /\ \A e \in Events : attempts[e] \in Nat
  BY CountingRange DEF HInv, Counting
<1>3. CASE Dispatch /\ UNCHANGED faults
  <2>1. /\ \A e \in Events \ {cursor} : status'[e] = status[e]
        /\ status'[cursor] = "dispatched" /\ attempts' = attempts /\ cursor' = cursor
    BY <1>1, <1>3, DispatchMay DEF HInv, RInv
  <2>2. \A e \in Pending' : e \in Pending /\ e # cursor
    BY <1>1, <2>1 DEF Pending
  <2> QED
    BY <1>1, <1>3, <2>1, <2>2 DEF HInv, Counting
<1>4. CASE CountFailure /\ faults' \in Nat /\ faults' >= faults
  <2>1. /\ \A e \in Events \ {cursor} : status'[e] = status[e] /\ attempts'[e] = attempts[e]
        /\ attempts' = [attempts EXCEPT ![cursor] = @ + 1] /\ cursor' = cursor
    BY <1>1, <1>4, CountFailureMay DEF CountFailure, HInv, RInv
  <2>2. attempts'[cursor] = attempts[cursor] + 1
    BY <1>1, <2>1 DEF HInv, RInv, LTypes, Typed
  <2>3. ASSUME NEW e \in Events
        PROVE  /\ runs[e] <= attempts'[e] + faults' + 1
               /\ e \in Pending' => runs[e] <= attempts'[e] + faults'
    <3>1. CASE e = cursor
      <4>1. runs[e] <= attempts[e] + faults + 1
        BY DEF HInv, Counting
      <4> QED
        BY <1>1, <1>2, <1>4, <2>2, <3>1, <4>1
    <3>2. CASE e # cursor
      <4>1. runs[e] <= attempts[e] + faults + 1 /\ attempts'[e] = attempts[e]
        BY <2>1, <3>2 DEF HInv, Counting
      <4>2. e \in Pending' => runs[e] <= attempts[e] + faults
        BY <1>1, <2>1, <3>2 DEF HInv, Counting, Pending
      <4> QED
        BY <1>1, <1>2, <1>4, <4>1, <4>2
    <3> QED
      BY <3>1, <3>2
  <2>4. Pending' \subseteq Events
    BY <1>1 DEF Pending
  <2> QED
    BY <1>1, <1>2, <2>3, <2>4 DEF Counting
<1>5. CASE Fault /\ cursor' = 0 /\ UNCHANGED <<status, attempts>>
  BY <1>1, <1>5, FaultRises, StillCounting
<1>6. Fault => faults' \in Nat /\ faults' >= faults
  BY FaultRises, CountingRange
<1>7. /\ UNCHANGED faults => faults' \in Nat /\ faults' >= faults
      /\ \/ Dispatch /\ UNCHANGED faults
         \/ CountFailure /\ (UNCHANGED faults \/ Fault)
         \/ Fault /\ cursor' = 0 /\ UNCHANGED <<status, attempts>>
  BY <1>1 DEF Settle
<1> QED
  BY <1>3, <1>4, <1>5, <1>6, <1>7

\* What no step takes back: an event stays as it is, and its counts only grow.
Grows ==
    /\ Events \subseteq Events'
    /\ \A e \in Events : /\ history'[e] = history[e]
                         /\ runs'[e] \in Nat /\ runs'[e] >= runs[e]
                         /\ attempts[e] > 0 => attempts'[e] > 0

LEMMA GrowsInPlace ==
    ASSUME HInv, UNCHANGED <<history, attempts, runs>>
    PROVE  Grows
BY CountingRange DEF Grows, Events

\* A step that neither opens nor closes a row.
LEMMA StillClosed ==
    ASSUME HInv, Grows, UNCHANGED <<downtime, closer>>,
           pc' \in {"opening", "looking", "closing"} =>
              /\ cursor' \in Events
              /\ \/ runs'[cursor'] > runs[cursor']
                 \/ cursor' = cursor /\ pc' = pc
                 \/ cursor' = cursor /\ pc = "looking" /\ pc' = "closing",
           pc' = "charging" => UNCHANGED <<pc, cursor, found>>
    PROVE  (Opened /\ ClosedOnce)'
<1>1. Closed' = Closed /\ DOMAIN downtime' = DOMAIN downtime /\ Closed \subseteq DOMAIN downtime
  BY DEF Closed
<1>2. /\ \A i \in DOMAIN downtime : downtime[i].corr \in Events
      /\ \A e \in Events : runs[e] \in Nat /\ runs'[e] \in Nat /\ runs'[e] >= runs[e]
      /\ pc # "idle" => cursor \in Events
  BY CountingRange DEF Grows
<1>3. \A i \in Closed : ClosedBy(i, closer[i])
  BY DEF HInv, ClosedOnce
<1>4. /\ \A i \in Closed : closer[i] \in Events /\ runs[closer[i]] >= 1
  BY <1>3 DEF ClosedBy
<1>5. closer' \in [DOMAIN downtime' -> {0} \cup Events']
  BY DEF HInv, Opened, Grows
<1>6. \A i \in DOMAIN downtime : runs[downtime[i].corr] >= 1
  BY DEF HInv, Opened
<1>7. \A i \in DOMAIN downtime : runs'[downtime[i].corr] >= 1
  BY <1>2, <1>6
<1>8. ASSUME pc' = "opening", NEW i \in DOMAIN downtime, downtime[i].corr = cursor'
      PROVE  runs'[cursor'] > 1
  <2>1. CASE runs'[cursor'] > runs[cursor']
    BY <1>2, <1>6, <1>8, <2>1
  <2>2. CASE cursor' = cursor /\ pc = "opening"
    <3>1. runs[cursor] > 1
      BY <1>8, <2>2 DEF HInv, Opened
    <3> QED
      BY <1>2, <1>8, <2>2, <3>1
  <2> QED
    BY <1>8, <2>1, <2>2
<1>9. ASSUME NEW i \in DOMAIN downtime, NEW j \in DOMAIN downtime,
             i # j, downtime[i].corr = downtime[j].corr
      PROVE  runs'[downtime[i].corr] > 1
  <2>1. runs[downtime[i].corr] > 1
    BY <1>9 DEF HInv, Opened
  <2> QED
    BY <1>2, <2>1
<1>10. Opened'
  BY <1>5, <1>7, <1>8, <1>9 DEF Opened
<1>11. ASSUME NEW i \in Closed PROVE ClosedBy(i, closer[i])'
  <2>1. ClosedBy(i, closer[i]) /\ closer[i] \in Events
    BY <1>3, <1>4
  <2>2. runs'[closer[i]] >= 1
    BY <1>2, <1>4
  <2> QED
    BY <2>1, <2>2 DEF ClosedBy, Grows
<1>12. ASSUME pc' \in {"looking", "closing"}, NEW i \in Closed, closer[i] = cursor'
       PROVE  runs'[cursor'] > 1
  <2>1. CASE runs'[cursor'] > runs[cursor']
    BY <1>2, <1>4, <1>12, <2>1
  <2>2. CASE cursor' = cursor /\ pc \in {"looking", "closing"}
    <3>1. runs[cursor] > 1
      BY <1>12, <2>2 DEF HInv, ClosedOnce
    <3> QED
      BY <1>2, <1>12, <2>2, <3>1
  <2> QED
    BY <1>12, <2>1, <2>2
<1>13. ASSUME pc' = "charging"
       PROVE  /\ found' \in Closed /\ closer[found'] = cursor'
              /\ \A i \in Closed : closer[i] = cursor' => i = found' \/ runs'[cursor'] > 1
  <2>1. pc = "charging" /\ cursor' = cursor /\ found' = found /\ cursor \in Events
    BY <1>2, <1>13
  <2>2. /\ found \in Closed /\ closer[found] = cursor
        /\ \A i \in Closed : closer[i] = cursor => i = found \/ runs[cursor] > 1
    BY <2>1 DEF HInv, ClosedOnce
  <2> QED
    BY <1>2, <2>1, <2>2
<1>14. ASSUME NEW i \in Closed, NEW j \in Closed, i # j, closer[i] = closer[j]
       PROVE  runs'[closer[i]] > 1
  <2>1. runs[closer[i]] > 1
    BY <1>14 DEF HInv, ClosedOnce
  <2> QED
    BY <1>2, <1>4, <2>1
<1>15. ClosedOnce'
  BY <1>1, <1>11, <1>12, <1>13, <1>14 DEF ClosedOnce
<1> QED
  BY <1>10, <1>15

\* A step that charges nothing and may only be through with what was charged.
LEMMA StillCharged ==
    ASSUME HInv, Grows, UNCHANGED <<downtime, losses, closer, charged>>,
           pc' = "charging" => UNCHANGED <<pc, found>>,
           \A e \in Events : status'[e] = "dispatched" =>
              status[e] = "dispatched" \/ (e = cursor /\ pc = "others" /\ ~raised),
           pc' = "others" /\ ~raised' =>
              \/ pc = "others" /\ ~raised /\ cursor' = cursor
              \/ \A i \in Closed : downtime[i].lost > 0 /\ closer[i] = cursor' =>
                    HasCharge(i) \/ runs'[cursor'] > 1
    PROVE  (ChargedOnce /\ ChargedAll)'
<1>1. /\ Closed' = Closed /\ DOMAIN downtime' = DOMAIN downtime /\ DOMAIN losses' = DOMAIN losses
      /\ \A i : HasCharge(i)' = HasCharge(i)
  BY DEF Closed, HasCharge
<1>2. ChargedOnce'
  BY <1>1 DEF HInv, ChargedOnce
<1>3. \A e \in Events : runs[e] \in Nat /\ runs'[e] \in Nat /\ runs'[e] >= runs[e]
  BY CountingRange DEF Grows
<1>4. \A i \in Closed : closer[i] \in Events
  BY DEF HInv, ClosedOnce, ClosedBy
<1>5. ASSUME NEW i \in Closed, downtime[i].lost > 0
      PROVE  HasCharge(i) \/ status'[closer[i]] # "dispatched" \/ runs'[closer[i]] > 1
  <2>1. HasCharge(i) \/ status[closer[i]] # "dispatched" \/ runs[closer[i]] > 1
    BY <1>5 DEF HInv, ChargedAll
  <2>2. CASE HasCharge(i)
    BY <2>2
  <2>3. CASE runs[closer[i]] > 1
    BY <1>3, <1>4, <2>3
  <2>4. CASE closer[i] = cursor /\ pc = "others" /\ ~raised
    <3>1. HasCharge(i) \/ runs[cursor] > 1
      BY <1>5, <2>4 DEF HInv, ChargedAll
    <3> QED
      BY <1>3, <1>4, <2>4, <3>1
  <2> QED
    BY <1>4, <2>1, <2>2, <2>3, <2>4
<1>6. ASSUME pc' = "others", ~raised', NEW i \in Closed, downtime[i].lost > 0,
             closer[i] = cursor'
      PROVE  HasCharge(i) \/ runs'[cursor'] > 1
  <2>1. CASE pc = "others" /\ ~raised /\ cursor' = cursor
    <3>1. HasCharge(i) \/ runs[cursor] > 1
      BY <1>6, <2>1 DEF HInv, ChargedAll
    <3> QED
      BY <1>3, <1>4, <1>6, <2>1, <3>1
  <2>2. CASE \A k \in Closed : downtime[k].lost > 0 /\ closer[k] = cursor' =>
                HasCharge(k) \/ runs'[cursor'] > 1
    BY <1>6, <2>2
  <2> QED
    BY <1>6, <2>1, <2>2
<1>7. ChargedAll'
  BY <1>1, <1>5, <1>6 DEF ChargedAll
<1> QED
  BY <1>2, <1>7

Booked == Opened /\ ClosedOnce /\ ChargedOnce /\ ChargedAll

\* The handler raises, or the relay begins anew.
LEMMA RaiseBooked ==
    ASSUME HInv, UNCHANGED <<history, status, attempts, runs, tables>>,
           pc' = "idle" \/ (pc' = "others" /\ raised')
    PROVE  Booked'
<1>1. Grows
  BY GrowsInPlace
<1>2. UNCHANGED <<downtime, losses, closer, charged>>
  BY DEF tables
<1> QED
  BY <1>1, <1>2, StillClosed, StillCharged DEF Booked

LEMMA TransitionBooked ==
    ASSUME HInv, NEW to \in {RUN, IDLE, ALARM}, NEW at \in 1..MaxTime,
           NEW zone \in Zones, Transition(to, at, zone)
    PROVE  Booked'
<1>1. UNCHANGED <<cursor, raised, pc, found, downtime, losses, closer, charged>>
  BY DEF Transition, tables
<1>2. \A e \in Events : /\ e \in Events' /\ history'[e] = history[e]
                        /\ status'[e] = status[e] /\ attempts'[e] = attempts[e]
  BY LogGrows DEF HInv, RInv, LTypes
<1>3. Grows
  BY <1>2, TransitionCounting, CountingRange DEF Grows
<1>4. pc # "idle" => cursor \in Events
  BY CountingRange
<1> QED
  BY <1>1, <1>2, <1>3, <1>4, StillClosed, StillCharged DEF Booked

LEMMA PublishBooked ==
    ASSUME HInv, Publish
    PROVE  Booked'
<1>1. /\ cursor' \in Events /\ pc' \in {"opening", "looking", "others"}
      /\ runs'[cursor'] > runs[cursor']
      /\ UNCHANGED <<history, status, attempts, downtime, losses, closer, charged>>
  BY PublishCounts, CountingRange DEF Branch
<1>2. Grows
  <2>1. \A e \in Events : runs'[e] \in Nat /\ runs'[e] >= runs[e]
    BY PublishCounts, CountingRange
  <2> QED
    BY <1>1, <2>1 DEF Grows, Events
<1>3. \A i \in Closed : closer[i] = cursor' => runs'[cursor'] > 1
  <2>1. \A i \in Closed : closer[i] = cursor' => runs[cursor'] >= 1
    BY DEF HInv, ClosedOnce, ClosedBy
  <2> QED
    BY <1>1, <2>1, CountingRange, PublishCounts
<1> QED
  BY <1>1, <1>2, <1>3, StillClosed, StillCharged DEF Booked

LEMMA LookUpBooked ==
    ASSUME HInv, LookUp
    PROVE  Booked'
<1>1. pc = "looking" /\ UNCHANGED <<history, status, attempts, cursor, runs>>
  BY DEF LookUp
<1>2. CASE Raise
  BY <1>1, <1>2, RaiseBooked DEF Raise
<1>3. CASE ~Raise
  <2>1. /\ pc' \in {"others", "closing"} /\ UNCHANGED <<downtime, losses, closer, charged>>
    BY <1>3 DEF LookUp, tables
  <2>2. Grows /\ cursor \in Events
    BY <1>1, GrowsInPlace, CountingRange
  <2>3. \A i \in Closed : closer[i] = cursor => runs[cursor] > 1
    BY <1>1 DEF HInv, ClosedOnce
  <2> QED
    BY <1>1, <2>1, <2>2, <2>3, StillClosed, StillCharged DEF Booked
<1> QED
  BY <1>2, <1>3

LEMMA SettleBooked ==
    ASSUME HInv, Settle
    PROVE  Booked'
<1>1. /\ pc = "others" /\ pc' = "idle" /\ UNCHANGED <<history, runs>>
      /\ UNCHANGED <<downtime, losses, closer, charged>> /\ Events' = Events
      /\ \/ ~raised /\ Dispatch
         \/ CountFailure
         \/ cursor' = 0 /\ UNCHANGED <<status, attempts>>
  BY SettleCases DEF Settle, tables, Events, HInv, RInv
<1>2. /\ \A e \in Events : attempts[e] > 0 => attempts'[e] > 0
      /\ \A e \in Events : status'[e] = "dispatched" =>
            status[e] = "dispatched" \/ (e = cursor /\ ~raised)
  <2>1. CASE ~raised /\ Dispatch
    <3>1. attempts' = attempts /\ \A e \in Events \ {cursor} : status'[e] = status[e]
      BY <1>1, <2>1, DispatchMay DEF HInv, RInv
    <3> QED
      BY <2>1, <3>1
  <2>2. CASE CountFailure
    <3>1. /\ attempts'[cursor] > 0 /\ status'[cursor] # "dispatched"
          /\ \A e \in Events \ {cursor} : status'[e] = status[e] /\ attempts'[e] = attempts[e]
      BY <1>1, <2>2, CountFailureMay DEF HInv, RInv
    <3> QED
      BY <3>1
  <2>3. CASE UNCHANGED <<status, attempts>>
    BY <2>3
  <2> QED
    BY <1>1, <2>1, <2>2, <2>3
<1>3. Grows
  BY <1>1, <1>2, CountingRange DEF Grows
<1> QED
  BY <1>1, <1>2, <1>3, StillClosed, StillCharged DEF Booked

\* A new row is open, and the stop's only one unless it was published again.
LEMMA OpenRowBooked ==
    ASSUME HInv, OpenRow
    PROVE  Booked'
<1>1. pc = "opening" /\ UNCHANGED <<history, status, attempts, cursor, found, runs>>
  BY DEF OpenRow
<1>2. CASE Fault /\ Raise
  BY <1>1, <1>2, RaiseBooked DEF Raise
<1>3. CASE /\ downtime' = Append(downtime, DowntimeRow(cursor))
           /\ closer' = Append(closer, 0)
           /\ pc' = "others" /\ UNCHANGED <<losses, charged, raised, faults>>
  <2> DEFINE n == Len(downtime)
             new == n + 1
  <2>1. /\ \A i \in DOMAIN downtime : i \in DOMAIN downtime' /\ downtime'[i] = downtime[i]
        /\ downtime'[new].corr = cursor /\ downtime'[new].end = Open
        /\ DOMAIN downtime' = 1..(n + 1)
    BY <1>1, <1>3, RowOpens DEF HInv, RInv
  <2>2. DOMAIN downtime = 1..n /\ n \in Nat /\ Events' = Events
    BY <1>1, EventNumbers DEF HInv, RInv, LTypes, Events
  <2>3. closer \in [1..n -> {0} \cup Events]
    BY <2>2 DEF HInv, Opened
  <2> DEFINE E == {0} \cup Events
  <2> HIDE DEF n, E
  <2>4. /\ Append(closer, 0) \in [1..(n + 1) -> E]
        /\ \A i \in 1..n : Append(closer, 0)[i] = closer[i]
    <3>1. closer \in [1..n -> E] /\ 0 \in E
      BY <2>3 DEF E
    <3> QED
      BY ONLY <2>2, <3>1, Appended
  <2>5. /\ closer' \in [DOMAIN downtime' -> {0} \cup Events]
        /\ \A i \in DOMAIN downtime : closer'[i] = closer[i]
    BY <1>3, <2>1, <2>2, <2>4 DEF E
  <2>6. \A i \in DOMAIN downtime' : i \in DOMAIN downtime \/ i = new
    BY <2>1, <2>2
  <2>7. Closed' = Closed
    BY <2>1, <2>6 DEF Closed
  <2>8. cursor \in Events /\ runs[cursor] >= 1
    BY <1>1, CountingRange DEF HInv, Counting
  <2> HIDE DEF new
  <2>9. \A i \in DOMAIN downtime' : runs[downtime'[i].corr] >= 1
    BY <2>1, <2>6, <2>8 DEF HInv, Opened
  <2>10. ASSUME NEW i \in DOMAIN downtime', NEW j \in DOMAIN downtime',
                i # j, downtime'[i].corr = downtime'[j].corr
         PROVE  runs[downtime'[i].corr] > 1
    <3>1. CASE i \in DOMAIN downtime /\ j \in DOMAIN downtime
      BY <2>1, <2>10, <3>1 DEF HInv, Opened
    <3>2. CASE i = new \/ j = new
      <4>1. downtime'[i].corr = cursor
        BY <2>1, <2>10, <3>2
      <4>2. PICK k \in DOMAIN downtime : downtime[k].corr = cursor
        BY <2>1, <2>6, <2>10, <3>2
      <4> QED
        BY <1>1, <4>1, <4>2 DEF HInv, Opened
    <3> QED
      BY <2>6, <3>1, <3>2
  <2>11. Opened'
    BY <1>1, <1>3, <2>2, <2>5, <2>9, <2>10 DEF Opened
  <2>12. /\ \A i \in Closed : i \in DOMAIN downtime /\ downtime'[i] = downtime[i]
                              /\ closer'[i] = closer[i]
    BY <2>1, <2>5 DEF Closed
  <2>13. \A i \in Closed : ClosedBy(i, closer[i])
    BY DEF HInv, ClosedOnce
  <2>14. \A i \in Closed : ClosedBy(i, closer[i])'
    BY <1>1, <2>2, <2>12, <2>13 DEF ClosedBy
  <2>15. ClosedOnce'
    <3>1. \A i, j \in Closed : i # j /\ closer'[i] = closer'[j] => runs[closer'[i]] > 1
      BY <2>12 DEF HInv, ClosedOnce
    <3>2. pc' \notin {"looking", "closing", "charging"}
      BY <1>3
    <3> QED
      BY <1>1, <2>7, <2>14, <3>1, <3>2 DEF ClosedOnce
  <2>16. \A i : HasCharge(i)' = HasCharge(i)
    BY <1>3 DEF HasCharge
  <2>17. ChargedOnce'
    <3>1. DOMAIN downtime \subseteq DOMAIN downtime'
      BY <2>1
    <3> QED
      BY <1>3, <2>7, <2>12, <3>1 DEF HInv, ChargedOnce
  <2>18. \A i \in Closed : closer[i] # cursor
    <3>1. Leaves(history[cursor])
      BY <1>1 DEF HInv, RInv, LTypes, InHand
    <3> QED
      BY <2>13, <3>1, NotBoth DEF ClosedBy
  <2>19. ChargedAll'
    BY <1>1, <2>7, <2>12, <2>16, <2>18 DEF HInv, ChargedAll
  <2> QED
    BY <2>11, <2>15, <2>17, <2>19 DEF Booked
<1> QED
  BY <1>2, <1>3 DEF OpenRow

\* The row that closes was open, so no charge had it; it is behind the return,
\* or the return was retried.
LEMMA CloseRowBooked ==
    ASSUME HInv, CloseRow
    PROVE  Booked'
<1>1. pc = "closing" /\ UNCHANGED <<history, status, attempts, cursor, found, runs>>
  BY DEF CloseRow
<1>2. CASE Fault /\ Raise
  BY <1>1, <1>2, RaiseBooked DEF Raise
<1>3. CASE /\ downtime' = [downtime EXCEPT
                  ![found].end = Current.at,
                  ![found].lost = Lost(downtime[found].start, Current.at)]
           /\ closer' = [closer EXCEPT ![found] = cursor]
           /\ pc' = "charging" /\ UNCHANGED <<losses, charged, raised, faults>>
  <2>1. /\ DOMAIN downtime' = DOMAIN downtime
        /\ \A i \in DOMAIN downtime : i # found => downtime'[i] = downtime[i]
        /\ \A i \in DOMAIN downtime : downtime'[i].corr = downtime[i].corr
        /\ found \in DOMAIN downtime /\ downtime'[found].end = history[cursor].at
        /\ downtime'[found].end # Open
    BY <1>1, <1>3, RowCloses DEF HInv, RInv
  <2>2. /\ downtime[found].end = Open /\ Enters(history[cursor])
        /\ cursor \in Events /\ cursor \in Pending /\ Events' = Events
    BY <1>1, CountingRange DEF HInv, RInv, LTypes, InHand, Events
  <2>3. closer \in [DOMAIN downtime -> {0} \cup Events]
    BY DEF HInv, Opened
  <2>4. /\ closer' \in [DOMAIN downtime -> {0} \cup Events] /\ closer'[found] = cursor
        /\ \A i \in DOMAIN downtime : i # found => closer'[i] = closer[i]
    BY <1>3, <2>1, <2>2, <2>3
  <2>5. Closed' = Closed \cup {found} /\ found \notin Closed /\ Closed \subseteq DOMAIN downtime
    BY <2>1, <2>2 DEF Closed
  <2>6. \A i \in Closed : downtime'[i] = downtime[i] /\ closer'[i] = closer[i]
    BY <2>1, <2>4, <2>5
  <2>7. downtime[found].corr < cursor \/ attempts[cursor] > 0
    <3>1. downtime[found].corr \in Events /\ Leaves(history[downtime[found].corr])
      BY <2>1 DEF HInv, RInv, LTypes, BackRefs, Rowed
    <3>2. downtime[found].corr # cursor
      BY <2>2, <3>1, NotBoth
    <3>3. downtime[found].corr \in Nat /\ cursor \in Nat
      BY <2>2, <3>1, CountingRange
    <3>4. cursor < downtime[found].corr => attempts[cursor] > 0
      BY <2>1, <2>2 DEF HInv, RInv, Walked
    <3> QED
      BY <3>2, <3>3, <3>4
  <2>8. runs[cursor] >= 1
    BY <1>1 DEF HInv, Counting
  <2>9. Opened'
    BY <1>1, <1>3, <2>1, <2>2, <2>4 DEF HInv, Opened
  <2>10. \A i \in Closed : ClosedBy(i, closer[i])
    BY DEF HInv, ClosedOnce
  <2>11. \A i \in Closed : ClosedBy(i, closer[i])'
    BY <1>1, <2>2, <2>6, <2>10 DEF ClosedBy
  <2>12. ClosedBy(found, closer[found])'
    BY <1>1, <2>1, <2>2, <2>4, <2>7, <2>8 DEF ClosedBy
  <2>13. \A i \in Closed : closer[i] = cursor => runs[cursor] > 1
    BY <1>1 DEF HInv, ClosedOnce
  <2>14. ASSUME NEW i \in Closed', NEW j \in Closed', i # j, closer'[i] = closer'[j]
         PROVE  runs[closer'[i]] > 1
    <3>1. CASE i \in Closed /\ j \in Closed
      BY <2>6, <2>14, <3>1 DEF HInv, ClosedOnce
    <3>2. CASE i = found \/ j = found
      BY <2>4, <2>5, <2>6, <2>13, <2>14, <3>2
    <3> QED
      BY <2>5, <3>1, <3>2
  <2>15. ClosedOnce'
    BY <1>1, <1>3, <2>4, <2>5, <2>6, <2>11, <2>12, <2>13, <2>14 DEF ClosedOnce
  <2>16. \A i : HasCharge(i)' = HasCharge(i)
    BY <1>3 DEF HasCharge
  <2>17. \A i \in DOMAIN losses : charged[i] \in Closed
    BY DEF HInv, ChargedOnce
  <2>18. ChargedOnce'
    BY <1>1, <1>3, <2>1, <2>5, <2>6, <2>16, <2>17 DEF HInv, ChargedOnce, HasCharge
  <2>19. ChargedAll'
    BY <1>1, <1>3, <2>2, <2>4, <2>5, <2>6, <2>16 DEF HInv, ChargedAll, Pending
  <2> QED
    BY <2>9, <2>15, <2>18, <2>19 DEF Booked
<1> QED
  BY <1>2, <1>3 DEF CloseRow

\* A charge goes to the row just closed, or the handler raises, or there is
\* nothing to charge.
LEMMA ChargeBooked ==
    ASSUME HInv, Charge
    PROVE  Booked'
<1>1. /\ pc = "charging" /\ pc' = "others"
      /\ UNCHANGED <<history, status, attempts, cursor, found, downtime, closer, runs>>
  BY DEF Charge
<1>2. /\ found \in Closed /\ closer[found] = cursor
      /\ \A i \in Closed : closer[i] = cursor => i = found \/ runs[cursor] > 1
  BY <1>1 DEF HInv, ClosedOnce
<1>3. Grows /\ (Opened /\ ClosedOnce)'
  <2>1. Grows
    BY <1>1, GrowsInPlace
  <2> QED
    BY <1>1, <2>1, StillClosed
<1>4. downtime[found].lost \in Nat /\ found \in DOMAIN downtime
  BY <1>2, EventNumbers DEF HInv, RInv, LTypes, Rows, Closed
<1>5. CASE UNCHANGED <<losses, charged>>
  <2>1. raised' \/ ~(downtime[found].lost > 0)
    <3>1. downtime[found].lost = 0 \/ raised' \/ RecordLoss
      BY DEF Charge
    <3>2. RecordLoss => losses' # losses
      <4>1. losses \in Seq(Charges)
        BY DEF HInv, RInv, LTypes, Typed
      <4>2. ASSUME NEW x, losses' = Append(losses, x) PROVE losses' # losses
        <5>1. losses'[Len(losses) + 1] = x /\ Len(losses') = Len(losses) + 1 /\ Len(losses) \in Nat
          BY <4>1, <4>2
        <5> QED
          BY <5>1
      <4> QED
        BY <4>2 DEF RecordLoss
    <3> QED
      BY <1>4, <1>5, <3>1, <3>2
  <2>2. pc' = "others" /\ ~raised' =>
            \A i \in Closed : downtime[i].lost > 0 /\ closer[i] = cursor' => runs'[cursor'] > 1
    BY <1>1, <1>2, <2>1
  <2>3. \A e \in Events : status'[e] = "dispatched" => status[e] = "dispatched"
    BY <1>1
  <2>4. (ChargedOnce /\ ChargedAll)'
    BY <1>1, <1>3, <1>5, <2>2, <2>3, StillCharged
  <2> QED
    BY <1>3, <2>4 DEF Booked
<1>6. CASE RecordLoss /\ downtime[found].lost > 0
  <2> DEFINE n == Len(losses)
             new == n + 1
             loss == [corr |-> cursor, qty |-> downtime[found].lost]
  <2>1. /\ DOMAIN losses' = 1..(n + 1)
        /\ \A i \in DOMAIN losses : losses'[i] = losses[i]
        /\ losses'[new].qty = downtime[found].lost /\ losses'[new].corr = cursor
    <3>1. losses' = Append(losses, [corr |-> cursor, qty |-> downtime[found].lost])
          /\ downtime[found].lost # 0
      BY <1>4, <1>6 DEF RecordLoss
    <3> QED
      BY <1>1, <3>1, ChargeAppends DEF HInv, RInv
  <2>2. DOMAIN losses = 1..n /\ n \in Nat
    BY EventNumbers DEF HInv, RInv, LTypes
  <2>3. charged \in [1..n -> DOMAIN downtime]
    BY <2>2 DEF HInv, ChargedOnce
  <2> DEFINE D == DOMAIN downtime
  <2> HIDE DEF n, D
  <2>4. /\ Append(charged, found) \in [1..(n + 1) -> D]
        /\ Append(charged, found)[n + 1] = found
        /\ \A i \in 1..n : Append(charged, found)[i] = charged[i]
    <3>1. n \in Nat /\ charged \in [1..n -> D] /\ found \in D
      BY <1>4, <2>2, <2>3 DEF D
    <3> QED
      BY ONLY <3>1, Appended
  <2>5. /\ charged' \in [DOMAIN losses' -> DOMAIN downtime']
        /\ charged'[new] = found
        /\ \A i \in DOMAIN losses : charged'[i] = charged[i]
    BY <1>1, <1>6, <2>1, <2>2, <2>4 DEF D, RecordLoss
  <2>6. /\ \A i \in DOMAIN losses' : i \in DOMAIN losses \/ i = new
        /\ \A i \in DOMAIN losses : i \in DOMAIN losses' /\ i # new
        /\ new \in DOMAIN losses'
    BY <2>1, <2>2
  <2> HIDE DEF new
  <2>7. \A i \in DOMAIN losses : charged[i] # found
    BY <1>1 DEF HInv, ChargedOnce, HasCharge
  <2>8. Closed' = Closed /\ pc' # "charging"
    BY <1>1 DEF Closed
  <2>9. \A i \in DOMAIN losses' : /\ charged'[i] \in Closed
                                  /\ downtime[charged'[i]].lost = losses'[i].qty
                                  /\ closer[charged'[i]] = losses'[i].corr
    BY <1>2, <2>1, <2>5, <2>6 DEF HInv, ChargedOnce
  <2>10. \A i, j \in DOMAIN losses' : i # j => charged'[i] # charged'[j]
    BY <2>5, <2>6, <2>7 DEF HInv, ChargedOnce
  <2>11. ChargedOnce'
    BY <1>1, <2>5, <2>8, <2>9, <2>10 DEF ChargedOnce
  <2>12. /\ \A i : HasCharge(i) => HasCharge(i)'
         /\ \A i : i = found => HasCharge(i)'
    BY <2>5, <2>6 DEF HasCharge
  <2>13. \A i \in Closed : closer[i] = cursor => HasCharge(i)' \/ runs[cursor] > 1
    <3> SUFFICES ASSUME NEW i \in Closed, closer[i] = cursor
                 PROVE  HasCharge(i)' \/ runs[cursor] > 1
      OBVIOUS
    <3>1. i = found \/ runs[cursor] > 1
      BY <1>2
    <3> QED
      BY <2>12, <3>1
  <2>14. ChargedAll'
    BY <1>1, <2>8, <2>12, <2>13 DEF HInv, ChargedAll
  <2> QED
    BY <1>3, <2>11, <2>14 DEF Booked
<1> QED
  BY <1>5, <1>6 DEF Charge

LEMMA HistoryStep ==
    ASSUME HInv, [Next]_vars
    PROVE  HInv'
<1>1. RInv'
  BY RowsStep DEF HInv
<1>2. CASE UNCHANGED vars
  <2>1. /\ UNCHANGED <<history, status, attempts, runs, faults, pc, cursor, raised, found>>
        /\ UNCHANGED <<downtime, losses, closer, charged>>
    BY <1>2 DEF vars, relayVars, tables
  <2>2. Counting'
    BY <2>1, StillCounting, CountingRange
  <2>3. Grows /\ (pc # "idle" => cursor \in Events)
    BY <2>1, GrowsInPlace, CountingRange
  <2>4. Booked'
    BY <2>1, <2>3, StillClosed, StillCharged DEF Booked
  <2> QED
    BY <1>1, <2>2, <2>4 DEF HInv, Booked
<1>3. CASE NextDrain \/ Restart
  <2>1. /\ UNCHANGED <<history, status, attempts, runs, tables>> /\ pc' = "idle"
        /\ (pc = "idle" /\ UNCHANGED faults) \/ Fault
    BY <1>3 DEF NextDrain, Restart
  <2>2. faults' \in Nat /\ faults' >= faults /\ (pc = "idle" \/ faults' > faults)
    BY <2>1, FaultRises, CountingRange
  <2>3. Counting'
    BY <2>1, <2>2, StillCounting
  <2> QED
    BY <1>1, <2>1, <2>3, RaiseBooked DEF HInv, Booked
<1>4. CASE OpenRow \/ LookUp \/ CloseRow \/ Charge
  <2>1. /\ UNCHANGED <<history, status, attempts, runs, cursor>>
        /\ pc # "idle" /\ pc' # "idle" /\ (UNCHANGED faults \/ Fault)
    <3>1. CASE OpenRow
      BY <3>1 DEF OpenRow, Raise
    <3>2. CASE LookUp
      BY <3>2 DEF LookUp, Raise
    <3>3. CASE CloseRow
      BY <3>3 DEF CloseRow, Raise
    <3>4. CASE Charge
      BY <3>4 DEF Charge
    <3> QED
      BY <1>4, <3>1, <3>2, <3>3, <3>4
  <2>2. faults' \in Nat /\ faults' >= faults
    BY <2>1, FaultRises, CountingRange
  <2>3. Counting'
    BY <2>1, <2>2, StillCounting
  <2> QED
    BY <1>1, <1>4, <2>3, OpenRowBooked, LookUpBooked, CloseRowBooked, ChargeBooked
    DEF HInv, Booked
<1>5. CASE Publish
  BY <1>1, <1>5, PublishCounting, PublishBooked DEF HInv, Booked
<1>6. CASE Settle
  BY <1>1, <1>6, SettleCounting, SettleBooked DEF HInv, Booked
<1>7. ASSUME NEW to \in {RUN, IDLE, ALARM}, NEW at \in 1..MaxTime, NEW zone \in Zones,
             Transition(to, at, zone)
      PROVE  HInv'
  BY <1>1, <1>7, TransitionCounting, TransitionBooked DEF HInv, Booked
<1> QED
  BY <1>2, <1>3, <1>4, <1>5, <1>6, <1>7 DEF Next, Relay, on_state_changed

LEMMA HistoryStarts ==
    ASSUME Init
    PROVE  HInv
<1>1. /\ history = <<>> /\ downtime = <<>> /\ losses = <<>> /\ pc = "idle"
      /\ runs = <<>> /\ closer = <<>> /\ charged = <<>>
  BY DEF Init
<1>2. Events = {} /\ Pending = {} /\ DOMAIN downtime = {} /\ DOMAIN losses = {} /\ Closed = {}
  BY <1>1 DEF Events, Pending, Closed
<1>3. /\ runs \in [Events -> Nat] /\ closer \in [DOMAIN downtime -> {0} \cup Events]
      /\ charged \in [DOMAIN losses -> DOMAIN downtime]
  BY <1>1, <1>2
<1> QED
  BY <1>1, <1>2, <1>3, RowsStart DEF HInv, Counting, Opened, ClosedOnce, ChargedOnce, ChargedAll

\* What the relay published, the tracker opened and closed and the handler
\* charged, over any number of failures, retries and restarts.
THEOREM HistoryAlways == Spec => []HInv
BY HistoryStarts, HistoryStep, PTL DEF Spec

\* A downtime row is closed by a return that follows its stop, or by one whose
\* publish had failed; a stop that was dispatched has a row, and it has several
\* only if it was published several times (capacity_tracker.py:29, 39).
THEOREM RowsFollow == Spec => []RowsFollowTheLog
<1>1. ASSUME HInv PROVE RowsFollowTheLog
  <2>1. ASSUME NEW i \in DOMAIN downtime, downtime[i].end # Open
        PROVE  ClosedBy(i, closer[i])
    BY <1>1, <2>1 DEF HInv, ClosedOnce, Closed
  <2> QED
    BY <1>1, <2>1 DEF HInv, RInv, Rowed, HasRow, ClosedBy, Opened, RowsFollowTheLog
<1> QED
  BY <1>1, HistoryAlways, PTL

\* What MRP subtracts was lost: each charge is of a closed row of its own, of the
\* return that closed it, and only a second publish of a stop or of a return
\* charges it a second time (capacity_tracker.py:53-59, mrp_impact_handler.py).
THEOREM ChargesHaveRows == Spec => []ChargesAreBacked
<1>1. ASSUME HInv PROVE ChargesAreBacked
  <2>1. ASSUME NEW i \in DOMAIN losses
        PROVE  /\ charged[i] \in Closed /\ charged[i] \in DOMAIN downtime
               /\ downtime[charged[i]].lost = losses[i].qty
               /\ closer[charged[i]] = losses[i].corr
    BY <1>1 DEF HInv, ChargedOnce, Closed
  <2>2. ASSUME NEW i \in DOMAIN losses, NEW j \in DOMAIN losses, i # j
        PROVE  /\ charged[i] # charged[j]
               /\ downtime[charged[i]].corr = downtime[charged[j]].corr =>
                     runs[downtime[charged[i]].corr] > 1
               /\ losses[i].corr = losses[j].corr => runs[losses[i].corr] > 1
    <3>1. charged[i] # charged[j]
      BY <1>1, <2>2 DEF HInv, ChargedOnce
    <3>2. downtime[charged[i]].corr = downtime[charged[j]].corr =>
              runs[downtime[charged[i]].corr] > 1
      BY <1>1, <2>1, <3>1 DEF HInv, Opened
    <3>3. closer[charged[i]] = closer[charged[j]] => runs[closer[charged[i]]] > 1
      BY <1>1, <2>1, <3>1 DEF HInv, ClosedOnce
    <3> QED
      BY <2>1, <3>1, <3>2, <3>3
  <2>3. \A e \in Events : runs[e] <= attempts[e] + faults + 1
    BY <1>1 DEF HInv, Counting
  <2> QED
    BY <2>1, <2>2, <2>3 DEF ChargesAreBacked
<1> QED
  BY <1>1, HistoryAlways, PTL

\* A return dispatched at its only publish has charged what it closed; a row of
\* some length stays uncharged only behind a failure (capacity_tracker.py:59).
THEOREM LossesHaveCharges == Spec => []LossesAreCharged
<1>1. ASSUME HInv PROVE LossesAreCharged
  BY <1>1 DEF HInv, ChargedAll, Closed, HasCharge, LossesAreCharged
<1> QED
  BY <1>1, HistoryAlways, PTL

\* Every variable has its type; every row and every charge goes back to an event
\* of the log (machine_downtime_repository.py, capacity_tracker.py).
THEOREM TypeCorrect == Spec => []TypeOK
<1>1. ASSUME HInv PROVE TypeOK
  <2> LTypes
    BY <1>1 DEF HInv, RInv
  <2>1. ASSUME NEW S, NEW T, NEW s \in Seq(S), \A i \in DOMAIN s : s[i] \in T
        PROVE  s \in Seq(T)
    BY <2>1
  <2>2. downtime \in Seq([start: 1..MaxTime, end: {Open} \cup 1..MaxTime,
                          lost: Nat, reason: {ALARM, IDLE}, corr: Events])
    <3>1. \A i \in DOMAIN downtime : downtime[i] \in
              [start: 1..MaxTime, end: {Open} \cup 1..MaxTime,
               lost: Nat, reason: {ALARM, IDLE}, corr: Events]
      BY EventNumbers DEF LTypes, BackRefs, Rows
    <3> QED
      BY <2>1, <3>1 DEF LTypes, Typed
  <2>3. losses \in Seq([corr: Events, qty: Nat \ {0}])
    <3>1. \A i \in DOMAIN losses : losses[i] \in [corr: Events, qty: Nat \ {0}]
      BY EventNumbers DEF LTypes, BackRefs, Charges
    <3> QED
      BY <2>1, <3>1 DEF LTypes, Typed
  <2> QED
    BY <1>1, <2>2, <2>3 DEF LTypes, Typed, TypeOK, Transitions, Steps,
       HInv, Counting, Opened, ChargedOnce
<1> QED
  BY <1>1, HistoryAlways, PTL

-----------------------------------------------------------------------------
(* While nothing fails the ledger is a function of the history.            *)

\* Each event starts where the one before it ended.
Linked(h) ==
    \A e \in DOMAIN h : /\ h[e].to \in {RUN, IDLE, ALARM}
                        /\ e - 1 \in DOMAIN h => h[e].from = h[e - 1].to

Stop(h, s) == s \in DOMAIN h /\ Leaves(h[s])

\* Up to event k nothing after s returns to RUN.
Unreturned(h, s, k) == \A q \in DOMAIN h : s < q /\ q <= k => h[q].to # RUN

\* Event r is the first return to RUN after s.
Returns(h, s, r) ==
    r \in DOMAIN h /\ s < r /\ h[r].to = RUN /\ Unreturned(h, s, r - 1)

\* The row a stop has once the events up to k are worked off.
RowIsRight(h, k, row) ==
    /\ Stop(h, row.corr) /\ row.corr <= k
    /\ row.start = h[row.corr].at /\ row.reason = h[row.corr].to
    /\ \/ Unreturned(h, row.corr, k) /\ row.end = Open /\ row.lost = 0
       \/ \E r \in DOMAIN h : /\ r <= k /\ Returns(h, row.corr, r)
                              /\ row.end = h[r].at
                              /\ row.lost = Lost(h[row.corr].at, h[r].at)

Distinct(rows) == \A i, j \in DOMAIN rows : rows[i].corr = rows[j].corr => i = j

RowsAt(h, k, rows) ==
    /\ \A i \in DOMAIN rows : RowIsRight(h, k, rows[i])
    /\ \A s \in DOMAIN h : Stop(h, s) /\ s <= k => \E i \in DOMAIN rows : rows[i].corr = s
    /\ Distinct(rows)

\* The charge of a return that ends an interval of positive length.
ChargeIsRight(h, k, charge) ==
    /\ charge.corr <= k
    /\ \E s \in DOMAIN h : /\ Stop(h, s) /\ Returns(h, s, charge.corr)
                           /\ charge.qty = Lost(h[s].at, h[charge.corr].at)

ChargesAt(h, k, charges) ==
    /\ \A i \in DOMAIN charges : ChargeIsRight(h, k, charges[i])
    /\ \A s, r \in DOMAIN h :
          Stop(h, s) /\ Returns(h, s, r) /\ r <= k /\ Lost(h[s].at, h[r].at) > 0 =>
              \E i \in DOMAIN charges : charges[i].corr = r
    /\ Distinct(charges)

LedgerAt(k) == RowsAt(history, k, downtime) /\ ChargesAt(history, k, losses)

\* The relay has dispatched the events up to d and no other, and the tables are
\* those of the events up to d, or up to the one in hand.
WalkedTo(d) ==
    /\ \A e \in Events : status[e] = IF e <= d THEN "dispatched" ELSE "pending"
    /\ pc = "idle" => cursor <= d
    /\ pc # "idle" => cursor = d + 1

TablesOf(d) ==
    /\ pc \in {"idle", "opening", "looking", "closing"} => LedgerAt(d)
    /\ pc = "charging" => /\ RowsAt(history, d + 1, downtime)
                          /\ ChargesAt(history, d, losses)
                          /\ Returns(history, downtime[found].corr, cursor)
    /\ pc = "others" /\ ~raised => LedgerAt(d + 1)

ExactTo(d) == WalkedTo(d) /\ TablesOf(d)

Exact ==
    /\ Linked(history)
    /\ Undisturbed => \E d \in 0..Len(history) : ExactTo(d)

GoodHistory(h) == h \in Seq(Transitions) /\ Linked(h)

LEMMA HistoryNumbers ==
    ASSUME NEW h, GoodHistory(h)
    PROVE  /\ DOMAIN h = 1..Len(h) /\ Len(h) \in Nat
           /\ \A e \in DOMAIN h : /\ e \in Nat /\ e >= 1 /\ h[e].at \in 1..MaxTime
                                  /\ h[e].to \in {RUN, IDLE, ALARM}
                                  /\ e > 1 => /\ e - 1 \in DOMAIN h
                                              /\ h[e].from = h[e - 1].to
<1>1. DOMAIN h = 1..Len(h) /\ Len(h) \in Nat /\ \A e \in DOMAIN h : h[e] \in Transitions
  BY DEF GoodHistory
<1>2. \A e \in DOMAIN h : e \in Nat /\ e >= 1 /\ (e > 1 => e - 1 \in DOMAIN h)
  BY <1>1
<1>3. \A e \in DOMAIN h : h[e].at \in 1..MaxTime
  BY <1>1 DEF Transitions
<1> QED
  BY <1>1, <1>2, <1>3 DEF GoodHistory, Linked

\* Between two stops the machine was back in RUN.
LEMMA BackBetweenStops ==
    ASSUME NEW h, GoodHistory(h), NEW s, NEW t, Stop(h, s), Stop(h, t), s < t, NEW k,
           k \in Nat, t <= k, Unreturned(h, s, k)
    PROVE  FALSE
<1>1. /\ s \in DOMAIN h /\ t \in DOMAIN h /\ s \in Nat /\ t \in Nat /\ s >= 1 /\ t > 1
      /\ h[s].to # RUN /\ h[t].from = RUN
  BY HistoryNumbers DEF Stop, Leaves, RUN, IDLE, ALARM
<1>2. t - 1 \in DOMAIN h /\ h[t - 1].to = RUN
  BY <1>1, HistoryNumbers
<1>3. s < t - 1
  BY <1>1, <1>2
<1>4. t - 1 <= k
  BY <1>1
<1> QED
  BY <1>2, <1>3, <1>4 DEF Unreturned

LEMMA StopOfReturn ==
    ASSUME NEW h, GoodHistory(h), NEW s, NEW t, Stop(h, s), Stop(h, t), NEW k \in Nat,
           s <= k, t <= k, Unreturned(h, s, k), Unreturned(h, t, k)
    PROVE  s = t
<1>1. s \in Nat /\ t \in Nat
  BY HistoryNumbers DEF Stop
<1> QED
  BY <1>1, BackBetweenStops

\* A stop has one first return, and it is a return the tracker handles.
LEMMA ReturnOfStop ==
    ASSUME NEW h, GoodHistory(h), NEW s, NEW r, Stop(h, s), Returns(h, s, r)
    PROVE  /\ Enters(h[r])
           /\ \A q : Returns(h, s, q) => q = r
           /\ \A t : Stop(h, t) /\ Returns(h, t, r) => t = s
<1>1. /\ s \in DOMAIN h /\ s \in Nat /\ s >= 1 /\ h[s].to \in {ALARM, IDLE}
      /\ r \in DOMAIN h /\ r \in Nat /\ s < r /\ h[r].to = RUN /\ Unreturned(h, s, r - 1)
      /\ r - 1 \in Nat /\ r > 1
  BY HistoryNumbers DEF Stop, Leaves, Returns
<1>2. r - 1 \in DOMAIN h /\ h[r].from = h[r - 1].to /\ h[r - 1].to \in {RUN, IDLE, ALARM}
  BY <1>1, HistoryNumbers
<1>3. h[r - 1].to # RUN
  <2>1. CASE r - 1 = s
    BY <1>1, <2>1 DEF RUN, IDLE, ALARM
  <2>2. CASE r - 1 # s
    BY <1>1, <1>2, <2>2 DEF Unreturned
  <2> QED
    BY <2>1, <2>2
<1>4. Enters(h[r])
  BY <1>1, <1>2, <1>3 DEF Enters
<1>5. ASSUME NEW q, Returns(h, s, q) PROVE q = r
  <2>1. q \in DOMAIN h /\ q \in Nat /\ s < q /\ h[q].to = RUN /\ Unreturned(h, s, q - 1)
    BY <1>5, HistoryNumbers DEF Returns
  <2>2. ~ (q <= r - 1) /\ ~ (r <= q - 1)
    BY <1>1, <2>1 DEF Unreturned
  <2> QED
    BY <1>1, <2>1, <2>2
<1>6. ASSUME NEW t, Stop(h, t), Returns(h, t, r) PROVE t = s
  <2>1. t \in Nat /\ t < r /\ Unreturned(h, t, r - 1)
    BY <1>6, HistoryNumbers DEF Returns, Stop
  <2>2. t <= r - 1 /\ s <= r - 1
    BY <1>1, <2>1
  <2> QED
    BY <1>1, <1>6, <2>1, <2>2, StopOfReturn
<1> QED
  BY <1>4, <1>5, <1>6

\* What event k + 1 does to a stop before it.
LEMMA OneMoreEvent ==
    ASSUME NEW h, GoodHistory(h), NEW k \in Nat, k + 1 \in DOMAIN h,
           NEW s, Stop(h, s), s <= k
    PROVE  /\ Unreturned(h, s, k + 1) <=> Unreturned(h, s, k) /\ h[k + 1].to # RUN
           /\ Returns(h, s, k + 1) <=> Unreturned(h, s, k) /\ h[k + 1].to = RUN
           /\ \A r \in DOMAIN h : r <= k + 1 /\ Returns(h, s, r) =>
                 r <= k \/ Returns(h, s, k + 1)
<1>1. s \in Nat /\ s < k + 1 /\ (k + 1) - 1 = k /\ \A q \in DOMAIN h : q \in Nat
  BY HistoryNumbers DEF Stop
<1>2. Unreturned(h, s, k + 1) => Unreturned(h, s, k) /\ h[k + 1].to # RUN
  BY <1>1 DEF Unreturned
<1>3. Unreturned(h, s, k) /\ h[k + 1].to # RUN => Unreturned(h, s, k + 1)
  <2> SUFFICES ASSUME Unreturned(h, s, k), h[k + 1].to # RUN,
                      NEW q \in DOMAIN h, s < q, q <= k + 1
               PROVE  h[q].to # RUN
    BY DEF Unreturned
  <2>1. q <= k \/ q = k + 1
    BY <1>1
  <2> QED
    BY <2>1 DEF Unreturned
<1>4. Returns(h, s, k + 1) <=> Unreturned(h, s, k) /\ h[k + 1].to = RUN
  BY <1>1 DEF Returns
<1>5. \A r \in DOMAIN h : r <= k + 1 => r <= k \/ r = k + 1
  BY <1>1
<1> QED
  BY <1>2, <1>3, <1>4, <1>5

\* A row that was right and whose stop has not just returned stays right.
LEMMA RowStaysRight ==
    ASSUME NEW h, GoodHistory(h), NEW k \in Nat, k + 1 \in DOMAIN h,
           NEW row, RowIsRight(h, k, row), ~Returns(h, row.corr, k + 1)
    PROVE  RowIsRight(h, k + 1, row)
<1>1. Stop(h, row.corr) /\ row.corr <= k /\ row.corr \in Nat
  BY HistoryNumbers DEF RowIsRight, Stop
<1>2. row.corr <= k + 1 /\ \A r \in DOMAIN h : r <= k => r <= k + 1
  BY <1>1, HistoryNumbers
<1>3. h[k + 1].to = RUN => ~Unreturned(h, row.corr, k)
  BY <1>1, OneMoreEvent
<1>4. Unreturned(h, row.corr, k) => Unreturned(h, row.corr, k + 1)
  BY <1>1, <1>3, OneMoreEvent
<1> QED
  BY <1>1, <1>2, <1>4 DEF RowIsRight

\* An open row that is right has a stop without return; a closed one had one.
LEMMA OpenIsUnreturned ==
    ASSUME NEW h, GoodHistory(h), NEW k \in Nat, NEW row, RowIsRight(h, k, row)
    PROVE  row.end = Open <=> Unreturned(h, row.corr, k)
<1>1. \A r \in DOMAIN h : h[r].at # Open
  BY HistoryNumbers, Numbers DEF Open
<1>2. \A r \in DOMAIN h : r <= k /\ Returns(h, row.corr, r) => ~Unreturned(h, row.corr, k)
  BY DEF Returns, Unreturned
<1> QED
  BY <1>1, <1>2 DEF RowIsRight

\* An event that ends no downtime and starts none leaves the rows as they are.
LEMMA RowsStand ==
    ASSUME NEW h, GoodHistory(h), NEW k \in Nat, k + 1 \in DOMAIN h,
           NEW rows, RowsAt(h, k, rows), ~Leaves(h[k + 1]),
           \A s \in DOMAIN h : Stop(h, s) /\ s <= k => ~Returns(h, s, k + 1)
    PROVE  RowsAt(h, k + 1, rows)
<1>1. ASSUME NEW i \in DOMAIN rows PROVE RowIsRight(h, k + 1, rows[i])
  <2>1. RowIsRight(h, k, rows[i])
    BY DEF RowsAt
  <2>2. ~Returns(h, rows[i].corr, k + 1)
    BY <2>1 DEF RowIsRight, Stop
  <2> QED
    BY <2>1, <2>2, RowStaysRight
<1>2. \A s \in DOMAIN h : Stop(h, s) /\ s <= k + 1 => s <= k
  BY HistoryNumbers DEF Stop
<1> QED
  BY <1>1, <1>2 DEF RowsAt

\* The charges stand unless a downtime of positive length ends.
LEMMA ChargesStand ==
    ASSUME NEW h, GoodHistory(h), NEW k \in Nat, k + 1 \in DOMAIN h,
           NEW charges, ChargesAt(h, k, charges),
           \A s \in DOMAIN h : Stop(h, s) /\ Returns(h, s, k + 1) =>
               ~ (Lost(h[s].at, h[k + 1].at) > 0)
    PROVE  ChargesAt(h, k + 1, charges)
<1>1. \A i \in DOMAIN charges : ChargeIsRight(h, k + 1, charges[i])
  <2> SUFFICES ASSUME NEW i \in DOMAIN charges PROVE ChargeIsRight(h, k + 1, charges[i])
    OBVIOUS
  <2>1. ChargeIsRight(h, k, charges[i])
    BY DEF ChargesAt
  <2>2. charges[i].corr \in DOMAIN h
    BY <2>1 DEF ChargeIsRight, Returns
  <2>3. charges[i].corr <= k + 1
    BY <2>1, <2>2, HistoryNumbers DEF ChargeIsRight
  <2> QED
    BY <2>1, <2>3 DEF ChargeIsRight
<1>2. \A r \in DOMAIN h : r <= k + 1 => r <= k \/ r = k + 1
  BY HistoryNumbers
<1> QED
  BY <1>1, <1>2 DEF ChargesAt

\* No open row, then no downtime ends.
LEMMA NothingToClose ==
    ASSUME NEW h, GoodHistory(h), NEW k \in Nat, k + 1 \in DOMAIN h,
           NEW rows, RowsAt(h, k, rows), \A i \in DOMAIN rows : rows[i].end # Open,
           NEW s \in DOMAIN h, Stop(h, s), s <= k
    PROVE  ~Returns(h, s, k + 1)
<1>1. PICK i \in DOMAIN rows : rows[i].corr = s
  BY DEF RowsAt
<1>2. RowIsRight(h, k, rows[i])
  BY DEF RowsAt
<1>3. ~Unreturned(h, s, k)
  BY <1>1, <1>2, OpenIsUnreturned
<1> QED
  BY <1>3, OneMoreEvent

\* rows is as before but for one more, r.
Added(rows, more, r) ==
    /\ DOMAIN rows = 1..Len(rows) /\ Len(rows) \in Nat
    /\ DOMAIN more = 1..(Len(rows) + 1)
    /\ \A i \in DOMAIN rows : more[i] = rows[i]
    /\ more[Len(rows) + 1] = r

LEMMA AddedDomain ==
    ASSUME NEW rows, NEW more, NEW r, Added(rows, more, r)
    PROVE  /\ DOMAIN more = DOMAIN rows \cup {Len(rows) + 1}
           /\ Len(rows) + 1 \notin DOMAIN rows
BY DEF Added

\* The row a stop opens.
LEMMA RowsOpen ==
    ASSUME NEW h, GoodHistory(h), NEW k \in Nat, k + 1 \in DOMAIN h, Leaves(h[k + 1]),
           NEW rows, RowsAt(h, k, rows), NEW more, NEW r, Added(rows, more, r),
           r.corr = k + 1, r.start = h[k + 1].at, r.reason = h[k + 1].to,
           r.end = Open, r.lost = 0
    PROVE  RowsAt(h, k + 1, more)
<1> DEFINE n == Len(rows) + 1
<1>1. /\ DOMAIN more = DOMAIN rows \cup {n} /\ n \notin DOMAIN rows
      /\ \A i \in DOMAIN rows : more[i] = rows[i]
      /\ more[n] = r
  BY AddedDomain DEF Added
<1>2. h[k + 1].to # RUN /\ Stop(h, k + 1)
  BY DEF Stop, Leaves, RUN, IDLE, ALARM
<1> HIDE DEF n
<1>3. ASSUME NEW i \in DOMAIN rows PROVE RowIsRight(h, k + 1, more[i]) /\ more[i].corr <= k
  <2>1. RowIsRight(h, k, rows[i])
    BY DEF RowsAt
  <2>2. ~Returns(h, rows[i].corr, k + 1)
    BY <1>2 DEF Returns
  <2>3. RowIsRight(h, k + 1, rows[i])
    BY <2>1, <2>2, RowStaysRight
  <2> QED
    BY <1>1, <2>1, <2>3 DEF RowIsRight
<1>4. RowIsRight(h, k + 1, r)
  <2>1. Unreturned(h, k + 1, k + 1)
    BY HistoryNumbers DEF Unreturned
  <2> QED
    BY <1>2, <2>1 DEF RowIsRight
<1>5. \A i \in DOMAIN more : RowIsRight(h, k + 1, more[i])
  BY <1>1, <1>3, <1>4
<1>6. \A s \in DOMAIN h : Stop(h, s) /\ s <= k + 1 => \E i \in DOMAIN more : more[i].corr = s
  <2>1. \A s \in DOMAIN h : s <= k + 1 => s <= k \/ s = k + 1
    BY HistoryNumbers
  <2> QED
    BY <1>1, <2>1 DEF RowsAt
<1>7. Distinct(more)
  <2>1. \A i \in DOMAIN rows : more[i].corr # k + 1
    BY <1>3
  <2> QED
    BY <1>1, <2>1 DEF RowsAt, Distinct
<1> QED
  BY <1>5, <1>6, <1>7 DEF RowsAt

\* The row a return closes: the one open row is that of the stop it ends.
LEMMA RowsClose ==
    ASSUME NEW h, GoodHistory(h), NEW k \in Nat, k + 1 \in DOMAIN h, Enters(h[k + 1]),
           NEW rows, RowsAt(h, k, rows),
           NEW f \in DOMAIN rows, rows[f].end = Open,
           NEW new, DOMAIN new = DOMAIN rows,
           \A i \in DOMAIN rows : i # f => new[i] = rows[i],
           new[f].corr = rows[f].corr, new[f].start = rows[f].start,
           new[f].reason = rows[f].reason, new[f].end = h[k + 1].at,
           new[f].lost = Lost(rows[f].start, h[k + 1].at)
    PROVE  RowsAt(h, k + 1, new) /\ Returns(h, rows[f].corr, k + 1)
<1> DEFINE s == rows[f].corr
<1>1. h[k + 1].to = RUN
  BY DEF Enters
<1>2. /\ RowIsRight(h, k, rows[f]) /\ Stop(h, s) /\ s <= k /\ Unreturned(h, s, k)
      /\ rows[f].start = h[s].at /\ rows[f].reason = h[s].to
  BY OpenIsUnreturned DEF RowsAt, RowIsRight
<1>3. Returns(h, s, k + 1)
  BY <1>1, <1>2, OneMoreEvent
<1>4. RowIsRight(h, k + 1, new[f])
  <2>1. s <= k + 1
    BY <1>2, HistoryNumbers DEF Stop
  <2>2. new[f].corr = s /\ k + 1 <= k + 1
    OBVIOUS
  <2> HIDE DEF s
  <2> QED
    BY <1>2, <1>3, <2>1, <2>2 DEF RowIsRight
<1>5. ASSUME NEW i \in DOMAIN rows, i # f PROVE RowIsRight(h, k + 1, rows[i])
  <2>1. RowIsRight(h, k, rows[i]) /\ Stop(h, rows[i].corr) /\ rows[i].corr <= k
    BY DEF RowsAt, RowIsRight
  <2>2. rows[i].corr # s
    BY <1>5 DEF RowsAt, Distinct
  <2>3. ~Unreturned(h, rows[i].corr, k)
    BY <1>2, <2>1, <2>2, StopOfReturn
  <2>4. ~Returns(h, rows[i].corr, k + 1)
    BY <2>1, <2>3, OneMoreEvent
  <2> QED
    BY <2>1, <2>4, RowStaysRight
<1>6. \A i \in DOMAIN new : RowIsRight(h, k + 1, new[i])
  BY <1>4, <1>5
<1>7. \A i \in DOMAIN rows : new[i].corr = rows[i].corr
  OBVIOUS
<1>8. \A t \in DOMAIN h : Stop(h, t) /\ t <= k + 1 => t <= k
  <2>1. ~Leaves(h[k + 1])
    BY <1>1 DEF Leaves, RUN, IDLE, ALARM
  <2>2. \A t \in DOMAIN h : t <= k + 1 => t <= k \/ t = k + 1
    BY HistoryNumbers
  <2> QED
    BY <2>1, <2>2 DEF Stop
<1>9. Distinct(new) /\ \A t \in DOMAIN h : Stop(h, t) /\ t <= k + 1 =>
                            \E i \in DOMAIN new : new[i].corr = t
  BY <1>7, <1>8 DEF RowsAt, Distinct
<1> QED
  BY <1>3, <1>6, <1>9 DEF RowsAt

\* The charge of the return that ends a downtime of positive length.
LEMMA ChargesGrow ==
    ASSUME NEW h, GoodHistory(h), NEW k \in Nat, k + 1 \in DOMAIN h,
           NEW s, Stop(h, s), Returns(h, s, k + 1),
           NEW charges, ChargesAt(h, k, charges), NEW more, NEW c, Added(charges, more, c),
           c.corr = k + 1, c.qty = Lost(h[s].at, h[k + 1].at)
    PROVE  ChargesAt(h, k + 1, more)
<1> DEFINE n == Len(charges) + 1
<1>1. /\ DOMAIN more = DOMAIN charges \cup {n} /\ n \notin DOMAIN charges
      /\ \A i \in DOMAIN charges : more[i] = charges[i]
      /\ more[n] = c
  BY AddedDomain DEF Added
<1> HIDE DEF n
<1>2. ASSUME NEW i \in DOMAIN charges
      PROVE  ChargeIsRight(h, k + 1, more[i]) /\ more[i].corr # k + 1
  <2>1. ChargeIsRight(h, k, more[i])
    BY <1>1 DEF ChargesAt
  <2>2. more[i].corr \in DOMAIN h
    BY <2>1 DEF ChargeIsRight, Returns
  <2>3. more[i].corr <= k + 1 /\ more[i].corr # k + 1
    BY <2>1, <2>2, HistoryNumbers DEF ChargeIsRight
  <2> QED
    BY <2>1, <2>3 DEF ChargeIsRight
<1>3. ChargeIsRight(h, k + 1, c)
  <2>1. s \in DOMAIN h
    BY DEF Stop
  <2>2. c.corr <= k + 1
    OBVIOUS
  <2> QED
    BY <2>1, <2>2 DEF ChargeIsRight
<1>4. \A i \in DOMAIN more : ChargeIsRight(h, k + 1, more[i])
  BY <1>1, <1>2, <1>3
<1>5. ASSUME NEW t \in DOMAIN h, NEW r \in DOMAIN h, Stop(h, t), Returns(h, t, r),
             r <= k + 1, Lost(h[t].at, h[r].at) > 0
      PROVE  \E i \in DOMAIN more : more[i].corr = r
  <2>1. r <= k \/ r = k + 1
    BY <1>5, HistoryNumbers
  <2>2. CASE r <= k
    BY <1>1, <1>5, <2>2 DEF ChargesAt
  <2>3. CASE r = k + 1
    BY <1>1, <2>3
  <2> QED
    BY <2>1, <2>2, <2>3
<1>6. Distinct(more)
  BY <1>1, <1>2 DEF ChargesAt, Distinct
<1> QED
  BY <1>4, <1>5, <1>6 DEF ChargesAt

\* A longer history says the same of its beginning.
Longer(h, m) == /\ DOMAIN h \subseteq DOMAIN m /\ DOMAIN m \subseteq Nat
                /\ \A e \in DOMAIN h : m[e] = h[e]
                /\ \A e \in DOMAIN m \ DOMAIN h : \A k \in DOMAIN h \cup {0} : ~ (e <= k)

LEMMA LongerReads ==
    ASSUME NEW h, NEW m, GoodHistory(h), Longer(h, m), NEW k \in DOMAIN h \cup {0}
    PROVE  /\ \A s : s <= k => (Stop(m, s) <=> Stop(h, s))
           /\ \A s : Unreturned(m, s, k) <=> Unreturned(h, s, k)
           /\ \A s, r : r <= k => (Returns(m, s, r) <=> Returns(h, s, r))
           /\ \A s \in DOMAIN m : s <= k => s \in DOMAIN h
<1>1. \A s \in DOMAIN m : s <= k => s \in DOMAIN h
  BY DEF Longer
<1>2. \A s : s <= k => (Stop(m, s) <=> Stop(h, s))
  BY <1>1 DEF Stop, Longer
<1>3. \A s, j : j \in DOMAIN h \cup {0} => (Unreturned(m, s, j) <=> Unreturned(h, s, j))
  BY DEF Unreturned, Longer
<1>4. ASSUME NEW s, NEW r, r <= k PROVE Returns(m, s, r) <=> Returns(h, s, r)
  <2>1. r \in DOMAIN m <=> r \in DOMAIN h
    BY <1>1, <1>4 DEF Longer
  <2>2. ASSUME r \in DOMAIN h
        PROVE  Unreturned(m, s, r - 1) <=> Unreturned(h, s, r - 1)
    <3>1. r - 1 \in DOMAIN h \cup {0}
      BY <2>2, HistoryNumbers
    <3> QED
      BY <1>3, <3>1
  <2>3. r \in DOMAIN h => m[r] = h[r]
    BY DEF Longer
  <2> QED
    BY <2>1, <2>2, <2>3 DEF Returns
<1> QED
  BY <1>1, <1>2, <1>3, <1>4

LEMMA LongerRows ==
    ASSUME NEW h, NEW m, GoodHistory(h), Longer(h, m), NEW k \in DOMAIN h \cup {0},
           NEW rows, RowsAt(h, k, rows)
    PROVE  RowsAt(m, k, rows)
<1>1. /\ \A s : s <= k => (Stop(m, s) <=> Stop(h, s))
      /\ \A s : Unreturned(m, s, k) <=> Unreturned(h, s, k)
      /\ \A s, r : r <= k => (Returns(m, s, r) <=> Returns(h, s, r))
      /\ \A s \in DOMAIN m : s <= k => s \in DOMAIN h
      /\ \A e \in DOMAIN h : e \in DOMAIN m /\ m[e] = h[e]
  BY LongerReads DEF Longer
<1>2. ASSUME NEW i \in DOMAIN rows PROVE RowIsRight(m, k, rows[i])
  <2>1. RowIsRight(h, k, rows[i])
    BY DEF RowsAt
  <2>2. rows[i].corr \in DOMAIN h /\ rows[i].corr <= k
    BY <2>1 DEF RowIsRight, Stop
  <2> QED
    BY <1>1, <2>1, <2>2 DEF RowIsRight
<1> QED
  BY <1>1, <1>2 DEF RowsAt

LEMMA LongerCharges ==
    ASSUME NEW h, NEW m, GoodHistory(h), Longer(h, m), NEW k \in DOMAIN h \cup {0},
           NEW charges, ChargesAt(h, k, charges)
    PROVE  ChargesAt(m, k, charges)
<1>1. /\ \A s : s <= k => (Stop(m, s) <=> Stop(h, s))
      /\ \A s : Unreturned(m, s, k) <=> Unreturned(h, s, k)
      /\ \A s, r : r <= k => (Returns(m, s, r) <=> Returns(h, s, r))
      /\ \A s \in DOMAIN m : s <= k => s \in DOMAIN h
      /\ \A e \in DOMAIN h : e \in DOMAIN m /\ m[e] = h[e]
  BY LongerReads DEF Longer
<1>2. ASSUME NEW i \in DOMAIN charges PROVE ChargeIsRight(m, k, charges[i])
  <2>1. ChargeIsRight(h, k, charges[i])
    BY DEF ChargesAt
  <2>2. PICK s \in DOMAIN h : /\ Stop(h, s) /\ Returns(h, s, charges[i].corr)
                              /\ charges[i].qty = Lost(h[s].at, h[charges[i].corr].at)
    BY <2>1 DEF ChargeIsRight
  <2>3. charges[i].corr \in DOMAIN h /\ charges[i].corr <= k /\ s \in Nat /\ k \in Nat
        /\ charges[i].corr \in Nat /\ s < charges[i].corr
    BY <2>1, <2>2, HistoryNumbers DEF ChargeIsRight, Returns
  <2>4. s <= k
    BY <2>3
  <2> QED
    BY <1>1, <2>2, <2>3, <2>4 DEF ChargeIsRight
<1>3. ASSUME NEW s \in DOMAIN m, NEW r \in DOMAIN m, Stop(m, s), Returns(m, s, r), r <= k,
             Lost(m[s].at, m[r].at) > 0
      PROVE  \E i \in DOMAIN charges : charges[i].corr = r
  <2>1. r \in DOMAIN h /\ Returns(h, s, r) /\ s < r
    BY <1>1, <1>3 DEF Returns
  <2>2. s \in DOMAIN h /\ s <= k
    <3>1. \A e \in DOMAIN m \ DOMAIN h : ~ (e <= r)
      BY <2>1 DEF Longer
    <3>2. s \in DOMAIN h \/ ~ (s <= r)
      BY <3>1
    <3>3. s \in Nat /\ r \in Nat /\ k \in Nat
      BY <2>1, HistoryNumbers DEF Longer
    <3>4. s \in DOMAIN h
      BY <2>1, <3>2, <3>3
    <3>6. s <= k
      BY <3>3, <2>1, <1>3
    <3> QED
      BY <3>4, <3>6
  <2>3. Stop(h, s)
    BY <1>1, <1>3, <2>2
  <2> QED
    BY <1>1, <1>3, <2>1, <2>2, <2>3 DEF ChargesAt
<1> QED
  BY <1>2, <1>3 DEF ChargesAt

\* Rows with different corr are as many as the sequence is long.
LEMMA DistinctCounts ==
    ASSUME NEW S, NEW rows \in Seq(S), Distinct(rows)
    PROVE  Cardinality({rows[i] : i \in DOMAIN rows}) = Len(rows)
<1> DEFINE T == {rows[i] : i \in DOMAIN rows}
           f == [i \in 1..Len(rows) |-> rows[i]]
<1>1. DOMAIN rows = 1..Len(rows) /\ Len(rows) \in Nat
  OBVIOUS
<1>2. f \in [1..Len(rows) -> T]
  BY <1>1
<1>3. \A i, j \in 1..Len(rows) : f[i] = f[j] => i = j
  BY <1>1 DEF Distinct
<1>4. \A t \in T : \E i \in 1..Len(rows) : f[i] = t
  BY <1>1
<1> HIDE DEF f, T
<1>5. f \in Injection(1..Len(rows), T) /\ f \in Surjection(1..Len(rows), T)
  BY <1>2, <1>3, <1>4 DEF Injection, IsInjective, Surjection
<1>6. ExistsBijection(1..Len(rows), T)
  BY <1>5 DEF ExistsBijection, Bijection
<1> QED
  BY <1>1, <1>6, FS_CountingElements DEF T

-----------------------------------------------------------------------------
(* The tables across each step.                                            *)

EInv == LTypes /\ Exact

LEMMA HistoryIsGood ==
    ASSUME EInv PROVE GoodHistory(history)
BY DEF EInv, Exact, LTypes, Typed, GoodHistory

\* A failure disturbs the ledger for good.
LEMMA FaultDisturbs ==
    ASSUME LTypes, Fault PROVE ~Undisturbed'
BY Numbers DEF LTypes, Typed, Fault, Undisturbed

LEMMA TransitionExact ==
    ASSUME EInv, LTypes', NEW to \in {RUN, IDLE, ALARM}, NEW at \in 1..MaxTime,
           NEW zone \in Zones, Transition(to, at, zone)
    PROVE  Exact'
<1> DEFINE ev == [from |-> LastState, to |-> to, at |-> at, zone |-> zone]
           n  == Len(history) + 1
<1>1. /\ history' = Append(history, ev) /\ ev.to = to /\ ev.from = LastState
      /\ UNCHANGED <<cursor, raised, pc, found, downtime, losses, faults>>
  BY DEF Transition, tables
<1>2. /\ Events' = 1..n /\ Events = 1..Len(history) /\ Len(history) \in Nat
      /\ \A e \in Events : e \in Events' /\ history'[e] = history[e]
                           /\ status'[e] = status[e] /\ attempts'[e] = attempts[e]
      /\ status'[n] = "pending" /\ history' \in Seq(Transitions)
  BY LogGrows, EventNumbers DEF EInv, LTypes
<1>3. history \in Seq(Transitions) /\ Linked(history)
  BY DEF EInv, LTypes, Typed, Exact
<1> HIDE DEF ev
<1>4. history'[n] = ev /\ Len(history') = n
  BY <1>1, <1>3
<1>5. Linked(history')
  <2>1. \A e \in Events' : e \in Events \/ e = n
    BY <1>2
  <2>2. ASSUME NEW e \in Events
        PROVE  /\ history'[e].to \in {RUN, IDLE, ALARM}
               /\ e - 1 \in Events' => history'[e].from = history'[e - 1].to
    <3>1. e - 1 \in Events' => e - 1 \in Events
      BY <1>2
    <3> QED
      BY <1>2, <1>3, <3>1 DEF Linked, Events
  <2>3. n - 1 \in Events' => history'[n].from = history'[n - 1].to
    <3> SUFFICES ASSUME n - 1 \in Events' PROVE LastState = history'[n - 1].to
      BY <1>1, <1>4
    <3>1. n - 1 = Len(history) /\ Len(history) \in Events
      BY <1>2
    <3>2. history # <<>>
      BY <3>1, <1>2
    <3> QED
      BY <1>2, <3>1, <3>2 DEF LastState
  <2> QED
    BY <1>1, <1>4, <2>1, <2>2, <2>3 DEF Linked, Events
<1>6. Longer(history, history')
  <2>1. DOMAIN history = 1..Len(history) /\ DOMAIN history' = 1..n
    BY <1>2 DEF Events
  <2> QED
    BY <1>2, <2>1 DEF Longer, Events
<1>7. ASSUME Undisturbed' PROVE \E d \in 0..Len(history)' : ExactTo(d)'
  <2>1. Undisturbed
    BY <1>1, <1>2, <1>7 DEF Undisturbed
  <2>2. PICK d \in 0..Len(history) : ExactTo(d)
    BY <2>1 DEF EInv, Exact
  <2>3. d \in DOMAIN history \cup {0} /\ d \in Nat /\ d \in 0..Len(history')
    BY <1>2, <1>4 DEF Events
  <2>4. WalkedTo(d)'
    <3>1. \A e \in Events' : e \in Events \/ e = n
      BY <1>2
    <3>2. ~ (n <= d)
      BY <1>2
    <3> QED
      BY <1>1, <1>2, <2>2, <3>1, <3>2 DEF ExactTo, WalkedTo
  <2>5. ASSUME NEW k \in DOMAIN history \cup {0}
        PROVE  /\ RowsAt(history, k, downtime) => RowsAt(history', k, downtime)
               /\ ChargesAt(history, k, losses) => ChargesAt(history', k, losses)
    BY <1>6, LongerRows, LongerCharges, HistoryIsGood
  <2>6. pc # "idle" => /\ d + 1 \in DOMAIN history /\ cursor = d + 1
    BY <2>2 DEF ExactTo, WalkedTo, EInv, LTypes, InHand, Events
  <2>7. pc = "charging" => Returns(history', downtime[found].corr, cursor)
    <3> SUFFICES ASSUME pc = "charging" PROVE Returns(history', downtime[found].corr, cursor)
      OBVIOUS
    <3>1. cursor \in DOMAIN history \cup {0} /\ cursor <= cursor
      BY <2>3, <2>6
    <3>2. Returns(history, downtime[found].corr, cursor)
      BY <2>2 DEF ExactTo, TablesOf
    <3> QED
      BY <1>6, <3>1, <3>2, LongerReads, HistoryIsGood
  <2>8. TablesOf(d)'
    BY <1>1, <2>2, <2>3, <2>5, <2>6, <2>7 DEF ExactTo, TablesOf, LedgerAt
  <2> QED
    BY <2>3, <2>4, <2>8 DEF ExactTo
<1> QED
  BY <1>5, <1>7 DEF Exact

\* The event in hand is the first that is not worked off.
LEMMA PublishExact ==
    ASSUME EInv, Publish
    PROVE  Exact'
<1>1. /\ pc = "idle" /\ cursor' \in Ahead /\ \A f \in Ahead : cursor' <= f
      /\ pc' = Branch(history[cursor']) /\ raised' = FALSE
      /\ UNCHANGED <<history, status, attempts, found, downtime, losses, faults>>
  BY NextIsAhead DEF Publish, tables, EInv, LTypes
<1>2. Linked(history') /\ Events' = Events
  BY <1>1 DEF EInv, Exact, Events
<1>3. ASSUME Undisturbed' PROVE \E d \in 0..Len(history)' : ExactTo(d)'
  <2>1. PICK d \in 0..Len(history) : ExactTo(d)
    BY <1>1, <1>2, <1>3 DEF Undisturbed, EInv, Exact
  <2>2. /\ d \in Nat /\ cursor <= d /\ cursor \in Nat /\ Events = 1..Len(history)
        /\ Len(history) \in Nat /\ cursor' \in Events
        /\ \A e \in Events : status[e] = IF e <= d THEN "dispatched" ELSE "pending"
    BY <1>1, <2>1, EventNumbers DEF ExactTo, WalkedTo, EInv, LTypes, Typed, Ahead, Pending
  <2>3. cursor' = d + 1
    <3>1. status[cursor'] = "pending"
      BY <1>1 DEF Ahead, Pending
    <3>2. cursor' > d /\ cursor' \in Nat
      BY <2>2, <3>1
    <3>3. d + 1 \in Events /\ status[d + 1] = "pending" /\ d + 1 > cursor
      BY <2>2, <3>2
    <3>4. cursor' <= d + 1
      BY <1>1, <3>3 DEF Ahead, Pending
    <3> QED
      BY <2>2, <3>2, <3>4
  <2>4. WalkedTo(d)'
    BY <1>1, <1>2, <2>2, <2>3 DEF WalkedTo, Branch
  <2>5. LedgerAt(d)
    BY <1>1, <2>1 DEF ExactTo, TablesOf
  <2>6. ~Leaves(history[d + 1]) /\ ~Enters(history[d + 1]) => LedgerAt(d + 1)
    <3> SUFFICES ASSUME ~Leaves(history[d + 1]), ~Enters(history[d + 1])
                 PROVE  LedgerAt(d + 1)
      OBVIOUS
    <3>1. \A s : Stop(history, s) => ~Returns(history, s, d + 1)
      BY HistoryIsGood, ReturnOfStop
    <3>2. d + 1 \in DOMAIN history
      BY <2>2, <2>3 DEF Events
    <3>3. RowsAt(history, d + 1, downtime)
      BY <2>2, <2>5, <3>1, <3>2, HistoryIsGood, RowsStand DEF LedgerAt
    <3>4. ChargesAt(history, d + 1, losses)
      BY <2>2, <2>5, <3>1, <3>2, HistoryIsGood, ChargesStand DEF LedgerAt
    <3> QED
      BY <3>3, <3>4 DEF LedgerAt
  <2>7. LedgerAt(d)' = LedgerAt(d) /\ LedgerAt(d + 1)' = LedgerAt(d + 1)
    BY <1>1 DEF LedgerAt
  <2>8. TablesOf(d)'
    BY <1>1, <2>3, <2>5, <2>6, <2>7 DEF TablesOf, Branch
  <2> QED
    BY <1>1, <2>4, <2>8 DEF ExactTo
<1> QED
  BY <1>2, <1>3 DEF Exact

\* A step of the handler on the event in hand: what it has to show.
LEMMA HandlerExact ==
    ASSUME EInv, pc # "idle", UNCHANGED <<history, status, attempts, cursor>>,
           pc' # "idle", faults \in Nat,
           Undisturbed' => faults = 0,
           ASSUME NEW d \in Nat, d + 1 = cursor, d + 1 \in DOMAIN history, ExactTo(d),
                  Undisturbed'
           PROVE  TablesOf(d)'
    PROVE  Exact'
<1>1. Linked(history') /\ Events' = Events
  BY DEF EInv, Exact, Events
<1>2. ASSUME Undisturbed' PROVE \E d \in 0..Len(history)' : ExactTo(d)'
  <2>1. PICK d \in 0..Len(history) : ExactTo(d)
    BY <1>1, <1>2 DEF Undisturbed, EInv, Exact
  <2>2. d \in Nat /\ d + 1 = cursor /\ d + 1 \in DOMAIN history
    BY <2>1, EventNumbers DEF ExactTo, WalkedTo, EInv, LTypes, InHand, Events
  <2>3. TablesOf(d)'
    BY <1>2, <2>1, <2>2
  <2>4. WalkedTo(d)'
    BY <1>1, <2>1 DEF ExactTo, WalkedTo
  <2> QED
    BY <2>1, <2>3, <2>4 DEF ExactTo
<1> QED
  BY <1>1, <1>2 DEF Exact

LEMMA OpenRowExact ==
    ASSUME EInv, OpenRow
    PROVE  Exact'
<1>1. /\ pc = "opening" /\ UNCHANGED <<history, status, attempts, cursor, found>>
      /\ pc' = "others" /\ faults \in Nat /\ ~raised
  BY DEF OpenRow, Raise, EInv, LTypes, Typed, InHand
<1>2. ASSUME Undisturbed'
      PROVE  /\ downtime' = Append(downtime, DowntimeRow(cursor))
             /\ UNCHANGED <<losses, raised, faults>>
  BY <1>2, FaultDisturbs DEF OpenRow, EInv
<1>3. Undisturbed' => faults = 0
  BY <1>2 DEF Undisturbed
<1>4. ASSUME NEW d \in Nat, d + 1 = cursor, d + 1 \in DOMAIN history, ExactTo(d),
             Undisturbed'
      PROVE  TablesOf(d)'
  <2>1. LedgerAt(d) /\ Leaves(history[d + 1])
    BY <1>1, <1>4 DEF ExactTo, TablesOf, EInv, LTypes, InHand
  <2> DEFINE r == DowntimeRow(cursor)
  <2>2. /\ r.corr = d + 1 /\ r.start = history[d + 1].at /\ r.reason = history[d + 1].to
        /\ r.end = Open /\ r.lost = 0
    BY <1>4 DEF DowntimeRow
  <2>3. Added(downtime, downtime', r)
    <3>1. DOMAIN downtime' = 1..(Len(downtime) + 1)
          /\ \A i \in DOMAIN downtime : downtime'[i] = downtime[i]
      BY <1>1, <1>2, <1>4, RowOpens DEF EInv
    <3>2. downtime \in Seq(Rows)
      BY DEF EInv, LTypes, Typed
    <3>3. downtime' = Append(downtime, r)
      BY <1>2, <1>4
    <3> HIDE DEF r
    <3>4. downtime'[Len(downtime) + 1] = r
      BY <3>2, <3>3
    <3> QED
      BY <3>1, <3>2, <3>4 DEF Added
  <2> HIDE DEF r
  <2>4. RowsAt(history, d + 1, downtime')
    BY <1>4, <2>1, <2>2, <2>3, HistoryIsGood, RowsOpen DEF LedgerAt
  <2>5. \A s \in DOMAIN history : ~Returns(history, s, d + 1)
    BY <2>1 DEF Returns, Leaves, RUN, IDLE, ALARM
  <2>6. ChargesAt(history, d + 1, losses)
    BY <1>4, <2>1, <2>5, HistoryIsGood, ChargesStand DEF LedgerAt
  <2> QED
    BY <1>1, <1>2, <1>4, <2>4, <2>6 DEF TablesOf, LedgerAt
<1> QED
  BY <1>1, <1>3, <1>4, HandlerExact

LEMMA LookUpExact ==
    ASSUME EInv, LookUp
    PROVE  Exact'
<1>1. /\ pc = "looking" /\ UNCHANGED <<history, status, attempts, cursor>>
      /\ pc' \in {"others", "closing"} /\ faults \in Nat
      /\ downtime' = downtime /\ losses' = losses
  BY DEF LookUp, Raise, tables, EInv, LTypes, Typed
<1>2. ASSUME Undisturbed'
      PROVE  /\ faults' = faults
             /\ \/ pc' = "others" /\ raised'
                \/ pc' = "closing"
                \/ pc' = "others" /\ get_open = NoRow
  BY <1>2, FaultDisturbs DEF LookUp, Raise, EInv
<1>3. Undisturbed' => faults = 0
  BY <1>2 DEF Undisturbed
<1>4. ASSUME NEW d \in Nat, d + 1 = cursor, d + 1 \in DOMAIN history, ExactTo(d),
             Undisturbed'
      PROVE  TablesOf(d)'
  <2>1. LedgerAt(d) /\ Enters(history[d + 1])
    BY <1>1, <1>4 DEF ExactTo, TablesOf, EInv, LTypes, InHand
  <2>2. LedgerAt(d)' = LedgerAt(d) /\ LedgerAt(d + 1)' = LedgerAt(d + 1)
    BY <1>1 DEF LedgerAt
  <2>3. get_open = NoRow => LedgerAt(d + 1)
    <3> SUFFICES ASSUME get_open = NoRow PROVE LedgerAt(d + 1)
      OBVIOUS
    <3>1. \A i \in DOMAIN downtime : downtime[i].end # Open
      BY GetOpen DEF OpenRows, EInv
    <3>2. ~Leaves(history[d + 1])
      BY <2>1 DEF Leaves, Enters, RUN, IDLE, ALARM
    <3>3. \A s \in DOMAIN history : Stop(history, s) /\ s <= d => ~Returns(history, s, d + 1)
      BY <1>4, <2>1, <3>1, HistoryIsGood, NothingToClose DEF LedgerAt
    <3>4. RowsAt(history, d + 1, downtime)
      BY <1>4, <2>1, <3>2, <3>3, HistoryIsGood, RowsStand DEF LedgerAt
    <3>5. \A s \in DOMAIN history : Returns(history, s, d + 1) => s <= d
      BY <1>4, HistoryIsGood, HistoryNumbers DEF Returns
    <3>6. ChargesAt(history, d + 1, losses)
      BY <1>4, <2>1, <3>3, <3>5, HistoryIsGood, ChargesStand DEF LedgerAt
    <3> QED
      BY <3>4, <3>6 DEF LedgerAt
  <2> QED
    BY <1>2, <1>4, <2>1, <2>2, <2>3 DEF TablesOf
<1> QED
  BY <1>1, <1>3, <1>4, HandlerExact

LEMMA CloseRowExact ==
    ASSUME EInv, CloseRow
    PROVE  Exact'
<1>1. /\ pc = "closing" /\ UNCHANGED <<history, status, attempts, cursor, found>>
      /\ pc' \in {"others", "charging"} /\ faults \in Nat /\ losses' = losses
  BY DEF CloseRow, Raise, tables, EInv, LTypes, Typed
<1>2. ASSUME Undisturbed'
      PROVE  /\ downtime' = [downtime EXCEPT
                    ![found].end = Current.at,
                    ![found].lost = Lost(downtime[found].start, Current.at)]
             /\ pc' = "charging" /\ faults' = faults
  BY <1>2, FaultDisturbs DEF CloseRow, EInv
<1>3. Undisturbed' => faults = 0
  BY <1>2 DEF Undisturbed
<1>4. ASSUME NEW d \in Nat, d + 1 = cursor, d + 1 \in DOMAIN history, ExactTo(d),
             Undisturbed'
      PROVE  TablesOf(d)'
  <2>1. LedgerAt(d) /\ Enters(history[d + 1]) /\ downtime[found].end = Open
    BY <1>1, <1>4 DEF ExactTo, TablesOf, EInv, LTypes, InHand
  <2>2. /\ DOMAIN downtime' = DOMAIN downtime /\ found \in DOMAIN downtime
        /\ \A i \in DOMAIN downtime : i # found => downtime'[i] = downtime[i]
        /\ downtime'[found].corr = downtime[found].corr
        /\ downtime'[found].start = downtime[found].start
        /\ downtime'[found].reason = downtime[found].reason
        /\ downtime'[found].end = history[d + 1].at
        /\ downtime'[found].lost = Lost(downtime[found].start, history[d + 1].at)
    BY <1>1, <1>2, <1>4, RowCloses DEF EInv
  <2>3. RowsAt(history, d + 1, downtime') /\ Returns(history, downtime[found].corr, d + 1)
    BY <1>4, <2>1, <2>2, HistoryIsGood, RowsClose DEF LedgerAt
  <2> QED
    BY <1>1, <1>2, <1>4, <2>1, <2>2, <2>3 DEF TablesOf, LedgerAt
<1> QED
  BY <1>1, <1>3, <1>4, HandlerExact

LEMMA ChargeExact ==
    ASSUME EInv, Charge
    PROVE  Exact'
<1>1. /\ pc = "charging" /\ pc' = "others" /\ faults \in Nat /\ ~raised
      /\ UNCHANGED <<history, status, attempts, cursor, found, downtime>>
  BY DEF Charge, EInv, LTypes, Typed, InHand
<1> DEFINE c == [corr |-> cursor, qty |-> downtime[found].lost]
<1>2. ASSUME Undisturbed'
      PROVE  /\ faults' = faults /\ raised' = raised
             /\ losses' = IF downtime[found].lost = 0 THEN losses ELSE Append(losses, c)
  <2>1. downtime[found].lost \in Nat
    BY <1>1, EventNumbers DEF EInv, LTypes, InHand, Rows
  <2>2. ~Fault
    BY <1>2, FaultDisturbs DEF EInv
  <2>3. /\ UNCHANGED <<raised, faults>>
        /\ \/ downtime[found].lost = 0 /\ UNCHANGED losses
           \/ downtime[found].lost > 0 /\ RecordLoss
    BY <2>2 DEF Charge
  <2> QED
    BY <2>1, <2>3 DEF RecordLoss
<1>3. Undisturbed' => faults = 0
  BY <1>2 DEF Undisturbed
<1>4. ASSUME NEW d \in Nat, d + 1 = cursor, d + 1 \in DOMAIN history, ExactTo(d),
             Undisturbed'
      PROVE  TablesOf(d)'
  <2> DEFINE s == downtime[found].corr
  <2>1. /\ RowsAt(history, d + 1, downtime) /\ ChargesAt(history, d, losses)
        /\ Returns(history, s, d + 1) /\ found \in DOMAIN downtime
    BY <1>1, <1>4 DEF ExactTo, TablesOf, EInv, LTypes, InHand
  <2>2. Stop(history, s) /\ downtime[found].lost = Lost(history[s].at, history[d + 1].at)
    <3>1. RowIsRight(history, d + 1, downtime[found])
      BY <2>1 DEF RowsAt
    <3>2. ~Unreturned(history, s, d + 1)
      BY <1>4, <2>1 DEF Returns, Unreturned
    <3>3. \A q : Returns(history, s, q) => q = d + 1
      BY <2>1, <3>1, HistoryIsGood, ReturnOfStop DEF RowIsRight
    <3> QED
      BY <3>1, <3>2, <3>3 DEF RowIsRight
  <2>3. CASE downtime[found].lost = 0
    <3>1. \A t \in DOMAIN history : Stop(history, t) /\ Returns(history, t, d + 1) => t = s
      BY <2>1, <2>2, HistoryIsGood, ReturnOfStop
    <3>2. ChargesAt(history, d + 1, losses)
      <4>1. ASSUME NEW t \in DOMAIN history, Stop(history, t), Returns(history, t, d + 1)
            PROVE  ~ (Lost(history[t].at, history[d + 1].at) > 0)
        <5>1. t = s
          BY <3>1, <4>1
        <5>2. Lost(history[s].at, history[d + 1].at) = 0
          BY <2>2, <2>3
        <5> HIDE DEF s
        <5>3. Lost(history[t].at, history[d + 1].at) = 0
          BY <5>1, <5>2
        <5> QED
          BY <5>3
      <4> QED
        BY <1>4, <2>1, <4>1, HistoryIsGood, ChargesStand
    <3>3. losses' = losses
      BY <1>2, <1>4, <2>3
    <3> QED
      BY <1>1, <1>2, <1>4, <2>1, <3>2, <3>3 DEF TablesOf, LedgerAt
  <2>4. CASE downtime[found].lost # 0
    <3>1. losses' = Append(losses, c)
      BY <1>2, <1>4, <2>4
    <3>2. /\ losses \in Seq(Charges) /\ DOMAIN losses' = 1..(Len(losses) + 1)
          /\ \A i \in DOMAIN losses : losses'[i] = losses[i]
      BY <1>1, <2>4, <3>1, ChargeAppends DEF EInv, LTypes, Typed
    <3>3. c.corr = d + 1 /\ c.qty = Lost(history[s].at, history[d + 1].at)
      BY <1>4, <2>2
    <3> HIDE DEF c, s
    <3>4. losses'[Len(losses) + 1] = c
      BY <3>1, <3>2
    <3>5. Added(losses, losses', c)
      BY <3>2, <3>4 DEF Added
    <3>6. ChargesAt(history, d + 1, losses')
      BY <1>4, <2>1, <2>2, <3>3, <3>5, HistoryIsGood, ChargesGrow
    <3> QED
      BY <1>1, <1>2, <1>4, <2>1, <3>6 DEF TablesOf, LedgerAt
  <2> QED
    BY <2>3, <2>4
<1> QED
  BY <1>1, <1>3, <1>4, HandlerExact

LEMMA SettleExact ==
    ASSUME EInv, Settle
    PROVE  Exact'
<1>1. /\ pc = "others" /\ pc' = "idle" /\ UNCHANGED <<history, downtime, losses>>
      /\ cursor \in Events /\ LTypes
  BY DEF Settle, tables, EInv, LTypes, InHand
<1>2. Linked(history') /\ Events' = Events
  BY <1>1 DEF EInv, Exact, Events
<1>3. ASSUME Undisturbed' PROVE \E d \in 0..Len(history)' : ExactTo(d)'
  <2>1. CountFailure => FALSE
    <3>1. CountFailure => attempts'[cursor] > 0 /\ attempts' \in [Events -> 0..MAX_ATTEMPTS]
      BY <1>1, CountFailureMay
    <3>2. attempts'[cursor] = 0
      BY <1>1, <1>2, <1>3 DEF Undisturbed
    <3> QED
      BY <3>1, <3>2
  <2>2. ~raised /\ Dispatch /\ faults' = faults
    BY <1>1, <1>3, <2>1, FaultDisturbs DEF Settle
  <2>3. attempts' = attempts /\ cursor' = cursor
    BY <2>2 DEF Dispatch
  <2>4. PICK d \in 0..Len(history) : ExactTo(d)
    BY <1>2, <1>3, <2>2, <2>3 DEF Undisturbed, EInv, Exact
  <2>5. /\ d \in Nat /\ cursor = d + 1 /\ Events = 1..Len(history) /\ Len(history) \in Nat
        /\ LedgerAt(d + 1)
        /\ \A e \in Events : status[e] = IF e <= d THEN "dispatched" ELSE "pending"
    BY <1>1, <2>2, <2>4, EventNumbers DEF ExactTo, WalkedTo, TablesOf, LTypes
  <2>6. d + 1 \in 0..Len(history)
    BY <1>1, <2>5
  <2>7. WalkedTo(d + 1)'
    <3>1. \A e \in Events : status'[e] = IF e <= d + 1 THEN "dispatched" ELSE "pending"
      <4>1. /\ status'[cursor] = "dispatched"
            /\ \A e \in Events \ {cursor} : status'[e] = status[e]
        BY <1>1, <2>2, DispatchMay
      <4>2. \A e \in Events \ {cursor} : e <= d + 1 <=> e <= d
        BY <2>5
      <4> QED
        BY <2>5, <2>6, <4>1, <4>2
    <3>2. cursor' <= d + 1
      BY <2>3, <2>5
    <3> QED
      BY <1>1, <1>2, <3>1, <3>2 DEF WalkedTo
  <2>8. TablesOf(d + 1)'
    BY <1>1, <2>5 DEF TablesOf, LedgerAt
  <2> QED
    BY <1>1, <2>6, <2>7, <2>8 DEF ExactTo
<1> QED
  BY <1>2, <1>3 DEF Exact

LEMMA ExactStep ==
    ASSUME EInv, [Next]_vars
    PROVE  EInv'
<1>1. LTypes'
  BY LTypesStep DEF EInv
<1>2. CASE UNCHANGED vars
  <2>1. UNCHANGED <<history, status, attempts, cursor, pc, found, raised, downtime,
                    losses, faults>>
    BY <1>2 DEF vars, relayVars, tables
  <2>2. Exact'
    BY <2>1 DEF EInv, Exact, Undisturbed, Events, ExactTo, WalkedTo, TablesOf, LedgerAt
  <2> QED
    BY <1>1, <2>2 DEF EInv
<1>3. CASE NextDrain
  <2>1. /\ UNCHANGED <<history, status, attempts, pc, found, raised, downtime, losses, faults>>
        /\ cursor' = 0 /\ pc = "idle"
    BY <1>3 DEF NextDrain, tables
  <2>2. Linked(history') /\ Events' = Events
    BY <2>1 DEF EInv, Exact, Events
  <2>3. ASSUME Undisturbed' PROVE \E d \in 0..Len(history)' : ExactTo(d)'
    <3>1. PICK d \in 0..Len(history) : ExactTo(d)
      BY <2>1, <2>2, <2>3 DEF Undisturbed, EInv, Exact
    <3>2. WalkedTo(d)'
      BY <2>1, <2>2, <3>1 DEF ExactTo, WalkedTo
    <3>3. TablesOf(d)'
      BY <2>1, <3>1 DEF ExactTo, TablesOf, LedgerAt
    <3> QED
      BY <2>1, <3>2, <3>3 DEF ExactTo
  <2> QED
    BY <1>1, <2>2, <2>3 DEF EInv, Exact
<1>4. CASE Restart
  <2>1. ~Undisturbed'
    BY <1>4, FaultDisturbs DEF Restart, EInv
  <2>2. Linked(history')
    BY <1>4 DEF Restart, EInv, Exact
  <2> QED
    BY <1>1, <2>1, <2>2 DEF EInv, Exact
<1>5. ASSUME NEW to \in {RUN, IDLE, ALARM}, NEW at \in 1..MaxTime, NEW zone \in Zones,
             Transition(to, at, zone)
      PROVE  EInv'
  BY <1>1, <1>5, TransitionExact DEF EInv
<1>6. CASE Publish \/ on_state_changed \/ Settle
  BY <1>1, <1>6, PublishExact, OpenRowExact, LookUpExact, CloseRowExact, ChargeExact,
     SettleExact DEF EInv, on_state_changed
<1> QED
  BY <1>2, <1>3, <1>4, <1>5, <1>6 DEF Next, Relay

LEMMA ExactStarts ==
    ASSUME Init PROVE EInv
<1>1. /\ history = <<>> /\ downtime = <<>> /\ losses = <<>> /\ cursor = 0 /\ pc = "idle"
      /\ Events = {} /\ Len(history) = 0
  BY DEF Init, Events
<1>2. Linked(history)
  BY <1>1 DEF Linked
<1>3. LedgerAt(0)
  BY <1>1 DEF LedgerAt, RowsAt, ChargesAt, Distinct
<1>4. ExactTo(0)
  BY <1>1, <1>3 DEF ExactTo, WalkedTo, TablesOf
<1> QED
  BY <1>1, <1>2, <1>4, LedgerStarts DEF EInv, Exact

-----------------------------------------------------------------------------
(* The reference.                                                          *)

\* Up to d, the first return the reference chooses is the one the rows have.
LEMMA ChosenReturn ==
    ASSUME GoodHistory(history), NEW d \in 0..Len(history), Delivered = 1..d,
           NEW s, Stop(history, s), s <= d
    PROVE  /\ ReturnsAfter(s) = {} <=> Unreturned(history, s, d)
           /\ \A r \in DOMAIN history :
                 r <= d /\ Returns(history, s, r) => ReturnOf(s) = r
           /\ ReturnsAfter(s) # {} => /\ ReturnOf(s) \in DOMAIN history
                                      /\ ReturnOf(s) <= d
                                      /\ Returns(history, s, ReturnOf(s))
<1>1. /\ Events = 1..Len(history) /\ Len(history) \in Nat /\ d \in Nat /\ s \in Events
      /\ DOMAIN history = Events /\ s \in Nat
  BY HistoryNumbers DEF Events, Stop
<1>2. ReturnsAfter(s) = {r \in DOMAIN history : r <= d /\ s < r /\ history[r].to = RUN}
  BY <1>1 DEF ReturnsAfter
<1>3. ReturnsAfter(s) \subseteq Nat
  BY <1>1, <1>2
<1>4. ReturnsAfter(s) = {} <=> Unreturned(history, s, d)
  BY <1>2 DEF Unreturned
<1>5. ASSUME NEW r \in ReturnsAfter(s), \A q \in ReturnsAfter(s) : r <= q
      PROVE  r \in DOMAIN history /\ r <= d /\ Returns(history, s, r)
  <2>1. r \in DOMAIN history /\ r <= d /\ s < r /\ history[r].to = RUN /\ r \in Nat
    BY <1>1, <1>2
  <2>2. ASSUME NEW q \in DOMAIN history, s < q, q <= r - 1, history[q].to = RUN PROVE FALSE
    <3>1. q \in Nat /\ q <= d
      BY <1>1, <2>1, <2>2
    <3>2. q \in ReturnsAfter(s)
      BY <1>2, <2>2, <3>1
    <3>3. r <= q
      BY <1>5, <3>2
    <3> QED
      BY <2>1, <2>2, <3>1, <3>3
  <2> QED
    BY <2>1, <2>2 DEF Returns, Unreturned
<1>6. ReturnsAfter(s) # {} => /\ ReturnOf(s) \in ReturnsAfter(s)
                              /\ \A q \in ReturnsAfter(s) : ReturnOf(s) <= q
  <2> SUFFICES ASSUME ReturnsAfter(s) # {}
               PROVE  /\ ReturnOf(s) \in ReturnsAfter(s)
                      /\ \A q \in ReturnsAfter(s) : ReturnOf(s) <= q
    OBVIOUS
  <2>1. \E r \in ReturnsAfter(s) : \A q \in ReturnsAfter(s) : r <= q
    BY <1>3, LeastNatural
  <2> QED
    BY <2>1 DEF ReturnOf
<1>7. ReturnsAfter(s) # {} => /\ ReturnOf(s) \in DOMAIN history
                              /\ ReturnOf(s) <= d
                              /\ Returns(history, s, ReturnOf(s))
  BY <1>5, <1>6
<1>8. ASSUME NEW r \in DOMAIN history, r <= d, Returns(history, s, r)
      PROVE  ReturnOf(s) = r
  <2>1. r \in ReturnsAfter(s)
    BY <1>2, <1>8 DEF Returns
  <2>2. Returns(history, s, ReturnOf(s))
    BY <1>7, <2>1
  <2> QED
    BY <1>8, <2>2, ReturnOfStop
<1> QED
  BY <1>4, <1>7, <1>8

\* The row of a stop, open and closed, field by field.
LEMMA RowFields ==
    ASSUME NEW row \in Rows, NEW s, NEW at, NEW lost,
           row.start = history[s].at, row.reason = history[s].to, row.corr = s
    PROVE  /\ row.end = Open /\ row.lost = 0 => row = DowntimeRow(s)
           /\ row.end = at /\ row.lost = lost =>
                 row = [DowntimeRow(s) EXCEPT !.end = at, !.lost = lost]
<1>1. DowntimeRow(s) = [start |-> history[s].at, end |-> Open, lost |-> 0,
                        reason |-> history[s].to, corr |-> s]
  BY DEF DowntimeRow
<1>2. [DowntimeRow(s) EXCEPT !.end = at, !.lost = lost] =
         [start |-> history[s].at, end |-> at, lost |-> lost,
          reason |-> history[s].to, corr |-> s]
  <2> DEFINE a     == history[s].at
             e     == history[s].to
             open  == DowntimeRow(s)
             ended == [open EXCEPT !.end = at]
  <2>1. open = [start |-> a, end |-> Open, lost |-> 0, reason |-> e, corr |-> s]
    BY <1>1
  <2> HIDE DEF a, e, open
  <2>2. [open EXCEPT !.end = at, !.lost = lost] = [ended EXCEPT !.lost = lost]
    OBVIOUS
  <2>3. ended = [start |-> a, end |-> at, lost |-> 0, reason |-> e, corr |-> s]
    BY <2>1
  <2> HIDE DEF ended
  <2>4. [ended EXCEPT !.lost = lost] =
           [start |-> a, end |-> at, lost |-> lost, reason |-> e, corr |-> s]
    BY <2>3
  <2> QED
    BY <2>2, <2>4 DEF a, e, open
<1>3. row = [start |-> row.start, end |-> row.end, lost |-> row.lost,
             reason |-> row.reason, corr |-> row.corr]
  BY DEF Rows
<1>4. ASSUME row.end = Open, row.lost = 0 PROVE row = DowntimeRow(s)
  BY <1>1, <1>3, <1>4
<1>5. ASSUME row.end = at, row.lost = lost
      PROVE  row = [DowntimeRow(s) EXCEPT !.end = at, !.lost = lost]
  BY <1>2, <1>3, <1>5
<1> QED
  BY <1>4, <1>5

LEMMA RowsAreExpected ==
    ASSUME LTypes, GoodHistory(history), NEW d \in 0..Len(history), Delivered = 1..d,
           RowsAt(history, d, downtime)
    PROVE  HoldsExactly(downtime, ExpectedRows)
<1> DEFINE closed(s) == [DowntimeRow(s) EXCEPT !.end = history[ReturnOf(s)].at,
                                               !.lost = LostIn(s)]
<1>1. \A s : s \in Stops <=> Stop(history, s) /\ s <= d
  <2>1. Delivered = {e \in DOMAIN history : e <= d}
    BY HistoryNumbers DEF Events
  <2> QED
    BY <2>1 DEF Stops, Stop
<1>2. \A s \in Stops : s \in Returned <=> ~Unreturned(history, s, d)
  BY <1>1, ChosenReturn DEF Returned
<1>3. ExpectedRows = {DowntimeRow(s) : s \in Stops \ Returned} \cup {closed(s) : s \in Returned}
  BY DEF ExpectedRows
<1>4. ASSUME NEW i \in DOMAIN downtime
      PROVE  LET s == downtime[i].corr
             IN  /\ s \in Stops
                 /\ s \notin Returned => downtime[i] = DowntimeRow(s)
                 /\ s \in Returned => downtime[i] = closed(s)
  <2> DEFINE row == downtime[i]
             s   == downtime[i].corr
  <2>1. RowIsRight(history, d, row) /\ row \in Rows
    BY EventNumbers DEF RowsAt, LTypes
  <2>2. /\ s \in Stops /\ Stop(history, s) /\ s <= d
        /\ row.start = history[s].at /\ row.reason = history[s].to /\ row.corr = s
    BY <1>1, <2>1 DEF RowIsRight
  <2>3. ASSUME s \notin Returned PROVE row = DowntimeRow(s)
    <3>1. Unreturned(history, s, d)
      BY <1>2, <2>2, <2>3
    <3>2. \A r \in DOMAIN history : r <= d => ~Returns(history, s, r)
      BY <3>1 DEF Returns, Unreturned
    <3>3. row.end = Open /\ row.lost = 0
      BY <2>1, <3>2 DEF RowIsRight
    <3> HIDE DEF row, s
    <3> QED
      BY <2>1, <2>2, <3>3, RowFields
  <2>4. ASSUME s \in Returned PROVE row = closed(s)
    <3>1. ~Unreturned(history, s, d)
      BY <1>2, <2>2, <2>4
    <3>2. PICK r \in DOMAIN history : /\ r <= d /\ Returns(history, s, r)
                                      /\ row.end = history[r].at
                                      /\ row.lost = Lost(history[s].at, history[r].at)
      BY <2>1, <3>1 DEF RowIsRight
    <3>3. ReturnOf(s) = r
      BY <2>2, <3>2, ChosenReturn
    <3>4. row.end = history[ReturnOf(s)].at /\ row.lost = LostIn(s)
      BY <3>2, <3>3 DEF LostIn
    <3> DEFINE at   == history[ReturnOf(s)].at
               lost == LostIn(s)
    <3>5. row.end = at /\ row.lost = lost
      BY <3>4
    <3>6. closed(s) = [DowntimeRow(s) EXCEPT !.end = at, !.lost = lost]
      OBVIOUS
    <3> HIDE DEF row, s, at, lost, closed
    <3> QED
      BY <2>1, <2>2, <3>5, <3>6, RowFields
  <2> QED
    BY <2>2, <2>3, <2>4
<1> HIDE DEF closed
<1>5. {downtime[i] : i \in DOMAIN downtime} \subseteq ExpectedRows
  BY <1>3, <1>4
<1>6. ASSUME NEW s \in Stops PROVE \E i \in DOMAIN downtime : downtime[i].corr = s
  BY <1>1 DEF RowsAt, Stop
<1>7. Returned \subseteq Stops
  BY DEF Returned
<1>8. ExpectedRows \subseteq {downtime[i] : i \in DOMAIN downtime}
  BY <1>3, <1>4, <1>6, <1>7
<1>9. Cardinality({downtime[i] : i \in DOMAIN downtime}) = Len(downtime)
  BY DistinctCounts DEF LTypes, Typed, RowsAt
<1> QED
  BY <1>5, <1>8, <1>9 DEF HoldsExactly

LEMMA ChargesAreExpected ==
    ASSUME LTypes, GoodHistory(history), NEW d \in 0..Len(history), Delivered = 1..d,
           ChargesAt(history, d, losses)
    PROVE  HoldsExactly(losses, ExpectedCharges)
<1> DEFINE charge(s) == [corr |-> ReturnOf(s), qty |-> LostIn(s)]
           Charged   == {t \in Returned : LostIn(t) > 0}
<1>1. \A s : s \in Stops <=> Stop(history, s) /\ s <= d
  <2>1. Delivered = {e \in DOMAIN history : e <= d}
    BY HistoryNumbers DEF Events
  <2> QED
    BY <2>1 DEF Stops, Stop
<1>2. ExpectedCharges = {charge(s) : s \in Charged}
  BY DEF ExpectedCharges
<1>3. \A c \in Charges : c = [corr |-> c.corr, qty |-> c.qty] /\ c.qty > 0
  BY DEF Charges
<1>4. ASSUME NEW i \in DOMAIN losses PROVE losses[i] \in ExpectedCharges
  <2>1. losses[i] \in Charges /\ ChargeIsRight(history, d, losses[i])
    BY EventNumbers DEF LTypes, ChargesAt
  <2> DEFINE r == losses[i].corr
  <2>2. PICK s \in DOMAIN history : /\ Stop(history, s) /\ Returns(history, s, r)
                                    /\ losses[i].qty = Lost(history[s].at, history[r].at)
    BY <2>1 DEF ChargeIsRight
  <2>3. r \in DOMAIN history /\ r <= d /\ s < r /\ d \in Nat
    BY <2>1, <2>2, HistoryNumbers DEF ChargeIsRight, Returns
  <2>4. s <= d
    BY <2>3, HistoryNumbers
  <2>5. ReturnOf(s) = r /\ ReturnsAfter(s) # {}
    <3>1. ~Unreturned(history, s, d)
      BY <2>2, <2>3 DEF Returns, Unreturned
    <3> QED
      BY <2>2, <2>3, <2>4, <3>1, ChosenReturn
  <2>6. LostIn(s) = losses[i].qty /\ s \in Returned
    BY <1>1, <2>2, <2>4, <2>5 DEF LostIn, Returned
  <2>7. s \in Charged /\ losses[i] = charge(s)
    BY <1>3, <2>1, <2>5, <2>6
  <2> QED
    BY <1>2, <2>7
<1>5. ASSUME NEW s \in Charged PROVE charge(s) \in {losses[i] : i \in DOMAIN losses}
  <2>1. /\ s \in Stops /\ Stop(history, s) /\ s <= d /\ ReturnsAfter(s) # {} /\ LostIn(s) > 0
    BY <1>1 DEF Returned
  <2> DEFINE r == ReturnOf(s)
  <2>2. r \in DOMAIN history /\ r <= d /\ Returns(history, s, r)
    BY <2>1, ChosenReturn
  <2>3. LostIn(s) = Lost(history[s].at, history[r].at)
    BY DEF LostIn
  <2> HIDE DEF r
  <2>4. PICK i \in DOMAIN losses : losses[i].corr = r
    BY <2>1, <2>2, <2>3 DEF ChargesAt, Stop
  <2>5. losses[i] \in Charges /\ ChargeIsRight(history, d, losses[i])
    BY EventNumbers DEF LTypes, ChargesAt
  <2>6. losses[i].qty = LostIn(s)
    BY <2>1, <2>2, <2>3, <2>4, <2>5, ReturnOfStop DEF ChargeIsRight
  <2>7. losses[i] = charge(s)
    BY <1>3, <2>4, <2>5, <2>6 DEF r
  <2> QED
    BY <2>7
<1>6. Cardinality({losses[i] : i \in DOMAIN losses}) = Len(losses)
  BY DistinctCounts DEF LTypes, Typed, ChargesAt
<1>7. {losses[i] : i \in DOMAIN losses} = ExpectedCharges
  <2> HIDE DEF charge, Charged
  <2> QED
    BY <1>2, <1>4, <1>5
<1> QED
  BY <1>6, <1>7 DEF HoldsExactly

\* While nothing fails the ledger is the function of the history that the
\* reference defines, for any history, clocks and rate: every stop one row,
\* closed by the first return after it, and one charge for each downtime of
\* positive length (capacity_tracker.py, mrp_impact_handler.py).
THEOREM LedgerIsExact == Spec => []UndisturbedLedgerIsExact
<1>1. ASSUME EInv PROVE UndisturbedLedgerIsExact
  <2> SUFFICES ASSUME Undisturbed, pc = "idle"
               PROVE  /\ HoldsExactly(downtime, ExpectedRows)
                      /\ HoldsExactly(losses, ExpectedCharges)
    BY DEF UndisturbedLedgerIsExact
  <2>1. PICK d \in 0..Len(history) : ExactTo(d)
    BY <1>1 DEF EInv, Exact
  <2>2. LedgerAt(d)
    BY <2>1 DEF ExactTo, TablesOf
  <2>3. Delivered = 1..d
    <3>1. Events = 1..Len(history) /\ Len(history) \in Nat
      BY <1>1, EventNumbers DEF EInv, LTypes
    <3>2. \A e \in Events : status[e] # "pending" <=> e <= d
      BY <2>1 DEF ExactTo, WalkedTo
    <3> QED
      BY <3>1, <3>2 DEF Delivered
  <2> QED
    BY <1>1, <2>2, <2>3, HistoryIsGood, RowsAreExpected, ChargesAreExpected
    DEF EInv, LedgerAt
<1> QED
  BY <1>1, ExactStarts, ExactStep, PTL DEF Spec

-----------------------------------------------------------------------------
(* With the times the system writes today no downtime ends.                *)

\* Every row is open and nothing is charged.
NothingEnds == losses = <<>> /\ \A i \in DOMAIN downtime : downtime[i].end = Open

NeverInv == LTypes /\ NothingEnds /\ pc \notin {"closing", "charging"}

LEMMA NothingEndsStep ==
    ASSUME Zones = {"aware"}, NeverInv, [Next]_vars
    PROVE  NeverInv'
<1> USE DEF NeverInv
<1>1. LTypes'
  BY LTypesStep
<1>2. ASSUME UNCHANGED tables, pc' = pc \/ pc' \in Steps \ {"closing", "charging"}
      PROVE  NeverInv'
  BY <1>1, <1>2 DEF tables, NothingEnds
<1>3. CASE UNCHANGED vars
  BY <1>2, <1>3 DEF vars
<1>4. ASSUME NEW to \in {RUN, IDLE, ALARM}, NEW at \in 1..MaxTime, NEW zone \in Zones,
             Transition(to, at, zone)
      PROVE  NeverInv'
  BY <1>2, <1>4 DEF Transition
<1>5. CASE Publish
  BY <1>2, <1>5 DEF Publish, Branch, Steps
<1>6. CASE NextDrain \/ Settle \/ Restart
  BY <1>2, <1>6 DEF NextDrain, Settle, Restart, Steps
<1>7. CASE OpenRow
  <2>1. CASE downtime' = Append(downtime, DowntimeRow(cursor)) /\ pc' = "others"
             /\ UNCHANGED losses
    <3>1. downtime \in Seq(Rows) /\ DowntimeRow(cursor).end = Open
      BY DEF LTypes, Typed, DowntimeRow
    <3> HIDE DEF DowntimeRow
    <3>2. \A i \in DOMAIN downtime' : downtime'[i].end = Open
      BY <2>1, <3>1 DEF NothingEnds
    <3> QED
      BY <1>1, <2>1, <3>2 DEF NothingEnds
  <2>2. CASE Raise
    BY <1>2, <2>2 DEF Raise, Steps
  <2> QED
    BY <1>7, <2>1, <2>2 DEF OpenRow
<1>8. CASE LookUp
  <2>1. Current.zone = "aware"
    <3>1. pc = "looking" /\ cursor \in Events
      BY <1>8 DEF LookUp, LTypes, InHand
    <3>2. history[cursor].zone \in Zones
      BY <3>1, EventNumbers DEF LTypes, Transitions
    <3> QED
      BY <3>2 DEF Current
  <2>2. CASE Raise
    BY <1>2, <2>2 DEF Raise, Steps
  <2>3. CASE get_open = NoRow /\ pc' = "others" /\ UNCHANGED tables
    BY <1>2, <2>3 DEF Steps
  <2> QED
    BY <1>8, <2>1, <2>2, <2>3 DEF LookUp
<1> QED
  BY <1>3, <1>4, <1>5, <1>6, <1>7, <1>8
  DEF Next, Relay, on_state_changed, CloseRow, Charge

\* When every time is tz-aware, as all times are that utils/clock.py makes, no
\* downtime row is ever closed and no capacity ever charged: not for a schedule,
\* a number of retries or a rate in particular, but for all of them.
THEOREM AwareDowntimeNeverEnds ==
    ASSUME Zones = {"aware"}
    PROVE  Spec => []NothingEnds
<1>1. ASSUME Init PROVE NeverInv
  <2>1. LTypes
    BY <1>1, LedgerStarts
  <2>2. NothingEnds /\ pc = "idle"
    BY <1>1 DEF Init, NothingEnds
  <2> QED
    BY <2>1, <2>2 DEF NeverInv
<1>2. NeverInv => NothingEnds
  BY DEF NeverInv
<1> QED
  BY <1>1, <1>2, NothingEndsStep, PTL DEF Spec
=============================================================================
