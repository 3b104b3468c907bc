------------------------- MODULE MachineActorProofs -------------------------
(***************************************************************************)
(* Proofs about MachineActor, for any clicks, mailbox size, alarm ids,     *)
(* clock bound and set of faults.                                          *)
(***************************************************************************)
EXTENDS MachineActor, SequenceTheorems, TLAPS

-----------------------------------------------------------------------------
(* Lemmas about logs.                                                      *)

\* i is the last StateChanged row of l.
IsLast(l, i) == i \in StateRows(l) /\ \A j \in StateRows(l) : j <= i

HasLast(l) == StateRows(l) = {} \/ \E i \in StateRows(l) : IsLast(l, i)

\* The log invariant: the state rows chain up to a last one, and the alarm
\* rows agree with it.  HasLast spares an induction over the log.
GoodLog(l) ==
    /\ l \in Seq(EventRows)
    /\ HasLast(l)
    /\ Chain(l)
    /\ AlarmOpenIn(l) <=> latest_state_for(l) = ALARM

\* latest_state_for reads the last StateChanged row.
LEMMA LatestIsLast ==
    ASSUME NEW l, l \in Seq(EventRows), NEW i, IsLast(l, i)
    PROVE  latest_state_for(l) = l[i].to
<1> DEFINE P(k) == \A j \in StateRows(l) : j <= k
<1>1. StateRows(l) \subseteq Nat /\ i \in StateRows(l) /\ P(i)
  BY DEF StateRows, IsLast
<1>2. \A k \in StateRows(l) : P(k) => k = i
  BY <1>1
<1>3. (CHOOSE k \in StateRows(l) : P(k)) = i
  BY <1>1, <1>2
<1> QED
  BY <1>1, <1>3 DEF latest_state_for

\* Appending a row that is not a StateChanged changes nothing about them.
LEMMA AppendOther ==
    ASSUME NEW l, l \in Seq(EventRows), HasLast(l),
           NEW e, e \in EventRows, e.type # "StateChanged"
    PROVE  /\ StateRows(Append(l, e)) = StateRows(l)
           /\ HasLast(Append(l, e))
           /\ latest_state_for(Append(l, e)) = latest_state_for(l)
           /\ Chain(l) => Chain(Append(l, e))
<1> DEFINE m == Append(l, e)
<1>1. /\ m \in Seq(EventRows) /\ Len(m) = Len(l) + 1
      /\ \A i \in 1..Len(l) : m[i] = l[i]
      /\ m[Len(m)] = e
      /\ DOMAIN m = 1..Len(m) /\ DOMAIN l = 1..Len(l) /\ Len(l) \in Nat
  BY AppendProperties
<1> HIDE DEF m
<1>2. StateRows(m) = StateRows(l)
  BY <1>1 DEF StateRows
<1>3. \A i : IsLast(m, i) <=> IsLast(l, i)
  BY <1>2 DEF IsLast
<1>4. HasLast(m)
  BY <1>2, <1>3 DEF HasLast
<1>5. \A i \in StateRows(l) : m[i] = l[i]
  BY <1>1 DEF StateRows
<1>6. latest_state_for(m) = latest_state_for(l)
  <2>1. CASE StateRows(l) = {}
    BY <2>1, <1>2 DEF latest_state_for
  <2>2. CASE StateRows(l) # {}
    <3>1. PICK i \in StateRows(l) : IsLast(l, i)
      BY <2>2 DEF HasLast
    <3>2. latest_state_for(l) = l[i].to
      BY <3>1, LatestIsLast
    <3>3. latest_state_for(m) = m[i].to
      BY <3>1, <1>1, <1>3, LatestIsLast
    <3> QED BY <3>2, <3>3, <1>5
  <2> QED BY <2>1, <2>2
<1>7. Chain(l) => Chain(m)
  BY <1>2, <1>5 DEF Chain, NoStateRowBetween
<1> QED BY <1>2, <1>4, <1>6, <1>7 DEF m

\* Appending a StateChanged row makes it the last one.
LEMMA AppendStateRow ==
    ASSUME NEW l, l \in Seq(EventRows),
           NEW e, e \in EventRows, e.type = "StateChanged"
    PROVE  /\ IsLast(Append(l, e), Len(l) + 1)
           /\ HasLast(Append(l, e))
           /\ latest_state_for(Append(l, e)) = e.to
           /\ StateRows(Append(l, e)) = StateRows(l) \cup {Len(l) + 1}
<1> DEFINE m == Append(l, e)
<1>1. /\ m \in Seq(EventRows) /\ Len(m) = Len(l) + 1
      /\ \A i \in 1..Len(l) : m[i] = l[i]
      /\ m[Len(m)] = e
      /\ DOMAIN m = 1..Len(m) /\ DOMAIN l = 1..Len(l) /\ Len(l) \in Nat
  BY AppendProperties
<1> HIDE DEF m
<1>2. StateRows(m) = StateRows(l) \cup {Len(l) + 1}
  BY <1>1 DEF StateRows
<1>3. IsLast(m, Len(l) + 1)
  BY <1>1, <1>2 DEF IsLast, StateRows
<1>4. latest_state_for(m) = e.to
  BY <1>1, <1>3, LatestIsLast
<1> QED BY <1>2, <1>3, <1>4 DEF m, HasLast

\* A StateChanged row that starts where the log ends extends the chain.
LEMMA ChainExtends ==
    ASSUME NEW l, l \in Seq(EventRows), HasLast(l), Chain(l),
           NEW e, e \in EventRows, e.type = "StateChanged",
           e.from = latest_state_for(l), e.from # e.to
    PROVE  Chain(Append(l, e))
<1> DEFINE m == Append(l, e)
           n == Len(l) + 1
<1>1. /\ m \in Seq(EventRows) /\ Len(m) = n
      /\ \A i \in 1..Len(l) : m[i] = l[i]
      /\ m[n] = e
      /\ DOMAIN l = 1..Len(l) /\ Len(l) \in Nat /\ n \in Nat
  BY AppendProperties
<1>2. StateRows(m) = StateRows(l) \cup {n}
  BY AppendStateRow
<1>3. \A i \in StateRows(l) : i \in 1..Len(l) /\ i < n /\ m[i] = l[i]
  BY <1>1 DEF StateRows
<1> HIDE DEF m, n
<1> SUFFICES ASSUME NEW j \in StateRows(m)
             PROVE  /\ m[j].from # m[j].to
                    /\ m[j].from = UNKNOWN \/ \E i \in StateRows(m) : i < j
                    /\ \A i \in StateRows(m) :
                          i < j /\ NoStateRowBetween(m, i, j) => m[i].to = m[j].from
  BY DEF Chain, m
<1>4. CASE j \in StateRows(l)
  <2>1. m[j] = l[j] /\ j < n /\ j \in Nat
    BY <1>3, <1>4
  <2>2. /\ l[j].from # l[j].to
        /\ l[j].from = UNKNOWN \/ \E i \in StateRows(l) : i < j
    BY <1>4 DEF Chain
  <2>3. ASSUME NEW i \in StateRows(m), i < j, NoStateRowBetween(m, i, j)
        PROVE  m[i].to = m[j].from
    <3>1. i \in StateRows(l)
      BY <2>1, <2>3, <1>1, <1>2
    <3>2. NoStateRowBetween(l, i, j)
      BY <2>3, <1>2 DEF NoStateRowBetween
    <3> QED BY <3>1, <3>2, <2>1, <2>3, <1>3, <1>4 DEF Chain
  <2> QED BY <2>1, <2>2, <2>3, <1>2
<1>5. CASE j = n
  <2>1. CASE StateRows(l) = {}
    BY <2>1, <1>5, <1>1, <1>2 DEF latest_state_for
  <2>2. CASE StateRows(l) # {}
    <3>1. PICK k \in StateRows(l) : IsLast(l, k)
      BY <2>2 DEF HasLast
    <3>2. latest_state_for(l) = l[k].to
      BY <3>1, LatestIsLast
    <3>3. ASSUME NEW i \in StateRows(m), i < j, NoStateRowBetween(m, i, j)
          PROVE  m[i].to = m[j].from
      <4>1. i \in StateRows(l) /\ i \in Nat /\ k \in Nat /\ k < n
        BY <3>3, <1>1, <1>2, <1>3, <1>5
      <4>2. k <= i \/ j <= k
        BY <3>3, <1>2 DEF NoStateRowBetween
      <4>3. i <= k
        BY <4>1, <3>1 DEF IsLast
      <4>4. i = k
        BY <4>1, <4>2, <4>3, <1>1, <1>5
      <4> QED BY <4>1, <4>4, <3>2, <1>1, <1>3, <1>5
    <3> QED BY <3>1, <3>3, <1>1, <1>2, <1>3, <1>5
  <2> QED BY <2>1, <2>2
<1> QED BY <1>2, <1>4, <1>5

\* The alarm rows: whether one is open after a row is appended.
LEMMA AppendAlarm ==
    ASSUME NEW l, l \in Seq(EventRows), NEW e, e \in EventRows
    PROVE  AlarmOpenIn(Append(l, e)) <=>
              \/ e.type = "AlarmTriggered"
              \/ e.type # "AlarmReset" /\ AlarmOpenIn(l)
<1> DEFINE m == Append(l, e)
           n == Len(l) + 1
<1>1. /\ Len(m) = n /\ DOMAIN m = 1..n
      /\ \A i \in 1..Len(l) : m[i] = l[i]
      /\ m[n] = e
      /\ DOMAIN l = 1..Len(l) /\ Len(l) \in Nat /\ n \in Nat
  BY AppendProperties
<1>2. \A i \in AlarmRows(l) : i \in 1..Len(l) /\ i < n /\ m[i] = l[i]
  BY <1>1 DEF AlarmRows
<1> HIDE DEF m
<1>3. CASE e.type \in {"AlarmTriggered", "AlarmReset"}
  <2>1. AlarmRows(m) = AlarmRows(l) \cup {n}
    BY <1>1, <1>3 DEF AlarmRows
  <2>2. \A i \in AlarmRows(m) : (\A j \in AlarmRows(m) : j <= i) <=> i = n
    BY <1>1, <1>2, <2>1
  <2> QED BY <1>1, <1>3, <2>1, <2>2 DEF AlarmOpenIn, m
<1>4. CASE e.type \notin {"AlarmTriggered", "AlarmReset"}
  <2>1. AlarmRows(m) = AlarmRows(l)
    BY <1>1, <1>4 DEF AlarmRows
  <2> QED BY <1>2, <1>4, <2>1 DEF AlarmOpenIn, m
<1> QED BY <1>3, <1>4

\* A row that is neither a StateChanged nor an alarm row keeps a log good.
LEMMA PlainRowKeepsGood ==
    ASSUME NEW l, GoodLog(l), NEW e, e \in EventRows,
           e.type \notin {"StateChanged", "AlarmTriggered", "AlarmReset"}
    PROVE  /\ GoodLog(Append(l, e))
           /\ latest_state_for(Append(l, e)) = latest_state_for(l)
<1>1. Append(l, e) \in Seq(EventRows)
  BY AppendProperties DEF GoodLog
<1> QED BY <1>1, AppendOther, AppendAlarm DEF GoodLog

\* The short concatenations the batches are built from.
LEMMA ShortConcat ==
    ASSUME NEW S, NEW x \in S, NEW y \in S
    PROVE  /\ <<x>> \o <<>> = <<x>>
           /\ <<x>> \o <<y>> = <<x, y>>
           /\ <<x, y>> \o <<>> = <<x, y>>
<1> DEFINE z == <<x>> \o <<y>>
<1>1. /\ <<x>> \in Seq(S) /\ <<y>> \in Seq(S) /\ <<x, y>> \in Seq(S)
      /\ Len(<<x>>) = 1 /\ Len(<<y>>) = 1 /\ Len(<<x, y>>) = 2
      /\ <<x>>[1] = x /\ <<y>>[1] = y /\ <<x, y>>[1] = x /\ <<x, y>>[2] = y
  OBVIOUS
<1>2. /\ z \in Seq(S) /\ Len(z) = 2
      /\ \A i \in 1..2 : z[i] = IF i <= 1 THEN <<x>>[i] ELSE <<y>>[i - 1]
  BY <1>1, ConcatProperties
<1> HIDE DEF z
<1>3. z[1] = x /\ z[2] = y
  BY <1>1, <1>2
<1>4. \A i \in 1..2 : z[i] = <<x, y>>[i]
  BY <1>1, <1>3
<1>5. z = <<x, y>>
  BY <1>1, <1>2, <1>4, SeqEqual
<1> QED BY <1>1, <1>5, ConcatEmptySeq DEF z

\* m is l with the rows of the transition from -> to appended one by one.
RowsAppended(l, m, from, to, alid, at, corr) ==
    /\ StateChanged(from, to, at, corr) \in EventRows
    /\ AlarmTriggered(alid, at, corr) \in EventRows
    /\ AlarmReset(from, to, alid, at, corr) \in EventRows
    /\ advance(from, to, alid, at, corr) = <<>> <=> from = to
    /\ from = to => m = l
    /\ from # to /\ to = ALARM =>
          m = Append(Append(l, StateChanged(from, to, at, corr)),
                     AlarmTriggered(alid, at, corr))
    /\ from = ALARM /\ to # ALARM =>
          m = Append(Append(l, StateChanged(from, to, at, corr)),
                     AlarmReset(from, to, alid, at, corr))
    /\ from # to /\ to # ALARM /\ from # ALARM =>
          m = Append(l, StateChanged(from, to, at, corr))

\* What advance returns, as rows to append.
LEMMA AdvanceRows ==
    ASSUME NEW l \in Seq(EventRows),
           NEW from \in VALID_STATES, NEW to \in {RUN, IDLE, ALARM},
           NEW alid \in Alids, NEW at \in Nat,
           NEW corr \in Clicks \cup {NoClick}
    PROVE  RowsAppended(l, l \o advance(from, to, alid, at, corr),
                        from, to, alid, at, corr)
<1> DEFINE sc == StateChanged(from, to, at, corr)
           up == AlarmTriggered(alid, at, corr)
           dn == AlarmReset(from, to, alid, at, corr)
           b  == advance(from, to, alid, at, corr)
<1> SUFFICES /\ sc \in EventRows /\ up \in EventRows /\ dn \in EventRows
             /\ b = <<>> <=> from = to
             /\ from = to => l \o b = l
             /\ from # to /\ to = ALARM => l \o b = Append(Append(l, sc), up)
             /\ from = ALARM /\ to # ALARM => l \o b = Append(Append(l, sc), dn)
             /\ from # to /\ to # ALARM /\ from # ALARM => l \o b = Append(l, sc)
  BY DEF RowsAppended
<1>1. sc \in EventRows /\ up \in EventRows /\ dn \in EventRows
  BY DEF EventRows, Event, EVENT_TYPES, Alids, VALID_STATES, NoState,
         StateChanged, AlarmTriggered, AlarmReset
<1> HIDE DEF sc, up, dn
<1>2. b = IF from = to THEN <<>>
          ELSE <<sc>> \o (IF to = ALARM THEN <<up>> ELSE <<>>)
               \o (IF from = ALARM /\ to \in {RUN, IDLE} THEN <<dn>> ELSE <<>>)
  BY DEF advance, sc, up, dn
<1> HIDE DEF b
<1>3. /\ <<sc>> \o <<>> = <<sc>>
      /\ <<sc>> \o <<up>> = <<sc, up>> /\ <<sc, up>> \o <<>> = <<sc, up>>
      /\ <<sc>> \o <<dn>> = <<sc, dn>>
  BY <1>1, ShortConcat
<1>4. /\ l \o <<>> = l
      /\ l \o <<sc>> = Append(l, sc)
      /\ l \o <<sc, up>> = Append(Append(l, sc), up)
      /\ l \o <<sc, dn>> = Append(Append(l, sc), dn)
  BY <1>1
<1>5. CASE from = to
  BY <1>1, <1>2, <1>4, <1>5
<1>6. CASE from # to /\ to = ALARM
  <2>1. b = <<sc, up>>
    BY <1>2, <1>3, <1>6 DEF RUN, IDLE, ALARM
  <2>2. b # <<>>
    BY <2>1
  <2>3. l \o b = Append(Append(l, sc), up)
    BY <2>1, <1>4
  <2> QED BY <1>1, <1>6, <2>2, <2>3
<1>7. CASE from # to /\ to # ALARM /\ from = ALARM
  <2>1. b = <<sc, dn>>
    BY <1>2, <1>3, <1>7 DEF RUN, IDLE, ALARM
  <2>2. b # <<>>
    BY <2>1
  <2>3. l \o b = Append(Append(l, sc), dn)
    BY <2>1, <1>4
  <2> QED BY <1>1, <1>7, <2>2, <2>3
<1>8. CASE from # to /\ to # ALARM /\ from # ALARM
  <2>1. b = <<sc>>
    BY <1>2, <1>3, <1>8
  <2>2. b # <<>>
    BY <2>1
  <2>3. l \o b = Append(l, sc)
    BY <2>1, <1>4
  <2> QED BY <1>1, <1>8, <2>2, <2>3
<1> QED BY <1>5, <1>6, <1>7, <1>8

LEMMA AdvanceEmpty ==
    ASSUME NEW from \in VALID_STATES, NEW to \in {RUN, IDLE, ALARM},
           NEW alid \in Alids, NEW at \in Nat,
           NEW corr \in Clicks \cup {NoClick}
    PROVE  advance(from, to, alid, at, corr) = <<>> <=> from = to
<1>1. <<>> \in Seq(EventRows)
  OBVIOUS
<1>2. RowsAppended(<<>>, <<>> \o advance(from, to, alid, at, corr),
                   from, to, alid, at, corr)
  BY <1>1, AdvanceRows, Zenon
<1> QED BY <1>2 DEF RowsAppended

\* A good log that leaves the tool in st.
GoodAt(l, st) == GoodLog(l) /\ latest_state_for(l) = st

MoveArgs(from, to, alid, at, corr) ==
    /\ from \in VALID_STATES /\ to \in {RUN, IDLE, ALARM}
    /\ alid \in Alids /\ at \in Nat /\ corr \in Clicks \cup {NoClick}

\* m is l with the batch of a transition appended.
Moved(l, m, from, to, alid, at, corr) ==
    m = l \o advance(from, to, alid, at, corr)

\* The rows of one transition keep a log good when it starts where the log
\* ends, and leave the log ending where the transition does.
LEMMA TransitionKeepsGood ==
    ASSUME NEW l, NEW m, NEW from, NEW to, NEW alid, NEW at, NEW corr,
           MoveArgs(from, to, alid, at, corr),
           GoodAt(l, from), Moved(l, m, from, to, alid, at, corr)
    PROVE  GoodAt(m, to)
<1> SUFFICES GoodLog(m) /\ latest_state_for(m) = to
  BY DEF GoodAt
<1>0. /\ from \in VALID_STATES /\ to \in {RUN, IDLE, ALARM} /\ alid \in Alids
      /\ at \in Nat /\ corr \in Clicks \cup {NoClick}
  BY DEF MoveArgs
<1>1. /\ l \in Seq(EventRows) /\ HasLast(l) /\ Chain(l)
      /\ AlarmOpenIn(l) <=> from = ALARM
      /\ GoodLog(l) /\ latest_state_for(l) = from
  BY DEF GoodLog, GoodAt
<1> DEFINE sc == StateChanged(from, to, at, corr)
           up == AlarmTriggered(alid, at, corr)
           dn == AlarmReset(from, to, alid, at, corr)
<1>3. /\ sc \in EventRows /\ up \in EventRows /\ dn \in EventRows
      /\ from = to => m = l
      /\ from # to /\ to = ALARM => m = Append(Append(l, sc), up)
      /\ from = ALARM /\ to # ALARM => m = Append(Append(l, sc), dn)
      /\ from # to /\ to # ALARM /\ from # ALARM => m = Append(l, sc)
  <2>1. RowsAppended(l, m, from, to, alid, at, corr)
    BY <1>0, <1>1, AdvanceRows, Zenon DEF Moved
  <2> QED BY <2>1 DEF RowsAppended
<1>4. /\ sc.type = "StateChanged" /\ sc.from = from /\ sc.to = to
      /\ up.type = "AlarmTriggered" /\ dn.type = "AlarmReset"
  BY DEF Event, StateChanged, AlarmTriggered, AlarmReset
<1> HIDE DEF sc, up, dn
<1>5. CASE from = to
  BY <1>1, <1>3, <1>5
<1>6. CASE from # to
  <2>1. PICK k : k = Append(l, sc)
    OBVIOUS
  <2>2. k \in Seq(EventRows)
    BY <1>1, <1>3, <2>1, AppendProperties
  <2>3. HasLast(k) /\ latest_state_for(k) = to
    BY <1>1, <1>3, <1>4, <2>1, AppendStateRow
  <2>4. Chain(k)
    BY <1>1, <1>3, <1>4, <1>6, <2>1, ChainExtends
  <2>5. AlarmOpenIn(k) <=> from = ALARM
    BY <1>1, <1>3, <1>4, <2>1, AppendAlarm
  <2>6. ASSUME NEW e \in {up, dn}, m = Append(k, e)
        PROVE  /\ m \in Seq(EventRows) /\ HasLast(m) /\ Chain(m)
               /\ latest_state_for(m) = to
               /\ AlarmOpenIn(m) <=> e = up
    <3>1. e \in EventRows /\ e.type # "StateChanged"
      BY <1>3, <1>4, <2>6
    <3>2. m \in Seq(EventRows)
      BY <2>2, <2>6, <3>1, AppendProperties
    <3>3. HasLast(m) /\ Chain(m) /\ latest_state_for(m) = to
      BY <2>2, <2>3, <2>4, <2>6, <3>1, AppendOther
    <3>4. AlarmOpenIn(m) <=> e.type = "AlarmTriggered" \/ (e.type # "AlarmReset" /\ AlarmOpenIn(k))
      BY <2>2, <2>6, <3>1, AppendAlarm
    <3> QED BY <1>4, <2>6, <3>2, <3>3, <3>4
  <2>7. CASE to = ALARM
    BY <1>3, <1>6, <2>1, <2>6, <2>7 DEF GoodLog
  <2>8. CASE to # ALARM /\ from = ALARM
    BY <1>3, <1>4, <2>1, <2>6, <2>8 DEF GoodLog
  <2>9. CASE to # ALARM /\ from # ALARM
    BY <1>3, <1>6, <2>1, <2>2, <2>3, <2>4, <2>5, <2>9 DEF GoodLog
  <2> QED BY <2>7, <2>8, <2>9
<1> QED BY <1>5, <1>6

-----------------------------------------------------------------------------
(* The inductive invariant.                                                *)

\* A control item carries what the command table says of its click, and
\* its click is past the point where its command is chosen.
ControlOK(cl, item) ==
    item.kind = "control" => /\ item.to = ToState(cl[item.click].cmd)
                             /\ cl[item.click].phase = "queued"

IInv ==
    /\ TypeOK
    /\ GoodLog(log) /\ latest_state_for(log) \in VALID_STATES
    /\ StateIsCommitted
    /\ HoldMatchesState
    /\ ~Running => pc = "idle"
    /\ pc # "idle" => work.kind # "stop"
    /\ pc = "committed" => work.kind # "unreadable"
    /\ pc = "committed" /\ work.kind = "sample" => hold = NoState
    /\ \A i \in DOMAIN mailbox : ControlOK(click, mailbox[i])
    /\ ControlOK(click, work)

\* The command table only names states a tool can be driven to.
LEMMA CommandTable ==
    ASSUME NEW cmd \in COMMANDS
    PROVE  /\ ToState(cmd) \in {RUN, IDLE, ALARM}
           /\ HoldsState(cmd) <=> ToState(cmd) # RUN
           /\ CommandAlid(cmd) \in Alids
BY DEF COMMANDS, ToState, HoldsState, CommandAlid, Alids, RUN, IDLE, ALARM

\* A batch of rows is a sequence of rows, and appending a batch that starts
\* with e appends e first.
LEMMA BatchAppend ==
    ASSUME NEW l \in Seq(EventRows), NEW e \in EventRows, NEW b \in Seq(EventRows)
    PROVE  /\ l \o <<e>> = Append(l, e)
           /\ l \o (<<e>> \o b) = Append(l, e) \o b
<1>1. <<e>> \in Seq(EventRows)
  OBVIOUS
<1>2. l \o <<e>> = Append(l, e)
  OBVIOUS
<1> DEFINE x == <<e>>
           m == (l \o x) \o b
           n == l \o (x \o b)
<1>3. x \in Seq(EventRows)
  OBVIOUS
<1> HIDE DEF x
<1>4. m = n
  <2>1. /\ l \o x \in Seq(EventRows) /\ x \o b \in Seq(EventRows)
        /\ m \in Seq(EventRows) /\ n \in Seq(EventRows)
        /\ Len(l) \in Nat /\ Len(x) \in Nat /\ Len(b) \in Nat
    BY <1>3, ConcatProperties
  <2>2. Len(m) = Len(n)
    BY <1>3, <2>1
  <2>3. \A i \in 1..Len(m) : m[i] = n[i]
    BY <1>3, <2>1
  <2> HIDE DEF m, n
  <2> QED BY <2>1, <2>2, <2>3, SeqEqual
<1> QED BY <1>2, <1>4 DEF x

LEMMA AdvanceIsBatch ==
    ASSUME NEW from \in VALID_STATES, NEW to \in {RUN, IDLE, ALARM},
           NEW alid \in Alids, NEW at \in Nat,
           NEW corr \in Clicks \cup {NoClick}
    PROVE  advance(from, to, alid, at, corr) \in Seq(EventRows)
<1>1. <<>> \in Seq(EventRows)
  OBVIOUS
<1>2. RowsAppended(<<>>, <<>> \o advance(from, to, alid, at, corr),
                   from, to, alid, at, corr)
  BY <1>1, AdvanceRows, Zenon
<1> DEFINE sc == StateChanged(from, to, at, corr)
           up == AlarmTriggered(alid, at, corr)
           dn == AlarmReset(from, to, alid, at, corr)
<1>3. sc \in EventRows /\ up \in EventRows /\ dn \in EventRows
  BY <1>2 DEF RowsAppended
<1> HIDE DEF sc, up, dn
<1>4. <<sc>> \in Seq(EventRows) /\ <<up>> \in Seq(EventRows) /\ <<dn>> \in Seq(EventRows)
  BY <1>3
<1>5. \A x, y, z \in Seq(EventRows) : x \o y \o z \in Seq(EventRows)
  BY ConcatProperties
<1> DEFINE b2 == IF to = ALARM THEN <<up>> ELSE <<>>
           b3 == IF from = ALARM /\ to \in {RUN, IDLE} THEN <<dn>> ELSE <<>>
<1>6. b2 \in Seq(EventRows) /\ b3 \in Seq(EventRows)
  BY <1>1, <1>4
<1>7. advance(from, to, alid, at, corr) = IF from = to THEN <<>> ELSE <<sc>> \o b2 \o b3
  BY DEF advance, sc, up, dn
<1> DEFINE b1 == <<sc>>
<1>8. b1 \in Seq(EventRows)
  BY <1>4
<1> HIDE DEF b1, b2, b3
<1>9. (b1 \o b2) \o b3 \in Seq(EventRows)
  BY <1>5, <1>6, <1>8, Zenon
<1>10. CASE from = to
  BY <1>1, <1>7, <1>10, Zenon
<1>11. CASE from # to
  BY <1>7, <1>9, <1>11, Zenon DEF b1
<1> QED BY <1>10, <1>11

\* What work holds between two items is an item, and not a command.
LEMMA NoWorkIsItem == NoWork \in Items /\ NoWork.kind = "stop" /\ \A cl : ControlOK(cl, NoWork)
BY DEF NoWork, Stop, Item, Items, ControlOK

-----------------------------------------------------------------------------
(* The invariant holds initially.                                          *)

LEMMA InitInv == Init => IInv
<1> SUFFICES ASSUME Init PROVE IInv
  OBVIOUS
<1>1. TypeOK
  <2>1. ActorAssumption
    BY ActorAssumption
  <2>2. work \in Items
    BY NoWorkIsItem DEF Init
  <2>3. click \in [Clicks -> [phase: Phases, cmd: COMMANDS, seen: VALID_STATES, at: Nat]]
    BY DEF Init, Phases, COMMANDS, VALID_STATES
  <2> QED
    BY <2>1, <2>2, <2>3
    DEF Init, TypeOK, ActorAssumption, VALID_STATES, Times
<1>2. GoodLog(log) /\ latest_state_for(log) = UNKNOWN
  <2>1. log \in Seq(EventRows) /\ StateRows(log) = {} /\ AlarmRows(log) = {}
    BY DEF Init, StateRows, AlarmRows
  <2> QED
    BY <2>1 DEF GoodLog, HasLast, Chain, AlarmOpenIn, latest_state_for, UNKNOWN, ALARM
<1>3. ControlOK(click, work)
  BY NoWorkIsItem DEF Init
<1> QED
  BY <1>1, <1>2, <1>3
  DEF Init, IInv, StateIsCommitted, HoldMatchesState, Running, VALID_STATES

-----------------------------------------------------------------------------
(* Steps that add a mailbox item or move a click.                          *)

\* What a step that touches neither the actor's own variables nor the log
\* has to show.
LEMMA FrameInv ==
    ASSUME IInv, UNCHANGED <<log, trail, state, hold, lastHb, task, pc, work>>,
           mailbox' \in Seq(Items), Len(mailbox') <= MailboxSize,
           click' \in [Clicks -> [phase: Phases, cmd: COMMANDS,
                                  seen: VALID_STATES, at: Nat]],
           clock' \in Nat,
           \A i \in DOMAIN mailbox' : ControlOK(click', mailbox'[i]),
           ControlOK(click', work')
    PROVE  IInv'
<1>1. TypeOK'
  BY DEF IInv, TypeOK
<1> QED
  BY <1>1 DEF IInv, StateIsCommitted, HoldMatchesState, Running

\* Commands already in the mailbox or in hand are untouched by a step of
\* another click, or of one that has not been queued.
LEMMA ClickFrame ==
    ASSUME IInv, click' \in [Clicks -> [phase: Phases, cmd: COMMANDS,
                                        seen: VALID_STATES, at: Nat]],
           \A c \in Clicks : click[c].phase = "queued" => click'[c] = click[c]
    PROVE  \A item \in Items : ControlOK(click, item) => ControlOK(click', item)
<1> SUFFICES ASSUME NEW item \in Items, ControlOK(click, item), item.kind = "control"
             PROVE  /\ item.to = ToState(click'[item.click].cmd)
                    /\ click'[item.click].phase = "queued"
  BY DEF ControlOK
<1>1. item.click \in Clicks
  BY DEF Items, Stop, Item
<1> QED BY <1>1 DEF ControlOK

\* Offering an item to a mailbox with room.
LEMMA OfferInv ==
    ASSUME IInv, NEW item \in Items, ControlOK(click', item),
           HasRoom, mailbox' = Append(mailbox, item),
           UNCHANGED <<log, trail, state, hold, lastHb, task, pc, work>>,
           click' \in [Clicks -> [phase: Phases, cmd: COMMANDS,
                                  seen: VALID_STATES, at: Nat]],
           \A c \in Clicks : click[c].phase = "queued" => click'[c] = click[c],
           clock' \in Nat
    PROVE  IInv'
<1>1. mailbox \in Seq(Items) /\ Len(mailbox) < MailboxSize /\ work \in Items
  BY DEF IInv, TypeOK, HasRoom
<1>2. /\ mailbox' \in Seq(Items) /\ Len(mailbox') <= MailboxSize
      /\ \A i \in DOMAIN mailbox' :
           \/ i \in DOMAIN mailbox /\ mailbox'[i] = mailbox[i]
           \/ mailbox'[i] = item
  BY <1>1, AppendProperties, ActorAssumption DEF ActorAssumption
<1>3. \A i \in DOMAIN mailbox : ControlOK(click', mailbox[i])
  BY <1>1, ClickFrame DEF IInv
<1>4. \A i \in DOMAIN mailbox' : ControlOK(click', mailbox'[i])
  BY <1>2, <1>3
<1>5. ControlOK(click', work')
  BY <1>1, ClickFrame DEF IInv
<1> QED BY <1>2, <1>4, <1>5, FrameInv

LEMMA OfferSampleInv ==
    ASSUME IInv, NEW gap \in Gaps, NEW r \in Readings, OfferSample(gap, r)
    PROVE  IInv'
<1>1. clock' \in Nat
  BY ActorAssumption DEF OfferSample, IInv, TypeOK, ActorAssumption
<1>2. Sample(r, clock') \in Items /\ ControlOK(click', Sample(r, clock'))
  BY <1>1 DEF Readings, Sample, Item, Items, Alids, ControlOK
<1> QED BY <1>1, <1>2, OfferInv DEF OfferSample, IInv, TypeOK

LEMMA StopActorInv == ASSUME IInv, StopActor PROVE IInv'
BY NoWorkIsItem, OfferInv DEF StopActor, NoWork, IInv, TypeOK

LEMMA OfferControlInv ==
    ASSUME IInv, NEW c \in Clicks, OfferControl(c) PROVE IInv'
<1>1. click[c].cmd \in COMMANDS /\ click[c].at \in Nat
  BY DEF IInv, TypeOK
<1>2. ControlAction(c) \in Items
  BY <1>1, CommandTable DEF ControlAction, Item, Items
<1>3. /\ click' \in [Clicks -> [phase: Phases, cmd: COMMANDS,
                                seen: VALID_STATES, at: Nat]]
      /\ \A d \in Clicks : click[d].phase = "queued" => click'[d] = click[d]
      /\ click'[c].cmd = click[c].cmd /\ click'[c].phase = "queued"
  BY DEF OfferControl, SetPhase, IInv, TypeOK, Phases
<1>4. ControlOK(click', ControlAction(c))
  BY <1>3 DEF ControlOK, ControlAction, Item
<1> QED BY <1>2, <1>3, <1>4, OfferInv DEF OfferControl, IInv, TypeOK

-----------------------------------------------------------------------------
(* Steps of CommandService.issue.                                          *)

\* A row of the audit trail: it leaves states and alarms alone.
PlainRows == {e \in EventRows :
                  e.type \notin {"StateChanged", "AlarmTriggered", "AlarmReset"}}

\* m is l, or l with one plain row appended.
PlainAppended(l, m) == m = l \/ \E e \in PlainRows : m = Append(l, e)

LEMMA PlainStep ==
    ASSUME IInv, PlainAppended(log, log')
    PROVE  GoodLog(log') /\ latest_state_for(log') = latest_state_for(log)
<1>1. GoodLog(log)
  BY DEF IInv
<1>2. ASSUME NEW e \in PlainRows, log' = Append(log, e)
      PROVE  GoodLog(log') /\ latest_state_for(log') = latest_state_for(log)
  <2>1. e \in EventRows /\ e.type \notin {"StateChanged", "AlarmTriggered", "AlarmReset"}
    BY DEF PlainRows
  <2> QED BY <1>1, <1>2, <2>1, PlainRowKeepsGood, Zenon
<1> QED BY <1>1, <1>2 DEF PlainAppended

LEMMA ClickStepInv ==
    ASSUME IInv, UNCHANGED <<log, actorVars, clock>>,
           trail' \in [Clicks -> Seq(EventRows)],
           click' \in [Clicks -> [phase: Phases, cmd: COMMANDS,
                                  seen: VALID_STATES, at: Nat]],
           \A c \in Clicks : click[c].phase = "queued" => click'[c] = click[c]
    PROVE  IInv'
<1>1. /\ \A i \in DOMAIN mailbox : ControlOK(click', mailbox[i])
      /\ ControlOK(click', work)
  BY ClickFrame DEF IInv, TypeOK
<1>2. TypeOK'
  BY DEF IInv, TypeOK, actorVars
<1> QED
  BY <1>1, <1>2
  DEF IInv, StateIsCommitted, HoldMatchesState, Running, actorVars

\* What one click writes, and what its own steps may do to its record.
LEMMA CommandRow ==
    ASSUME IInv, NEW c \in Clicks,
           NEW type \in {"HostCommandRequested", "HostCommandRejected"},
           NEW from \in VALID_STATES \cup {NoState},
           NEW to \in VALID_STATES \cup {NoState}
    PROVE  /\ CommandEvent(type, c, from, to) \in EventRows
           /\ CommandEvent(type, c, from, to).corr = c
           /\ CommandEvent(type, c, from, to).type = type
BY DEF CommandEvent, Event, EventRows, EVENT_TYPES, Alids, IInv, TypeOK

\* t with one row of that type about c appended.
WroteRow(t, u, c, type) ==
    \E e \in EventRows : e.corr = c /\ e.type = type /\ u = Append(t, e)

\* append_by writes one row behind what the click's thread wrote before.
LEMMA ThreadAppends ==
    ASSUME IInv, NEW c \in Clicks,
           NEW type \in {"HostCommandRequested", "HostCommandRejected"},
           NEW from \in VALID_STATES \cup {NoState},
           NEW to \in VALID_STATES \cup {NoState},
           append_by(c, <<CommandEvent(type, c, from, to)>>)
    PROVE  /\ WroteRow(trail[c], trail'[c], c, type)
           /\ \A d \in Clicks : d # c => trail'[d] = trail[d]
           /\ trail' \in [Clicks -> Seq(EventRows)]
           /\ log' = log
<1> DEFINE e == CommandEvent(type, c, from, to)
<1>1. e \in EventRows /\ e.corr = c /\ e.type = type
  BY CommandRow
<1>2. /\ trail \in [Clicks -> Seq(EventRows)]
      /\ trail' = [trail EXCEPT ![c] = @ \o <<e>>] /\ log' = log
  BY DEF append_by, IInv, TypeOK
<1> HIDE DEF e
<1>3. trail[c] \o <<e>> = Append(trail[c], e) /\ Append(trail[c], e) \in Seq(EventRows)
  BY <1>1, <1>2, AppendProperties
<1>4. trail'[c] = Append(trail[c], e)
  BY <1>2, <1>3
<1> QED BY <1>1, <1>2, <1>3, <1>4 DEF WroteRow

LEMMA SetPhaseOK ==
    ASSUME IInv, NEW c \in Clicks, NEW p \in Phases,
           click[c].phase # "queued", SetPhase(c, p)
    PROVE  /\ click' \in [Clicks -> [phase: Phases, cmd: COMMANDS,
                                     seen: VALID_STATES, at: Nat]]
           /\ \A d \in Clicks : click[d].phase = "queued" => click'[d] = click[d]
BY DEF SetPhase, IInv, TypeOK

\* A row of its own type about c joins the trail of c, or the append fails.
Wrote(c, type, phase) ==
    \/ /\ WroteRow(trail[c], trail'[c], c, type)
       /\ \A d \in Clicks : d # c => trail'[d] = trail[d]
       /\ SetPhase(c, phase)
    \/ trail' = trail /\ SetPhase(c, "lost")

LEMMA AppendRequestedWrites ==
    ASSUME IInv, NEW c \in Clicks, AppendRequested(c)
    PROVE  /\ Wrote(c, "HostCommandRequested", "requested")
           /\ log' = log /\ trail' \in [Clicks -> Seq(EventRows)]
           /\ UNCHANGED <<actorVars, clock>> /\ click[c].phase = "read"
<1>1. /\ click[c].phase = "read" /\ UNCHANGED <<actorVars, clock>>
      /\ \/ append_by(c, Requested(c)) /\ SetPhase(c, "requested")
         \/ UNCHANGED <<log, trail>> /\ SetPhase(c, "lost")
  BY DEF AppendRequested, AppendRollsBack
<1>2. CASE UNCHANGED <<log, trail>> /\ SetPhase(c, "lost")
  BY <1>1, <1>2 DEF Wrote, IInv, TypeOK
<1>3. CASE append_by(c, Requested(c)) /\ SetPhase(c, "requested")
  <2>1. ToState(click[c].cmd) \in VALID_STATES \cup {NoState}
    BY CommandTable DEF VALID_STATES, IInv, TypeOK
  <2>2. append_by(c, <<CommandEvent("HostCommandRequested", c, NoState,
                                    ToState(click[c].cmd))>>)
    BY <1>3 DEF Requested
  <2>3. /\ WroteRow(trail[c], trail'[c], c, "HostCommandRequested")
        /\ \A d \in Clicks : d # c => trail'[d] = trail[d]
        /\ trail' \in [Clicks -> Seq(EventRows)] /\ log' = log
    BY <2>1, <2>2, ThreadAppends
  <2> QED BY <1>1, <1>3, <2>3 DEF Wrote
<1> QED BY <1>1, <1>2, <1>3

LEMMA RejectWrites ==
    ASSUME IInv, NEW c \in Clicks, Reject(c)
    PROVE  /\ Wrote(c, "HostCommandRejected", "rejected")
           /\ log' = log /\ trail' \in [Clicks -> Seq(EventRows)]
           /\ UNCHANGED <<actorVars, clock>> /\ click[c].phase = "requested"
<1>1. /\ click[c].phase = "requested" /\ UNCHANGED <<actorVars, clock>>
      /\ \/ append_by(c, Rejected(c)) /\ SetPhase(c, "rejected")
         \/ UNCHANGED <<log, trail>> /\ SetPhase(c, "lost")
  BY DEF Reject, AppendRollsBack
<1>2. CASE UNCHANGED <<log, trail>> /\ SetPhase(c, "lost")
  BY <1>1, <1>2 DEF Wrote, IInv, TypeOK
<1>3. CASE append_by(c, Rejected(c)) /\ SetPhase(c, "rejected")
  <2>1. click[c].seen \in VALID_STATES \cup {NoState}
    BY DEF IInv, TypeOK
  <2>2. append_by(c, <<CommandEvent("HostCommandRejected", c, click[c].seen, NoState)>>)
    BY <1>3 DEF Rejected
  <2>3. /\ WroteRow(trail[c], trail'[c], c, "HostCommandRejected")
        /\ \A d \in Clicks : d # c => trail'[d] = trail[d]
        /\ trail' \in [Clicks -> Seq(EventRows)] /\ log' = log
    BY <2>1, <2>2, ThreadAppends
  <2> QED BY <1>1, <1>3, <2>3 DEF Wrote
<1> QED BY <1>1, <1>2, <1>3

LEMMA IssueInv ==
    ASSUME IInv, NEW c \in Clicks,
           AppendRequested(c) \/ Reject(c) \/ Accept(c)
    PROVE  IInv'
<1>1. UNCHANGED <<log, actorVars, clock>> /\ trail' \in [Clicks -> Seq(EventRows)]
  BY AppendRequestedWrites, RejectWrites DEF Accept, IInv, TypeOK
<1>2. click[c].phase # "queued" /\ \E p \in Phases : SetPhase(c, p)
  BY DEF AppendRequested, Reject, Accept, Phases
<1> QED BY <1>1, <1>2, SetPhaseOK, ClickStepInv

LEMMA ReadStateInv ==
    ASSUME IInv, NEW c \in Clicks, NEW cmd \in COMMANDS, ReadState(c, cmd)
    PROVE  IInv'
<1>1. /\ click' \in [Clicks -> [phase: Phases, cmd: COMMANDS,
                                seen: VALID_STATES, at: Nat]]
      /\ \A d \in Clicks : click[d].phase = "queued" => click'[d] = click[d]
  BY DEF ReadState, IInv, TypeOK, Phases
<1>2. UNCHANGED <<log, actorVars, clock>> /\ trail' \in [Clicks -> Seq(EventRows)]
  BY DEF ReadState, IInv, TypeOK
<1> QED BY <1>1, <1>2, ClickStepInv

-----------------------------------------------------------------------------
(* Steps of the actor's task.                                              *)

LEMMA TakeItemInv == ASSUME IInv, TakeItem PROVE IInv'
<1> DEFINE h == Head(mailbox)
<1>1. /\ mailbox \in Seq(Items) /\ mailbox # <<>> /\ mailbox' = Tail(mailbox)
      /\ Len(mailbox) <= MailboxSize
  BY DEF TakeItem, IInv, TypeOK
<1>2. h \in Items /\ h = mailbox[1] /\ 1 \in DOMAIN mailbox
  BY <1>1
<1>3. /\ mailbox' \in Seq(Items) /\ Len(mailbox') <= MailboxSize
      /\ \A i \in DOMAIN mailbox' : i + 1 \in DOMAIN mailbox /\ mailbox'[i] = mailbox[i + 1]
  BY <1>1, ActorAssumption DEF ActorAssumption
<1>4. /\ \A i \in DOMAIN mailbox' : ControlOK(click, mailbox'[i])
      /\ ControlOK(click, h)
  BY <1>2, <1>3 DEF IInv
<1>5. h.kind = "stop" => h = Stop
  BY <1>2 DEF Items
<1> HIDE DEF h
<1>6. CASE h = Stop
  <2>1. task' = "stopped" /\ UNCHANGED <<log, trail, state, hold, lastHb, click, clock, pc, work>>
    BY <1>6 DEF TakeItem, h
  <2>2. TypeOK'
    BY <1>3, <2>1 DEF IInv, TypeOK
  <2> QED BY <1>4, <2>1, <2>2 DEF IInv, StateIsCommitted, HoldMatchesState, Running, TakeItem
<1>7. CASE h # Stop
  <2>1. work' = h /\ pc' = "handling" /\ UNCHANGED <<log, trail, state, hold, lastHb, click, clock, task>>
    BY <1>7 DEF TakeItem, h
  <2>2. TypeOK'
    BY <1>2, <1>3, <2>1 DEF IInv, TypeOK, h
  <2> QED BY <1>4, <1>5, <1>7, <2>1, <2>2 DEF IInv, StateIsCommitted, HoldMatchesState, Running, TakeItem
<1> QED BY <1>6, <1>7

\* An item dropped without a trace, the fate of an unreadable sample and of
\* an item whose append fails.
LEMMA DropInv ==
    ASSUME IInv, pc = "handling", NextItem, hold' \in {hold, NoState},
           UNCHANGED <<log, trail, state, mailbox, task, click, clock>>,
           lastHb' \in Times
    PROVE  IInv'
<1>1. TypeOK'
  BY NoWorkIsItem DEF IInv, TypeOK, NextItem
<1> QED
  BY <1>1, NoWorkIsItem
  DEF IInv, StateIsCommitted, HoldMatchesState, Running, NextItem

\* The batch of an item that moves the tool.
LEMMA WorkTransition ==
    ASSUME IInv, pc # "idle", work.kind \in {"sample", "control"}
    PROVE  /\ work.to \in {RUN, IDLE, ALARM} /\ work.alid \in Alids
           /\ work.at \in Nat /\ work.click \in Clicks \cup {NoClick}
           /\ state \in VALID_STATES
           /\ Transitions \in Seq(EventRows)
           /\ Transitions = <<>> <=> state = work.to
<1>1. /\ work.to \in {RUN, IDLE, ALARM} /\ work.alid \in Alids
      /\ work.at \in Nat /\ work.click \in Clicks \cup {NoClick}
      /\ state \in VALID_STATES
  BY DEF IInv, TypeOK, Items, Stop, Item
<1>2. log \in Seq(EventRows)
  BY DEF IInv, TypeOK
<1>3. Transitions \in Seq(EventRows)
  BY <1>1, AdvanceIsBatch, Zenon DEF Transitions
<1>4. Transitions = <<>> <=> state = work.to
  BY <1>1, AdvanceEmpty DEF Transitions
<1> QED BY <1>1, <1>3, <1>4

\* TransitionKeepsGood for the item in hand.
LEMMA WorkKeepsGood ==
    ASSUME IInv, pc # "idle", work.kind \in {"sample", "control"},
           NEW k, GoodAt(k, state), NEW m,
           Moved(k, m, state, work.to, work.alid, work.at, work.click)
    PROVE  GoodAt(m, work.to)
<1>1. MoveArgs(state, work.to, work.alid, work.at, work.click)
  BY WorkTransition DEF MoveArgs
<1> QED BY <1>1, TransitionKeepsGood, Zenon

LEMMA CommitSampleInv == ASSUME IInv, CommitSample PROVE IInv'
<1>1. /\ Running /\ pc = "handling" /\ work.kind = "sample"
      /\ log' = log \o Transitions /\ trail' = trail /\ hold' = HoldAfterSample
      /\ pc' = "committed"
      /\ UNCHANGED <<state, lastHb, mailbox, task, work, click, clock>>
      /\ hold # NoState => work.to = ALARM
  BY DEF CommitSample, SampleMoves, Handling, append_many, Suppressed
<1>2. hold' = NoState
  BY <1>1 DEF HoldAfterSample
<1>3. GoodLog(log) /\ latest_state_for(log) = state
  BY <1>1 DEF IInv, StateIsCommitted
<1>4. GoodLog(log') /\ latest_state_for(log') = work.to
  <2>1. GoodAt(log, state)
    BY <1>3 DEF GoodAt
  <2>2. Moved(log, log', state, work.to, work.alid, work.at, work.click)
    BY <1>1, Zenon DEF Transitions, Moved
  <2>3. GoodAt(log', work.to)
    BY <1>1, <2>1, <2>2, WorkKeepsGood
  <2> QED BY <2>3 DEF GoodAt
<1>5. TypeOK' /\ work.to \in VALID_STATES
  BY <1>1, <1>2, <1>4, WorkTransition DEF IInv, TypeOK, GoodLog, VALID_STATES
<1> QED
  BY <1>1, <1>2, <1>4, <1>5
  DEF IInv, StateIsCommitted, HoldMatchesState, Running

LEMMA QuietSampleInv == ASSUME IInv, QuietSample PROVE IInv'
<1>1. /\ pc = "handling" /\ work.kind = "sample" /\ NextItem
      /\ hold' \in {hold, NoState} /\ hold' = HoldAfterSample
      /\ UNCHANGED <<trail, state, mailbox, task, click, clock>>
  BY DEF QuietSample, SampleQuiet, Handling, HoldAfterSample, append_many,
         AppendRollsBack
<1>2. work.at \in Nat
  BY <1>1, WorkTransition
<1>3. PlainAppended(log, log') /\ lastHb' \in Times
  <2>1. CASE UNCHANGED <<log, lastHb>> \/ (AppendRollsBack /\ UNCHANGED lastHb)
    BY <2>1 DEF PlainAppended, AppendRollsBack, IInv, TypeOK
  <2>2. CASE append_many(Heartbeat) /\ lastHb' = work.at
    <3> DEFINE e == Event("MachineHeartbeat", NoState, NoState, NoAlid,
                          work.at, NoClick)
    <3>1. e \in PlainRows /\ log \in Seq(EventRows)
      BY <1>2 DEF Event, EventRows, EVENT_TYPES, PlainRows, Alids, IInv, TypeOK
    <3>2. e \in EventRows
      BY <3>1 DEF PlainRows
    <3>3. log' = log \o <<e>>
      BY <2>2 DEF append_many, Heartbeat
    <3> HIDE DEF e
    <3>4. log' = Append(log, e)
      BY <3>1, <3>2, <3>3
    <3> QED BY <1>2, <2>2, <3>1, <3>4 DEF PlainAppended, Times
  <2> QED BY <2>1, <2>2 DEF QuietSample
<1>4. GoodLog(log') /\ latest_state_for(log') = latest_state_for(log)
  BY <1>3, PlainStep
<1>5. TypeOK'
  BY <1>1, <1>3, <1>4, NoWorkIsItem DEF IInv, TypeOK, GoodLog, NextItem
<1> QED
  BY <1>1, <1>4, <1>5, NoWorkIsItem
  DEF IInv, StateIsCommitted, HoldMatchesState, Running, NextItem

LEMMA CommitControlInv == ASSUME IInv, CommitControl PROVE IInv'
<1>1. /\ Running /\ pc = "handling" /\ work.kind = "control"
      /\ log' = log \o ControlBatch /\ trail' = trail /\ pc' = "committed"
      /\ UNCHANGED <<state, hold, lastHb, mailbox, task, work, click, clock>>
  BY DEF CommitControl, Handling, append_many
<1>2. /\ work.to \in {RUN, IDLE, ALARM} /\ work.alid \in Alids
      /\ work.at \in Nat /\ work.click \in Clicks \cup {NoClick}
      /\ state \in VALID_STATES /\ Transitions \in Seq(EventRows)
  BY <1>1, WorkTransition
<1>3. GoodLog(log) /\ latest_state_for(log) = state /\ log \in Seq(EventRows)
  BY <1>1 DEF IInv, StateIsCommitted, TypeOK
<1>4. work.click \in Clicks
  BY <1>1 DEF IInv, TypeOK, Items, Stop, Item
<1>5. Dispatched \in PlainRows /\ Dispatched \in EventRows
  <2>1. click[work.click].at \in Nat
    BY <1>4 DEF IInv, TypeOK
  <2> QED
    BY <1>2, <1>4, <2>1
    DEF Dispatched, CommandEvent, Event, EventRows, EVENT_TYPES, PlainRows,
        Alids, VALID_STATES
<1>6. PICK k : k = Append(log, Dispatched)
  OBVIOUS
<1>7. GoodAt(k, state)
  BY <1>3, <1>5, <1>6, PlainRowKeepsGood DEF PlainRows, GoodAt
<1>8. GoodAt(log', work.to)
  <2>1. log \o (<<Dispatched>> \o Transitions) = k \o Transitions
    BY <1>2, <1>3, <1>5, <1>6, BatchAppend
  <2>2. Moved(k, log', state, work.to, work.alid, work.at, work.click)
    BY <1>1, <2>1, Zenon DEF ControlBatch, Moved, Transitions
  <2> QED BY <1>1, <1>7, <2>2, WorkKeepsGood
<1>9. GoodLog(log') /\ latest_state_for(log') = work.to
  BY <1>8 DEF GoodAt
<1>10. TypeOK' /\ work.to \in VALID_STATES
  BY <1>1, <1>2, <1>9 DEF IInv, TypeOK, GoodLog, VALID_STATES
<1> QED
  BY <1>1, <1>9, <1>10
  DEF IInv, StateIsCommitted, HoldMatchesState, Running

LEMMA FinishInv == ASSUME IInv, Finish PROVE IInv'
<1>1. /\ Running /\ pc = "committed" /\ NextItem
      /\ UNCHANGED <<log, trail, mailbox, task, click, clock>>
      /\ latest_state_for(log) = work.to
  BY DEF Finish, IInv, StateIsCommitted
<1>2. work.kind \in {"sample", "control"}
  BY <1>1 DEF IInv, TypeOK, Items, Stop, Item
<1>3. /\ work.to \in {RUN, IDLE, ALARM} /\ work.at \in Nat
      /\ Transitions = <<>> <=> state = work.to
  BY <1>1, <1>2, WorkTransition
<1>4. state' = work.to /\ lastHb' \in Times
  BY <1>3 DEF Finish, IInv, TypeOK, Times
<1>5. hold' \in {IDLE, ALARM, NoState} /\ (hold' # NoState => hold' = work.to)
  <2>1. CASE Transitions = <<>>
    BY <2>1, <1>1, <1>3 DEF Finish, IInv, TypeOK, HoldMatchesState
  <2>2. CASE Transitions # <<>> /\ work.kind = "sample"
    BY <2>2, <1>1 DEF Finish, IInv
  <2>3. CASE Transitions # <<>> /\ work.kind = "control"
    <3>1. /\ work.click \in Clicks
          /\ work.to = ToState(click[work.click].cmd)
      BY <2>3 DEF IInv, TypeOK, Items, Stop, Item, ControlOK
    <3>2. click[work.click].cmd \in COMMANDS
      BY <3>1 DEF IInv, TypeOK
    <3>3. HoldsState(click[work.click].cmd) <=> work.to # RUN
      BY <3>1, <3>2, CommandTable
    <3>4. hold' = IF work.to # RUN THEN work.to ELSE NoState
      BY <2>3, <3>3 DEF Finish
    <3> QED BY <3>4, <1>3
  <2> QED BY <2>1, <2>2, <2>3, <1>2
<1>6. TypeOK'
  BY <1>1, <1>3, <1>4, <1>5, NoWorkIsItem
  DEF IInv, TypeOK, NextItem, VALID_STATES
<1> QED
  BY <1>1, <1>4, <1>5, <1>6, NoWorkIsItem
  DEF IInv, StateIsCommitted, HoldMatchesState, Running, NextItem

-----------------------------------------------------------------------------
(* Crash and restart.                                                      *)

LEMMA CrashInv == ASSUME IInv, Crash PROVE IInv'
<1>1. click' \in [Clicks -> [phase: Phases, cmd: COMMANDS,
                             seen: VALID_STATES, at: Nat]]
  <2>1. \A c \in Clicks : click'[c] \in [phase: Phases, cmd: COMMANDS,
                                         seen: VALID_STATES, at: Nat]
    BY DEF Crash, IInv, TypeOK, Phases
  <2> QED BY <2>1 DEF Crash
<1>2. TypeOK'
  BY <1>1, NoWorkIsItem, ActorAssumption
  DEF Crash, IInv, TypeOK, NextItem, ActorAssumption
<1> QED
  BY <1>2, NoWorkIsItem
  DEF Crash, IInv, StateIsCommitted, HoldMatchesState, Running, NextItem

LEMMA RestartInv == ASSUME IInv, Restart PROVE IInv'
<1>1. /\ task = "down" /\ task' = "running" /\ pc = "idle"
      /\ state' = latest_state_for(log) /\ hold' = NoState /\ lastHb' = NoTime
      /\ UNCHANGED <<log, trail, mailbox, pc, work, click, clock>>
  BY DEF Restart, IInv, Running
<1>2. state' \in VALID_STATES
  BY <1>1 DEF IInv
<1>3. TypeOK'
  BY <1>1, <1>2 DEF IInv, TypeOK, Times
<1> QED
  BY <1>1, <1>3 DEF IInv, StateIsCommitted, HoldMatchesState, Running

-----------------------------------------------------------------------------
(* The safety theorems.                                                    *)

LEMMA NextInv == IInv /\ [Next]_vars => IInv'
<1> SUFFICES ASSUME IInv, [Next]_vars PROVE IInv'
  OBVIOUS
<1>1. ASSUME NEW gap \in Gaps, NEW r \in Readings, OfferSample(gap, r) PROVE IInv'
  BY <1>1, OfferSampleInv
<1>2. ASSUME NEW c \in Clicks, NEW cmd \in COMMANDS, ReadState(c, cmd) PROVE IInv'
  BY <1>2, ReadStateInv
<1>3. ASSUME NEW c \in Clicks, Issue(c) PROVE IInv'
  BY <1>3, IssueInv, OfferControlInv DEF Issue
<1>4. CASE TakeItem
  BY <1>4, TakeItemInv
<1>5. CASE SkipUnreadable \/ SampleAppendFails \/ ControlAppendFails
  <2>1. lastHb' \in Times
    BY <1>5 DEF SkipUnreadable, SampleAppendFails, ControlAppendFails,
                NextItem, IInv, TypeOK
  <2> QED
    BY <1>5, <2>1, DropInv
    DEF SkipUnreadable, SampleAppendFails, ControlAppendFails, SampleMoves,
        Handling, HoldAfterSample, AppendRollsBack
<1>6. CASE CommitSample \/ QuietSample \/ CommitControl \/ Finish
  BY <1>6, CommitSampleInv, QuietSampleInv, CommitControlInv, FinishInv
<1>7. CASE StopActor \/ Crash \/ Restart
  BY <1>7, StopActorInv, CrashInv, RestartInv
<1>8. CASE UNCHANGED vars
  BY <1>8 DEF vars, actorVars, IInv, TypeOK, StateIsCommitted,
              HoldMatchesState, Running
<1> QED
  BY <1>1, <1>2, <1>3, <1>4, <1>5, <1>6, <1>7, <1>8, IssuedAssumption DEF Next, Handle

THEOREM Invariance == Spec => []IInv
BY InitInv, NextInv, PTL DEF Spec

\* Every variable of the actor keeps its type: the mailbox never exceeds
\* its size, and no row, item or hold is of a kind the code does not build.
THEOREM TypeCorrect == Spec => []TypeOK
<1>1. IInv => TypeOK
  BY DEF IInv
<1> QED BY Invariance, <1>1, PTL

\* _state is always the state a restart would rehydrate, up to the window
\* between a commit and the assignments that follow it.
THEOREM StateAlwaysCommitted == Spec => []StateIsCommitted
<1>1. IInv => StateIsCommitted
  BY DEF IInv
<1> QED BY Invariance, <1>1, PTL

\* The StateChanged rows of a machine form one chain, whatever crashed,
\* failed or raced.
THEOREM HistoryIsAChain == Spec => []ChainContiguous
<1>1. IInv => ChainContiguous
  BY DEF IInv, GoodLog, ChainContiguous
<1> QED BY Invariance, <1>1, PTL

\* The alarm rows and the state rows of a log agree on whether the tool is
\* in ALARM.
THEOREM AlarmsAgreeWithStates == Spec => []AlarmOpenIffAlarm
<1>1. IInv => AlarmOpenIffAlarm
  BY DEF IInv, GoodLog, AlarmOpenIffAlarm
<1> QED BY Invariance, <1>1, PTL

\* A hold is always of the state the tool is in.
THEOREM HoldsAreCurrent == Spec => []HoldMatchesState
<1>1. IInv => HoldMatchesState
  BY DEF IInv
<1> QED BY Invariance, <1>1, PTL

-----------------------------------------------------------------------------
(* The actor implements HeldTool.                                          *)

SameTool == UNCHANGED <<latest_state_for(log), CommittedHold>>

\* Steps that leave the log's states and everything the hold is read from.
LEMMA SameToolFrame ==
    ASSUME IInv, UNCHANGED <<state, hold, pc, work, task>>,
           latest_state_for(log') = latest_state_for(log),
           \A c \in Clicks : click[c].phase = "queued" => click'[c] = click[c]
    PROVE  SameTool
<1>1. pc = "committed" /\ work.kind = "control" => click'[work.click] = click[work.click]
  BY DEF IInv, TypeOK, ControlOK, Items, Stop, Item
<1> QED BY <1>1 DEF SameTool, CommittedHold

\* A hold that disappears without a transition.
LEMMA HoldLost ==
    ASSUME CommittedHold' \in {CommittedHold, NoState},
           latest_state_for(log') = latest_state_for(log)
    PROVE  [Tool!Next]_<<latest_state_for(log), CommittedHold>>
BY DEF Tool!Next, Tool!LoseHold, Tool!NoState, NoState

LEMMA IssueIsStutter ==
    ASSUME IInv, NEW c \in Clicks,
           AppendRequested(c) \/ Reject(c) \/ Accept(c) \/ OfferControl(c)
    PROVE  SameTool
<1>1. /\ UNCHANGED <<state, hold, pc, work, task>>
      /\ \A d \in Clicks : click[d].phase = "queued" => click'[d] = click[d]
  BY DEF AppendRequested, Reject, Accept, OfferControl, SetPhase, actorVars,
         IInv, TypeOK
<1>2. log' = log
  BY AppendRequestedWrites, RejectWrites DEF Accept, OfferControl
<1> QED BY <1>1, <1>2, SameToolFrame

LEMMA CommitSampleIsMove ==
    ASSUME IInv, CommitSample PROVE Tool!SensorMoves(work.to)
<1>1. /\ Running /\ pc = "handling" /\ work.kind = "sample"
      /\ Transitions # <<>> /\ hold' = HoldAfterSample /\ pc' = "committed"
      /\ UNCHANGED <<state, task, work, click>>
      /\ hold # NoState => work.to = ALARM
      /\ latest_state_for(log) = state
  BY DEF CommitSample, SampleMoves, Handling, Suppressed, IInv, StateIsCommitted
<1>2. state # work.to
  BY <1>1, WorkTransition
<1>3. latest_state_for(log') = work.to
  <2>1. IInv'
    BY CommitSampleInv
  <2> QED BY <1>1, <2>1 DEF IInv, StateIsCommitted, Running
<1>4. CommittedHold = hold /\ CommittedHold' = NoState
  BY <1>1 DEF CommittedHold, Running, HoldAfterSample
<1> QED
  BY <1>1, <1>2, <1>3, <1>4
  DEF Tool!SensorMoves, Tool!NoState, Tool!ALARM, NoState, ALARM

LEMMA CommitControlIsMove ==
    ASSUME IInv, CommitControl PROVE Tool!OperatorMoves(work.to) \/ SameTool
<1>1. /\ Running /\ pc = "handling" /\ work.kind = "control" /\ pc' = "committed"
      /\ UNCHANGED <<state, hold, task, work, click>>
      /\ latest_state_for(log) = state
  BY DEF CommitControl, Handling, IInv, StateIsCommitted
<1>2. latest_state_for(log') = work.to
  <2>1. IInv'
    BY CommitControlInv
  <2> QED BY <1>1, <2>1 DEF IInv, StateIsCommitted, Running
<1>3. /\ CommittedHold = hold
      /\ CommittedHold' = IF work.to # state
                          THEN IF HoldsState(click[work.click].cmd)
                               THEN work.to ELSE NoState
                          ELSE hold
  BY <1>1 DEF CommittedHold, Running
<1>4. HoldsState(click[work.click].cmd) <=> work.to # RUN
  <2>1. /\ work.click \in Clicks
        /\ work.to = ToState(click[work.click].cmd)
    BY <1>1 DEF IInv, TypeOK, Items, Stop, Item, ControlOK
  <2>2. click[work.click].cmd \in COMMANDS
    BY <2>1 DEF IInv, TypeOK
  <2> QED BY <2>1, <2>2, CommandTable
<1> QED
  BY <1>1, <1>2, <1>3, <1>4
  DEF SameTool, Tool!OperatorMoves, Tool!NoState, Tool!RUN, NoState, RUN

LEMMA FinishIsStutter == ASSUME IInv, Finish PROVE SameTool
<1>1. /\ Running /\ pc = "committed" /\ pc' = "idle"
      /\ UNCHANGED <<log, task>>
  BY DEF Finish, NextItem
<1>2. work.kind \in {"sample", "control"}
  BY <1>1 DEF IInv, TypeOK, Items, Stop, Item
<1>3. Transitions = <<>> <=> state = work.to
  BY <1>1, <1>2, WorkTransition
<1>4. CommittedHold' = hold'
  BY <1>1 DEF CommittedHold, Running
<1>5. hold' = CommittedHold
  BY <1>1, <1>2, <1>3 DEF Finish, CommittedHold, Running
<1> QED BY <1>1, <1>4, <1>5 DEF SameTool

LEMMA ToolStep ==
    IInv /\ [Next]_vars => [Tool!Next]_<<latest_state_for(log), CommittedHold>>
<1> SUFFICES ASSUME IInv, [Next]_vars
             PROVE  [Tool!Next]_<<latest_state_for(log), CommittedHold>>
  OBVIOUS
<1> USE DEF SameTool
<1>1. ASSUME NEW gap \in Gaps, NEW r \in Readings, OfferSample(gap, r) PROVE SameTool
  BY <1>1, SameToolFrame DEF OfferSample
<1>2. ASSUME NEW c \in Clicks, NEW cmd \in COMMANDS, ReadState(c, cmd) PROVE SameTool
  BY <1>2, SameToolFrame DEF ReadState, actorVars, IInv, TypeOK
<1>3. ASSUME NEW c \in Clicks, Issue(c) PROVE SameTool
  BY <1>3, IssueIsStutter DEF Issue
<1>4. CASE TakeItem
  <2>1. CommittedHold = hold /\ CommittedHold' = hold'
    BY <1>4 DEF TakeItem, CommittedHold, Running
  <2> QED BY <1>4, <2>1 DEF TakeItem
<1>5. CASE SkipUnreadable \/ SampleAppendFails \/ ControlAppendFails \/ QuietSample
  <2>1. /\ CommittedHold = hold /\ CommittedHold' = hold'
        /\ hold' \in {hold, NoState}
    BY <1>5
    DEF SkipUnreadable, SampleAppendFails, ControlAppendFails, QuietSample,
        SampleMoves, SampleQuiet, Handling, NextItem, HoldAfterSample,
        AppendRollsBack, CommittedHold, Running
  <2>2. latest_state_for(log') = latest_state_for(log)
    <3>1. IInv'
      BY <1>5, NextInv DEF Next, Handle
    <3>2. Running /\ Running' /\ pc = "handling" /\ pc' = "idle" /\ state' = state
      BY <1>5
      DEF SkipUnreadable, SampleAppendFails, ControlAppendFails, QuietSample,
          SampleMoves, SampleQuiet, Handling, NextItem, Running
    <3> QED BY <3>1, <3>2 DEF IInv, StateIsCommitted
  <2> QED BY <2>1, <2>2, HoldLost
<1>6. CASE CommitSample
  <2>1. work.to \in {RUN, IDLE, ALARM}
    BY <1>6, WorkTransition DEF CommitSample, SampleMoves, Handling
  <2> QED
    BY <1>6, <2>1, CommitSampleIsMove
    DEF Tool!Next, Tool!RUN, Tool!IDLE, Tool!ALARM, RUN, IDLE, ALARM
<1>7. CASE CommitControl
  <2>1. work.to \in {RUN, IDLE, ALARM}
    BY <1>7, WorkTransition DEF CommitControl, Handling
  <2> QED
    BY <1>7, <2>1, CommitControlIsMove
    DEF Tool!Next, Tool!RUN, Tool!IDLE, Tool!ALARM, RUN, IDLE, ALARM
<1>8. CASE Finish
  BY <1>8, FinishIsStutter
<1>9. CASE StopActor
  BY <1>9, SameToolFrame DEF StopActor
<1>10. CASE Crash
  <2>1. CommittedHold' = NoState /\ log' = log
    BY <1>10 DEF Crash, CommittedHold
  <2> QED BY <2>1, HoldLost
<1>11. CASE Restart
  <2>1. CommittedHold = NoState /\ CommittedHold' = NoState /\ log' = log
    BY <1>11 DEF Restart, CommittedHold, IInv, Running
  <2> QED BY <2>1
<1>12. CASE UNCHANGED vars
  BY <1>12, SameToolFrame DEF vars, actorVars
<1> QED
  BY <1>1, <1>2, <1>3, <1>4, <1>5, <1>6, <1>7, <1>8, <1>9, <1>10, <1>11, <1>12,
     IssuedAssumption
  DEF Next, Handle

\* Seen through its log, a MachineActor with its threads, failures, crashes
\* and restarts is a HeldTool.
THEOREM ActorImplementsHeldTool == Spec => ImplementsHeldTool
<1>1. Init => Tool!Init
  BY DEF Init, Tool!Init, latest_state_for, StateRows, CommittedHold,
         Tool!UNKNOWN, UNKNOWN, Tool!NoState, NoState
<1> QED
  BY <1>1, Invariance, ToolStep, PTL DEF Spec, ImplementsHeldTool, Tool!Spec

-----------------------------------------------------------------------------
(* The audit trail of a click.                                             *)

Requests == {"HostCommandRequested"}
Refusals == {"HostCommandRejected"}
Answers  == {"HostCommandDispatched"}

Asked(t, c)    == Rows(t, c, Requests) # {}
Refused(t, c)  == Rows(t, c, Refusals) # {}
Answered(l, c) == Rows(l, c, Answers) # {}

\* What ClickAudit says of the actor's rows about c.
Audit(l, c) ==
    /\ \A i, j \in Rows(l, c, Answers) : i = j
    /\ \A j \in Rows(l, c, {"StateChanged"}) :
          /\ j - 1 \in Rows(l, c, Answers)
          /\ l[j - 1].from = l[j].from
          /\ l[j - 1].to = l[j].to

\* What it says of the rows of c's own thread, with the progress of c they
\* go with.
TrailOK(t, c, phase) ==
    /\ \A i, j \in Rows(t, c, Requests) : i = j
    /\ \A i, j \in Rows(t, c, Refusals) : i = j
    /\ \A j \in Rows(t, c, Refusals) : \E i \in Rows(t, c, Requests) : i < j
    /\ phase \in {"new", "read"} => ~Asked(t, c)
    /\ phase \in {"requested", "accepted", "queued"} => Asked(t, c)
    /\ Refused(t, c) => phase = "rejected"

\* The item carries the command of click c.
CarriesClick(item, c) == item.kind = "control" /\ item.click = c

\* A command is in one place at a time, the mailbox or the actor's hand,
\* and until its batch is committed it has no answer.
CarriedOnce(l, c, box, at, item) ==
    /\ \A i \in DOMAIN box : CarriesClick(box[i], c) => ~Answered(l, c)
    /\ \A i, j \in DOMAIN box :
          CarriesClick(box[i], c) /\ CarriesClick(box[j], c) => i = j
    /\ at = "handling" /\ CarriesClick(item, c) => ~Answered(l, c)
    /\ at # "idle" /\ CarriesClick(item, c) =>
          \A i \in DOMAIN box : ~CarriesClick(box[i], c)

\* m keeps what l says of c: its audit, and whether it was answered.
SameRows(l, m, c) ==
    /\ Audit(l, c) => Audit(m, c)
    /\ Answered(m, c) <=> Answered(l, c)

AuditTypes == Answers \cup {"StateChanged"}

\* A row that is not about c's dispatch or transition.
Foreign(e, c) == e.corr # c \/ e.type \notin AuditTypes

\* Appending a row adds its position, and no other, to the rows of its
\* click and type.
LEMMA RowsAppend ==
    ASSUME NEW l \in Seq(EventRows), NEW e \in EventRows, NEW c, NEW types
    PROVE  /\ e.corr = c /\ e.type \in types =>
                 Rows(Append(l, e), c, types) = Rows(l, c, types) \cup {Len(l) + 1}
           /\ ~(e.corr = c /\ e.type \in types) =>
                 Rows(Append(l, e), c, types) = Rows(l, c, types)
           /\ \A i \in Rows(l, c, types) :
                 i \in 1..Len(l) /\ i < Len(l) + 1 /\ Append(l, e)[i] = l[i]
<1> DEFINE m == Append(l, e)
<1>1. /\ Len(m) = Len(l) + 1 /\ DOMAIN m = 1..Len(m) /\ DOMAIN l = 1..Len(l)
      /\ \A i \in 1..Len(l) : m[i] = l[i]
      /\ m[Len(l) + 1] = e /\ Len(l) \in Nat
  BY AppendProperties
<1> HIDE DEF m
<1>2. /\ e.corr = c /\ e.type \in types =>
            Rows(m, c, types) = Rows(l, c, types) \cup {Len(l) + 1}
      /\ ~(e.corr = c /\ e.type \in types) =>
            Rows(m, c, types) = Rows(l, c, types)
      /\ \A i \in Rows(l, c, types) : i \in 1..Len(l) /\ i < Len(l) + 1 /\ m[i] = l[i]
  BY <1>1 DEF Rows
<1> QED BY <1>2 DEF m

LEMMA ForeignRow ==
    ASSUME NEW l \in Seq(EventRows), NEW e \in EventRows, NEW c, Foreign(e, c)
    PROVE  SameRows(l, Append(l, e), c)
<1> DEFINE m == Append(l, e)
<1>1. \A i \in DOMAIN l : m[i] = l[i]
  BY AppendProperties
<1>2. /\ Rows(m, c, Answers) = Rows(l, c, Answers)
      /\ Rows(m, c, {"StateChanged"}) = Rows(l, c, {"StateChanged"})
  <2>1. ASSUME NEW types \in SUBSET AuditTypes
        PROVE  Rows(m, c, types) = Rows(l, c, types)
    <3>1. ~(e.corr = c /\ e.type \in types)
      BY DEF Foreign
    <3> QED BY <3>1, RowsAppend
  <2>2. /\ Answers \in SUBSET AuditTypes
        /\ {"StateChanged"} \in SUBSET AuditTypes
    BY DEF AuditTypes
  <2> QED BY <2>1, <2>2, Zenon
<1> HIDE DEF m
<1>3. \A types : \A i \in Rows(l, c, types) : m[i] = l[i]
  BY <1>1 DEF Rows
<1>4. Audit(l, c) => Audit(m, c)
  <2> SUFFICES ASSUME Audit(l, c), NEW j \in Rows(m, c, {"StateChanged"})
               PROVE  /\ j - 1 \in Rows(m, c, Answers)
                      /\ m[j - 1].from = m[j].from
                      /\ m[j - 1].to = m[j].to
    BY <1>2 DEF Audit
  <2>1. /\ j - 1 \in Rows(l, c, Answers)
        /\ l[j - 1].from = l[j].from /\ l[j - 1].to = l[j].to
    BY <1>2 DEF Audit
  <2> QED BY <2>1, <1>2, <1>3
<1> QED BY <1>2, <1>4 DEF SameRows, Answered, m

LEMMA SameRowsTransitive ==
    ASSUME NEW l, NEW k, NEW m, NEW c, SameRows(l, k, c), SameRows(k, m, c)
    PROVE  SameRows(l, m, c)
BY DEF SameRows

\* The first request of a click.
LEMMA RequestRow ==
    ASSUME NEW t \in Seq(EventRows), NEW u, NEW c,
           TrailOK(t, c, "read"), WroteRow(t, u, c, "HostCommandRequested")
    PROVE  TrailOK(u, c, "requested")
<1> PICK e \in EventRows : /\ e.corr = c /\ e.type = "HostCommandRequested"
                           /\ u = Append(t, e)
  BY DEF WroteRow
<1>1. /\ e.type \in Requests /\ e.type \notin Refusals
      /\ Rows(t, c, Requests) = {} /\ Rows(t, c, Refusals) = {}
  BY DEF Requests, Refusals, TrailOK, Asked, Refused
<1>2. Rows(u, c, Requests) = Rows(t, c, Requests) \cup {Len(t) + 1}
  BY <1>1, RowsAppend
<1>3. Rows(u, c, Refusals) = Rows(t, c, Refusals)
  BY <1>1, RowsAppend
<1> QED BY <1>1, <1>2, <1>3 DEF TrailOK, Asked, Refused

\* The refusal of a click that was asked.
LEMMA RefusalRow ==
    ASSUME NEW t \in Seq(EventRows), NEW u, NEW c,
           TrailOK(t, c, "requested"), WroteRow(t, u, c, "HostCommandRejected")
    PROVE  TrailOK(u, c, "rejected")
<1> PICK e \in EventRows : /\ e.corr = c /\ e.type = "HostCommandRejected"
                           /\ u = Append(t, e)
  BY DEF WroteRow
<1> DEFINE n == Len(t) + 1
<1>1. /\ e.type \notin Requests /\ e.type \in Refusals
      /\ Rows(t, c, Requests) # {} /\ Rows(t, c, Refusals) = {}
      /\ \A i, j \in Rows(t, c, Requests) : i = j
  BY DEF Requests, Refusals, TrailOK, Asked, Refused
<1>2. Rows(u, c, Refusals) = Rows(t, c, Refusals) \cup {n}
  BY <1>1, RowsAppend
<1>3. /\ Rows(u, c, Requests) = Rows(t, c, Requests)
      /\ \A i \in Rows(t, c, Requests) : i < n
  BY <1>1, RowsAppend
<1> HIDE DEF n
<1> QED BY <1>1, <1>2, <1>3 DEF TrailOK

\* The dispatch of a click that had no answer.
LEMMA AnswerRow ==
    ASSUME NEW l \in Seq(EventRows), NEW e \in EventRows, NEW c,
           Audit(l, c), ~Answered(l, c),
           e.corr = c, e.type \in Answers
    PROVE  /\ Audit(Append(l, e), c)
           /\ Rows(Append(l, e), c, Answers) = {Len(l) + 1}
           /\ Rows(Append(l, e), c, {"StateChanged"}) = {}
<1> DEFINE m == Append(l, e)
           n == Len(l) + 1
<1>1. /\ Rows(m, c, Answers) = {n}
      /\ Rows(m, c, {"StateChanged"}) = Rows(l, c, {"StateChanged"})
  <2>1. e.type \notin {"StateChanged"}
    BY DEF Answers
  <2>2. Rows(l, c, Answers) = {}
    BY DEF Answered
  <2>3. Rows(m, c, Answers) = Rows(l, c, Answers) \cup {n}
    BY RowsAppend
  <2>4. Rows(m, c, {"StateChanged"}) = Rows(l, c, {"StateChanged"})
    BY <2>1, RowsAppend
  <2> QED BY <2>2, <2>3, <2>4
<1>2. Rows(l, c, {"StateChanged"}) = {}
  BY DEF Audit, Answered
<1> HIDE DEF m, n
<1> QED BY <1>1, <1>2 DEF Audit, m, n

\* The transition of a command, right after its dispatch.
LEMMA TransitionRow ==
    ASSUME NEW l \in Seq(EventRows), NEW e \in EventRows, NEW c,
           Audit(l, c), Rows(l, c, Answers) = {Len(l)},
           Rows(l, c, {"StateChanged"}) = {},
           l[Len(l)].from = e.from, l[Len(l)].to = e.to,
           e.corr = c, e.type = "StateChanged"
    PROVE  Audit(Append(l, e), c)
<1> DEFINE m == Append(l, e)
           n == Len(l) + 1
<1>1. /\ Rows(m, c, Answers) = {Len(l)}
      /\ Rows(m, c, {"StateChanged"}) = {n}
  <2>1. e.type \notin Answers /\ e.type \in {"StateChanged"}
    BY DEF Answers
  <2>2. Rows(m, c, {"StateChanged"}) = Rows(l, c, {"StateChanged"}) \cup {n}
    BY <2>1, RowsAppend
  <2>3. Rows(m, c, Answers) = Rows(l, c, Answers)
    BY <2>1, RowsAppend
  <2> QED BY <2>2, <2>3
<1>2. /\ Len(l) \in 1..Len(l) /\ Len(l) \in Nat /\ n - 1 = Len(l)
      /\ m[n] = e /\ m[n - 1] = l[Len(l)]
  <2>1. Len(l) \in DOMAIN l /\ Len(l) \in Nat /\ DOMAIN l = 1..Len(l)
    BY DEF Rows
  <2> QED BY <2>1, AppendProperties
<1> HIDE DEF m, n
<1> QED BY <1>1, <1>2 DEF Audit, m

\* The rows of a transition caused by something else than click c.
LEMMA ForeignTransition ==
    ASSUME NEW l \in Seq(EventRows),
           NEW from \in VALID_STATES, NEW to \in {RUN, IDLE, ALARM},
           NEW alid \in Alids, NEW at \in Nat,
           NEW corr \in Clicks \cup {NoClick}, NEW c \in Clicks, corr # c
    PROVE  SameRows(l, l \o advance(from, to, alid, at, corr), c)
<1> DEFINE m  == l \o advance(from, to, alid, at, corr)
           sc == StateChanged(from, to, at, corr)
           up == AlarmTriggered(alid, at, corr)
           dn == AlarmReset(from, to, alid, at, corr)
<1>1. RowsAppended(l, m, from, to, alid, at, corr)
  BY AdvanceRows, Zenon
<1> HIDE DEF m
<1>2. /\ sc \in EventRows /\ up \in EventRows /\ dn \in EventRows
      /\ \/ m = l \/ m = Append(l, sc)
         \/ m = Append(Append(l, sc), up) \/ m = Append(Append(l, sc), dn)
  BY <1>1 DEF RowsAppended
<1>3. Foreign(sc, c) /\ Foreign(up, c) /\ Foreign(dn, c)
  BY DEF Foreign, StateChanged, AlarmTriggered, AlarmReset, Event
<1> HIDE DEF sc, up, dn
<1>4. SameRows(l, l, c)
  BY DEF SameRows
<1>5. Append(l, sc) \in Seq(EventRows) /\ SameRows(l, Append(l, sc), c)
  BY <1>2, <1>3, ForeignRow, AppendProperties
<1>6. ASSUME NEW e \in EventRows, Foreign(e, c)
      PROVE  SameRows(l, Append(Append(l, sc), e), c)
  BY <1>5, <1>6, ForeignRow, SameRowsTransitive, Zenon
<1>7. SameRows(l, m, c)
  BY <1>2, <1>3, <1>4, <1>5, <1>6
<1> QED BY <1>7 DEF m

\* The row a command is dispatched with.
IsDispatch(e, c, from, to) ==
    /\ e \in EventRows /\ e.corr = c /\ e.type = "HostCommandDispatched"
    /\ e.from = from /\ e.to = to

\* The dispatch of a command and the rows of its transition.
LEMMA CommandBatch ==
    ASSUME NEW l \in Seq(EventRows),
           NEW from \in VALID_STATES, NEW to \in {RUN, IDLE, ALARM},
           NEW alid \in Alids, NEW at \in Nat, NEW c \in Clicks,
           NEW e, IsDispatch(e, c, from, to),
           Audit(l, c), ~Answered(l, c)
    PROVE  Audit(Append(l, e) \o advance(from, to, alid, at, c), c)
<1> DEFINE k  == Append(l, e)
           m  == k \o advance(from, to, alid, at, c)
           sc == StateChanged(from, to, at, c)
           up == AlarmTriggered(alid, at, c)
           dn == AlarmReset(from, to, alid, at, c)
<1>1. /\ e \in EventRows /\ e.corr = c /\ e.type \in Answers
      /\ e.type = "HostCommandDispatched" /\ e.from = from /\ e.to = to
  BY DEF IsDispatch, Answers
<1>2. /\ k \in Seq(EventRows) /\ Len(k) = Len(l) + 1 /\ k[Len(k)] = e
  BY <1>1, AppendProperties
<1>3. /\ Audit(k, c)
      /\ Rows(k, c, Answers) = {Len(k)}
      /\ Rows(k, c, {"StateChanged"}) = {}
  BY <1>1, <1>2, AnswerRow
<1> HIDE DEF k
<1>4. RowsAppended(k, m, from, to, alid, at, c)
  BY <1>2, AdvanceRows, Zenon
<1> HIDE DEF m
<1>5. /\ sc \in EventRows /\ up \in EventRows /\ dn \in EventRows
      /\ \/ m = k \/ m = Append(k, sc)
         \/ m = Append(Append(k, sc), up) \/ m = Append(Append(k, sc), dn)
  BY <1>4 DEF RowsAppended
<1>6. /\ sc.corr = c /\ sc.type = "StateChanged" /\ sc.from = from /\ sc.to = to
      /\ Foreign(up, c) /\ Foreign(dn, c)
  BY DEF Foreign, AuditTypes, Answers, StateChanged, AlarmTriggered,
         AlarmReset, Event
<1> HIDE DEF sc, up, dn
<1> DEFINE j == Append(k, sc)
<1>7. j \in Seq(EventRows)
  BY <1>2, <1>5, AppendProperties
<1>8. Audit(j, c)
  BY <1>1, <1>2, <1>3, <1>5, <1>6, TransitionRow
<1> HIDE DEF j
<1>9. ASSUME NEW r \in {up, dn} PROVE Audit(Append(j, r), c)
  <2>1. r \in EventRows /\ Foreign(r, c)
    BY <1>5, <1>6
  <2>2. SameRows(j, Append(j, r), c)
    BY <1>7, <2>1, ForeignRow
  <2> QED BY <1>8, <2>2 DEF SameRows
<1>10. Audit(m, c)
  BY <1>3, <1>5, <1>8, <1>9 DEF j
<1> QED BY <1>10 DEF m, k

\* A click whose command is not queued is carried by nothing.
LEMMA NotCarried ==
    ASSUME IInv, NEW c \in Clicks, click[c].phase # "queued"
    PROVE  /\ \A i \in DOMAIN mailbox : ~CarriesClick(mailbox[i], c)
           /\ ~CarriesClick(work, c)
BY DEF IInv, ControlOK, CarriesClick

\* What the audit trail needs of one click.
AuditOf(c) ==
    /\ Audit(log, c)
    /\ Answered(log, c) => click[c].phase = "queued"
    /\ TrailOK(trail[c], c, click[c].phase)
    /\ CarriedOnce(log, c, mailbox, pc, work)

\* The hand is emptied, or keeps what it holds.
HandKept ==
    \/ pc' = "idle"
    \/ UNCHANGED <<pc, work>>
    \/ pc = "handling" /\ pc' = "committed" /\ UNCHANGED work

\* The mailbox gets no command of click c.
NoNewCommand(c) ==
    \/ mailbox' \in {mailbox, <<>>}
    \/ \E item \in Items : /\ mailbox' = Append(mailbox, item)
                           /\ ~CarriesClick(item, c)

LEMMA CarryFrame ==
    ASSUME IInv, NEW c \in Clicks, CarriedOnce(log, c, mailbox, pc, work),
           Answered(log', c) <=> Answered(log, c), HandKept, NoNewCommand(c)
    PROVE  CarriedOnce(log', c, mailbox', pc', work')
<1>1. \A i \in DOMAIN mailbox' :
         CarriesClick(mailbox'[i], c) =>
            i \in DOMAIN mailbox /\ CarriesClick(mailbox[i], c)
  <2>1. CASE mailbox' \in {mailbox, <<>>}
    BY <2>1
  <2>2. ASSUME NEW item \in Items, mailbox' = Append(mailbox, item),
               ~CarriesClick(item, c)
        PROVE  \A i \in DOMAIN mailbox' :
                  CarriesClick(mailbox'[i], c) =>
                     i \in DOMAIN mailbox /\ CarriesClick(mailbox[i], c)
    <3>1. mailbox \in Seq(Items)
      BY DEF IInv, TypeOK
    <3>2. \A i \in DOMAIN mailbox' : \/ i \in DOMAIN mailbox /\ mailbox'[i] = mailbox[i]
                                     \/ mailbox'[i] = item
      BY <2>2, <3>1, AppendProperties
    <3> QED BY <2>2, <3>2
  <2> QED BY <2>1, <2>2 DEF NoNewCommand
<1>2. \A i \in DOMAIN mailbox' : CarriesClick(mailbox'[i], c) => ~Answered(log', c)
  BY <1>1 DEF CarriedOnce
<1>3. \A i, j \in DOMAIN mailbox' :
         CarriesClick(mailbox'[i], c) /\ CarriesClick(mailbox'[j], c) => i = j
  BY <1>1 DEF CarriedOnce
<1>4. pc' = "handling" /\ CarriesClick(work', c) => ~Answered(log', c)
  BY DEF CarriedOnce, HandKept
<1>5. pc' # "idle" /\ CarriesClick(work', c) =>
         \A i \in DOMAIN mailbox' : ~CarriesClick(mailbox'[i], c)
  BY <1>1 DEF CarriedOnce, HandKept
<1> QED BY <1>2, <1>3, <1>4, <1>5 DEF CarriedOnce

\* A step that writes nothing about c and leaves its progress alone.
LEMMA AuditFrame ==
    ASSUME IInv, NEW c \in Clicks, AuditOf(c), SameRows(log, log', c),
           trail'[c] = trail[c], click'[c].phase = click[c].phase,
           HandKept, NoNewCommand(c)
    PROVE  AuditOf(c)'
<1>1. CarriedOnce(log', c, mailbox', pc', work')
  BY CarryFrame DEF AuditOf, SameRows
<1> QED BY <1>1 DEF AuditOf, SameRows

LEMMA SameLog ==
    ASSUME log' = log PROVE \A c : SameRows(log, log', c)
BY DEF SameRows

-----------------------------------------------------------------------------
(* The audit trail of c across each step.                                  *)

LEMMA ThreadWriteAudit ==
    ASSUME IInv, NEW c \in Clicks, AuditOf(c), NEW d \in Clicks,
           AppendRequested(d) \/ Reject(d)
    PROVE  AuditOf(c)'
<1>1. /\ log' = log /\ UNCHANGED actorVars /\ click[d].phase \in {"read", "requested"}
      /\ \/ /\ Wrote(d, "HostCommandRequested", "requested")
            /\ click[d].phase = "read"
         \/ /\ Wrote(d, "HostCommandRejected", "rejected")
            /\ click[d].phase = "requested"
  BY AppendRequestedWrites, RejectWrites
<1>2. HandKept /\ NoNewCommand(c) /\ SameRows(log, log', c)
  BY <1>1, SameLog DEF HandKept, NoNewCommand, actorVars
<1>3. CASE c # d
  <2>1. click'[c].phase = click[c].phase /\ trail'[c] = trail[c]
    BY <1>1, <1>3 DEF Wrote, SetPhase, IInv, TypeOK
  <2> QED BY <1>2, <2>1, AuditFrame
<1>4. CASE c = d
  <2>1. /\ TrailOK(trail[c], c, click[c].phase) /\ trail[c] \in Seq(EventRows)
        /\ Audit(log, c) /\ ~Answered(log, c)
    BY <1>1, <1>4 DEF AuditOf, IInv, TypeOK
  <2>2. TrailOK(trail'[c], c, click'[c].phase)
    <3>1. CASE trail' = trail /\ SetPhase(d, "lost")
      <4>1. click'[c].phase = "lost"
        BY <1>4, <3>1 DEF SetPhase, IInv, TypeOK
      <4> QED BY <1>1, <1>4, <2>1, <3>1, <4>1 DEF TrailOK
    <3>2. CASE /\ WroteRow(trail[c], trail'[c], c, "HostCommandRequested")
               /\ SetPhase(d, "requested") /\ click[d].phase = "read"
      <4>1. click'[c].phase = "requested"
        BY <1>4, <3>2 DEF SetPhase, IInv, TypeOK
      <4> QED BY <1>4, <2>1, <3>2, <4>1, RequestRow
    <3>3. CASE /\ WroteRow(trail[c], trail'[c], c, "HostCommandRejected")
               /\ SetPhase(d, "rejected") /\ click[d].phase = "requested"
      <4>1. click'[c].phase = "rejected"
        BY <1>4, <3>3 DEF SetPhase, IInv, TypeOK
      <4> QED BY <1>4, <2>1, <3>3, <4>1, RefusalRow
    <3> QED BY <1>1, <1>4, <3>1, <3>2, <3>3 DEF Wrote
  <2>3. CarriedOnce(log', c, mailbox', pc', work')
    BY <1>1, <1>2, CarryFrame DEF AuditOf
  <2> QED BY <1>1, <2>1, <2>2, <2>3 DEF AuditOf
<1> QED BY <1>3, <1>4

\* Steps of a click that write nothing.
LEMMA QuietClickAudit ==
    ASSUME IInv, NEW c \in Clicks, AuditOf(c), NEW d \in Clicks,
           NEW cmd \in COMMANDS, ReadState(d, cmd) \/ Accept(d)
    PROVE  AuditOf(c)'
<1>1. log' = log /\ trail' = trail /\ HandKept /\ NoNewCommand(c)
  BY DEF ReadState, Accept, actorVars, HandKept, NoNewCommand
<1>2. \/ click'[c].phase = click[c].phase
      \/ click[c].phase = "new" /\ click'[c].phase = "read"
      \/ click[c].phase = "requested" /\ click'[c].phase = "accepted"
  <2>1. click \in [Clicks -> [phase: Phases, cmd: COMMANDS, seen: VALID_STATES, at: Nat]]
    BY DEF IInv, TypeOK
  <2>2. CASE ReadState(d, cmd)
    <3>1. /\ click[d].phase = "new"
          /\ click'[c] = IF c = d THEN [phase |-> "read", cmd |-> cmd,
                                       seen |-> state, at |-> clock]
                                 ELSE click[c]
      BY <2>1, <2>2 DEF ReadState
    <3> QED BY <3>1
  <2>3. CASE Accept(d)
    BY <2>1, <2>3 DEF Accept, SetPhase
  <2> QED BY <2>2, <2>3
<1>3. CarriedOnce(log', c, mailbox', pc', work')
  BY <1>1, CarryFrame DEF AuditOf
<1> QED BY <1>1, <1>2, <1>3 DEF AuditOf, TrailOK

LEMMA OfferControlAudit ==
    ASSUME IInv, NEW c \in Clicks, AuditOf(c), NEW d \in Clicks, OfferControl(d)
    PROVE  AuditOf(c)'
<1>1. /\ click[d].phase = "accepted" /\ SetPhase(d, "queued")
      /\ mailbox' = Append(mailbox, ControlAction(d))
      /\ UNCHANGED <<log, trail, pc, work>>
  BY DEF OfferControl
<1>2. ControlAction(d) \in Items /\ ControlAction(d).click = d
  <2>1. click[d].cmd \in COMMANDS /\ click[d].at \in Nat
    BY DEF IInv, TypeOK
  <2> QED BY <2>1, CommandTable DEF ControlAction, Item, Items
<1>3. CASE c # d
  <2>1. ~CarriesClick(ControlAction(d), c)
    BY <1>2, <1>3 DEF CarriesClick
  <2>2. HandKept /\ NoNewCommand(c)
    BY <1>1, <1>2, <2>1 DEF HandKept, NoNewCommand
  <2>3. click'[c].phase = click[c].phase
    BY <1>1, <1>3 DEF SetPhase, IInv, TypeOK
  <2> QED BY <1>1, <2>2, <2>3, AuditFrame, SameLog
<1>4. CASE c = d
  <2>1. /\ Asked(trail[c], c) /\ ~Refused(trail[c], c)
        /\ ~Answered(log, c)
    BY <1>1, <1>4 DEF AuditOf, TrailOK
  <2>2. /\ \A i \in DOMAIN mailbox : ~CarriesClick(mailbox[i], c)
        /\ ~CarriesClick(work, c)
    BY <1>1, <1>4, NotCarried
  <2>3. \A i \in DOMAIN mailbox' : CarriesClick(mailbox'[i], c) => i = Len(mailbox) + 1
    <3>1. mailbox \in Seq(Items)
      BY DEF IInv, TypeOK
    <3>2. \A i \in DOMAIN mailbox' : \/ i \in DOMAIN mailbox /\ mailbox'[i] = mailbox[i]
                                     \/ i = Len(mailbox) + 1
      BY <1>1, <1>2, <3>1, AppendProperties
    <3> QED BY <2>2, <3>2
  <2>4. click'[c].phase = "queued"
    BY <1>1, <1>4 DEF SetPhase, IInv, TypeOK
  <2> QED BY <1>1, <2>1, <2>2, <2>3, <2>4 DEF AuditOf, TrailOK, CarriedOnce
<1> QED BY <1>3, <1>4

LEMMA TakeItemAudit ==
    ASSUME IInv, NEW c \in Clicks, AuditOf(c), TakeItem
    PROVE  AuditOf(c)'
<1>1. /\ mailbox \in Seq(Items) /\ mailbox # <<>> /\ mailbox' = Tail(mailbox)
      /\ pc = "idle" /\ UNCHANGED <<log, trail, click>>
      /\ \/ UNCHANGED <<pc, work>>
         \/ work' = Head(mailbox) /\ pc' = "handling"
  BY DEF TakeItem, IInv, TypeOK
<1>2. /\ Head(mailbox) = mailbox[1] /\ 1 \in DOMAIN mailbox
      /\ \A i \in DOMAIN mailbox' : /\ i \in Nat /\ i >= 1 /\ i + 1 \in DOMAIN mailbox
                                    /\ mailbox'[i] = mailbox[i + 1]
  BY <1>1
<1>3. /\ \A i \in DOMAIN mailbox' : CarriesClick(mailbox'[i], c) => ~Answered(log, c)
      /\ \A i, j \in DOMAIN mailbox' :
            CarriesClick(mailbox'[i], c) /\ CarriesClick(mailbox'[j], c) => i = j
  <2>1. \A i, j \in DOMAIN mailbox :
            CarriesClick(mailbox[i], c) /\ CarriesClick(mailbox[j], c) => i = j
    BY DEF AuditOf, CarriedOnce
  <2>2. ASSUME NEW i \in DOMAIN mailbox', NEW j \in DOMAIN mailbox',
               CarriesClick(mailbox'[i], c), CarriesClick(mailbox'[j], c)
        PROVE  i = j
    <3>1. i + 1 = j + 1
      BY <1>2, <2>1, <2>2
    <3> QED BY <1>2, <3>1
  <2>3. \A i \in DOMAIN mailbox' : CarriesClick(mailbox'[i], c) => ~Answered(log, c)
    BY <1>2 DEF AuditOf, CarriedOnce
  <2> QED BY <2>2, <2>3
<1>4. work' = Head(mailbox) /\ CarriesClick(work', c) =>
         /\ ~Answered(log, c)
         /\ \A i \in DOMAIN mailbox' : ~CarriesClick(mailbox'[i], c)
  <2> SUFFICES ASSUME CarriesClick(mailbox[1], c)
               PROVE  /\ ~Answered(log, c)
                      /\ \A i \in DOMAIN mailbox' : ~CarriesClick(mailbox'[i], c)
    BY <1>2
  <2>1. \A i \in DOMAIN mailbox' : i + 1 # 1
    BY <1>2
  <2> QED BY <1>2, <2>1 DEF AuditOf, CarriedOnce
<1>5. CarriedOnce(log', c, mailbox', pc', work')
  BY <1>1, <1>3, <1>4 DEF CarriedOnce
<1> QED BY <1>1, <1>5 DEF AuditOf

LEMMA CommitSampleAudit ==
    ASSUME IInv, NEW c \in Clicks, AuditOf(c), CommitSample
    PROVE  AuditOf(c)'
<1>1. /\ pc = "handling" /\ work.kind = "sample" /\ log' = log \o Transitions
      /\ pc' = "committed" /\ UNCHANGED <<trail, mailbox, work, click>>
  BY DEF CommitSample, SampleMoves, Handling, append_many
<1>2. /\ work.to \in {RUN, IDLE, ALARM} /\ work.alid \in Alids
      /\ work.at \in Nat /\ work.click \in Clicks \cup {NoClick}
      /\ state \in VALID_STATES /\ log \in Seq(EventRows)
  BY <1>1, WorkTransition DEF IInv, TypeOK
<1>3. work.click # c
  BY <1>1, ActorAssumption DEF ActorAssumption, IInv, TypeOK, Items, Stop, Item
<1>4. SameRows(log, log \o Transitions, c)
  BY <1>2, <1>3, ForeignTransition DEF Transitions
<1> QED BY <1>1, <1>4, AuditFrame DEF HandKept, NoNewCommand

LEMMA QuietSampleAudit ==
    ASSUME IInv, NEW c \in Clicks, AuditOf(c), QuietSample
    PROVE  AuditOf(c)'
<1> DEFINE e == Event("MachineHeartbeat", NoState, NoState, NoAlid, work.at, NoClick)
<1>1. /\ pc = "handling" /\ work.kind = "sample" /\ NextItem
      /\ log' = log \/ log' = log \o <<e>>
      /\ UNCHANGED <<trail, mailbox, click>>
  BY DEF QuietSample, SampleQuiet, Handling, append_many, AppendRollsBack, Heartbeat
<1>2. e \in EventRows /\ Foreign(e, c) /\ log \in Seq(EventRows)
  <2>1. work.at \in Nat
    BY <1>1, WorkTransition
  <2>2. log \in Seq(EventRows)
    BY DEF IInv, TypeOK
  <2> QED BY <2>1, <2>2 DEF Event, EventRows, EVENT_TYPES, Alids, Foreign, AuditTypes,
                       Answers
<1> HIDE DEF e
<1>3. SameRows(log, log', c)
  <2>1. log \o <<e>> = Append(log, e)
    BY <1>2
  <2> QED BY <1>1, <1>2, <2>1, ForeignRow, SameLog
<1> QED BY <1>1, <1>3, AuditFrame DEF HandKept, NoNewCommand, NextItem

LEMMA CommitControlAudit ==
    ASSUME IInv, NEW c \in Clicks, AuditOf(c), CommitControl
    PROVE  AuditOf(c)'
<1>1. /\ pc = "handling" /\ work.kind = "control"
      /\ log' = log \o ControlBatch /\ pc' = "committed"
      /\ UNCHANGED <<trail, mailbox, work, click>>
  BY DEF CommitControl, Handling, append_many
<1>2. /\ work.to \in {RUN, IDLE, ALARM} /\ work.alid \in Alids
      /\ work.at \in Nat /\ state \in VALID_STATES
      /\ Transitions \in Seq(EventRows) /\ log \in Seq(EventRows)
  BY <1>1, WorkTransition DEF IInv, TypeOK
<1>3. work.click \in Clicks
  BY <1>1 DEF IInv, TypeOK, Items, Stop, Item
<1>4. /\ Dispatched \in EventRows /\ Dispatched.corr = work.click
      /\ Dispatched.type = "HostCommandDispatched"
      /\ Dispatched.from = state /\ Dispatched.to = work.to
  <2>1. click[work.click].at \in Nat
    BY <1>3 DEF IInv, TypeOK
  <2> QED BY <1>2, <1>3, <2>1 DEF Dispatched, CommandEvent, Event, EventRows,
                                 EVENT_TYPES, Alids, VALID_STATES
<1>5. log' = Append(log, Dispatched) \o Transitions
  BY <1>1, <1>2, <1>4, BatchAppend DEF ControlBatch
<1>6. CASE work.click # c
  <2>1. Append(log, Dispatched) \in Seq(EventRows) /\ SameRows(log, Append(log, Dispatched), c)
    <3>1. Foreign(Dispatched, c)
      BY <1>4, <1>6 DEF Foreign
    <3> QED BY <1>2, <1>4, <3>1, ForeignRow, AppendProperties
  <2>2. SameRows(Append(log, Dispatched), log', c)
    BY <1>2, <1>3, <1>5, <1>6, <2>1, ForeignTransition DEF Transitions
  <2>3. SameRows(log, log', c)
    BY <2>1, <2>2, SameRowsTransitive
  <2> QED BY <1>1, <2>3, AuditFrame DEF HandKept, NoNewCommand
<1>7. CASE work.click = c
  <2>1. CarriesClick(work, c) /\ click[c].phase = "queued"
    BY <1>1, <1>7 DEF CarriesClick, IInv, ControlOK
  <2>2. Audit(log, c) /\ ~Answered(log, c)
    BY <1>1, <2>1 DEF AuditOf, CarriedOnce
  <2>3. Audit(log', c)
    <3>1. IsDispatch(Dispatched, c, state, work.to)
      BY <1>4, <1>7 DEF IsDispatch
    <3>2. Transitions = advance(state, work.to, work.alid, work.at, c)
      BY <1>7 DEF Transitions
    <3> QED BY <1>2, <1>5, <2>2, <3>1, <3>2, CommandBatch
  <2>4. CarriedOnce(log', c, mailbox', pc', work')
    <3>1. \A i \in DOMAIN mailbox : ~CarriesClick(mailbox[i], c)
      BY <1>1, <2>1 DEF AuditOf, CarriedOnce
    <3> QED BY <1>1, <3>1 DEF CarriedOnce
  <2> QED BY <1>1, <2>1, <2>3, <2>4 DEF AuditOf
<1> QED BY <1>6, <1>7

LEMMA CrashAudit ==
    ASSUME IInv, NEW c \in Clicks, AuditOf(c), Crash
    PROVE  AuditOf(c)'
<1>1. /\ log' = log /\ trail' = trail /\ mailbox' = <<>> /\ pc' = "idle"
      /\ \/ click'[c].phase = click[c].phase
         \/ /\ click[c].phase \in {"read", "requested", "accepted"}
            /\ click'[c].phase = "lost"
  BY DEF Crash, NextItem, IInv, TypeOK
<1>2. CarriedOnce(log', c, mailbox', pc', work')
  BY <1>1 DEF CarriedOnce
<1> QED BY <1>1, <1>2 DEF AuditOf, TrailOK

-----------------------------------------------------------------------------
(* The theorem.                                                            *)

AuditInv == \A c \in Clicks : AuditOf(c)

LEMMA NextAudit == IInv /\ AuditInv /\ [Next]_vars => AuditInv'
<1> SUFFICES ASSUME IInv, AuditInv, [Next]_vars, NEW c \in Clicks
             PROVE  AuditOf(c)'
  BY DEF AuditInv
<1>0. AuditOf(c)
  BY DEF AuditInv
<1>1. ASSUME NEW gap \in Gaps, NEW r \in Readings, OfferSample(gap, r)
      PROVE  AuditOf(c)'
  <2>1. /\ UNCHANGED <<log, trail, click, pc, work>>
        /\ mailbox' = Append(mailbox, Sample(r, clock'))
        /\ clock' \in Nat
    BY <1>1, ActorAssumption DEF OfferSample, ActorAssumption, IInv, TypeOK
  <2>2. Sample(r, clock') \in Items /\ ~CarriesClick(Sample(r, clock'), c)
    BY <2>1 DEF Readings, Sample, Item, Items, Alids, CarriesClick
  <2> QED BY <1>0, <2>1, <2>2, AuditFrame, SameLog DEF HandKept, NoNewCommand
<1>2. ASSUME NEW d \in Clicks, NEW cmd \in COMMANDS, ReadState(d, cmd)
      PROVE  AuditOf(c)'
  BY <1>0, <1>2, QuietClickAudit
<1>3. ASSUME NEW d \in Clicks, Issue(d) PROVE AuditOf(c)'
  <2>1. "START" \in COMMANDS
    BY DEF COMMANDS
  <2> QED BY <1>0, <1>3, <2>1, ThreadWriteAudit, QuietClickAudit,
             OfferControlAudit DEF Issue
<1>4. CASE TakeItem
  BY <1>0, <1>4, TakeItemAudit
<1>5. CASE SkipUnreadable \/ SampleAppendFails \/ ControlAppendFails \/ Finish
  BY <1>0, <1>5, AuditFrame, SameLog
  DEF SkipUnreadable, SampleAppendFails, ControlAppendFails, Finish, NextItem,
      AppendRollsBack, HandKept, NoNewCommand
<1>6. CASE CommitSample \/ QuietSample \/ CommitControl
  BY <1>0, <1>6, CommitSampleAudit, QuietSampleAudit, CommitControlAudit
<1>7. CASE StopActor
  <2>1. Stop \in Items /\ ~CarriesClick(Stop, c)
    BY NoWorkIsItem DEF NoWork, CarriesClick
  <2> QED BY <1>0, <1>7, <2>1, AuditFrame, SameLog DEF StopActor, HandKept, NoNewCommand
<1>8. CASE Crash
  BY <1>0, <1>8, CrashAudit
<1>9. CASE Restart \/ UNCHANGED vars
  BY <1>0, <1>9, AuditFrame, SameLog
  DEF Restart, vars, actorVars, HandKept, NoNewCommand
<1> QED
  BY <1>1, <1>2, <1>3, <1>4, <1>5, <1>6, <1>7, <1>8, <1>9, IssuedAssumption DEF Next, Handle

\* The audit trail of a click, over the rows of two threads: at most one
\* request and one answer, no answer without the request, and a transition
\* only as the actor's next row after the dispatch that names it, however
\* clicks, samples, failures and restarts interleave.
THEOREM ClicksAreAudited == Spec => []ClickAudit
<1>1. Init => AuditInv
  <2> SUFFICES ASSUME Init, NEW c \in Clicks PROVE AuditOf(c)
    BY DEF AuditInv
  <2>1. \A types : Rows(log, c, types) = {} /\ Rows(trail[c], c, types) = {}
    BY DEF Init, Rows
  <2>2. click[c].phase = "new" /\ mailbox = <<>> /\ pc = "idle"
    BY DEF Init
  <2> QED BY <2>1, <2>2 DEF AuditOf, Audit, TrailOK, CarriedOnce, Asked, Refused,
                            Answered
<1>2. AuditInv => ClickAudit
  BY DEF AuditInv, AuditOf, Audit, TrailOK, ClickAudit, Asked, Refused, Answered,
         Requests, Refusals, Answers
<1> QED BY <1>1, <1>2, Invariance, NextAudit, PTL DEF Spec
=============================================================================
