---------------------------- MODULE SecsFloorProofs ----------------------------
(***************************************************************************)
(* What the scenario tells, what a session shows and what the host hears    *)
(* of a tool, for any number of machines, tools, CEIDs, connections and      *)
(* faults.                                                                  *)
(***************************************************************************)
EXTENDS SecsFloor, FiniteSetTheorems, SequenceTheorems, TLAPS

USE DEF scenarioVars, equipmentVars, linkVars, setupVars, hostVars

-----------------------------------------------------------------------------
(* The scenario                                                            *)

ScenarioInv == ScenarioTypeOK /\ OneStoryAtATime

LEMMA ScenarioStarts ==
    ASSUME ScenarioInit
    PROVE  ScenarioInv
BY ScenarioAssumption
   DEF ScenarioInit, ScenarioInv, ScenarioTypeOK, OneStoryAtATime, Phases, Levels

LEMMA ScenarioStartsAnew ==
    ASSUME ScenarioReset
    PROVE  ScenarioInv'
BY ScenarioAssumption
   DEF ScenarioReset, ScenarioInv, ScenarioTypeOK, OneStoryAtATime, Phases, Levels

LEMMA ScenarioStays ==
    ASSUME ScenarioInv, UNCHANGED scenarioVars
    PROVE  ScenarioInv'
BY DEF ScenarioInv, ScenarioTypeOK, OneStoryAtATime

\* The part of the state _advance_clock writes.
ClockInv ==
    /\ victim \in known \cup {NoVictim}
    /\ phase \in [Machines -> Phases]
    /\ target \in [Machines -> {"baseline", "peak"}]
    /\ OneStoryAtATime

\* The victim is the one machine away from NORMAL, so there is a next phase.
LEMMA PhaseAdvances ==
    ASSUME ScenarioInv, victim # NoVictim, AdvancePhase, known \subseteq known'
    PROVE  ClockInv'
<1>1. victim \in Machines /\ phase[victim] \in {"DEGRADING", "ALARMED", "RECOVERING"}
  BY DEF ScenarioInv, ScenarioTypeOK, OneStoryAtATime, Phases
<1> DEFINE next == Following(phase[victim])
<1>2. /\ phase[victim] = "DEGRADING" => next = "ALARMED"
      /\ phase[victim] = "ALARMED" => next = "RECOVERING"
      /\ phase[victim] = "RECOVERING" => next = "NORMAL"
  BY DEF Following
<1>3. next \in Phases \ {"DEGRADING"}
  BY <1>1, <1>2 DEF Phases
<1>4. /\ phase' = [phase EXCEPT ![victim] = next]
      /\ target' = [target EXCEPT ![victim] =
                       IF next = "ALARMED" THEN "peak" ELSE "baseline"]
      /\ victim' = IF next = "NORMAL" THEN NoVictim ELSE victim
  BY DEF AdvancePhase
<1> HIDE DEF next
<1>5. /\ phase' \in [Machines -> Phases]
      /\ target' \in [Machines -> {"baseline", "peak"}]
      /\ victim' \in known' \cup {NoVictim}
  BY <1>1, <1>3, <1>4 DEF ScenarioInv, ScenarioTypeOK
<1>6. \A m \in Machines : phase'[m] # "NORMAL" <=> m = victim'
  BY <1>1, <1>3, <1>4, ScenarioAssumption
     DEF ScenarioInv, ScenarioTypeOK, OneStoryAtATime
<1>7. \A m \in Machines :
          target'[m] = "peak" <=> phase'[m] \in {"DEGRADING", "ALARMED"}
  BY <1>1, <1>3, <1>4 DEF ScenarioInv, ScenarioTypeOK, OneStoryAtATime
<1> QED
  BY <1>5, <1>6, <1>7 DEF ClockInv, OneStoryAtATime

LEMMA ScenarioBegins ==
    ASSUME ScenarioInv, victim = NoVictim, StartNewScenario, known \subseteq known'
    PROVE  ClockInv'
<1>1. \A m \in Machines : phase[m] = "NORMAL" /\ target[m] = "baseline"
  BY ScenarioAssumption DEF ScenarioInv, ScenarioTypeOK, OneStoryAtATime
<1>2. CASE UNCHANGED <<victim, phase, target>>
  BY <1>2 DEF ClockInv, ScenarioInv, ScenarioTypeOK, OneStoryAtATime
<1>3. CASE \E m \in known :
              /\ victim' = m
              /\ phase' = [phase EXCEPT ![m] = "DEGRADING"]
              /\ target' = [target EXCEPT ![m] = "peak"]
  <2>1. PICK m \in known : /\ victim' = m
                           /\ phase' = [phase EXCEPT ![m] = "DEGRADING"]
                           /\ target' = [target EXCEPT ![m] = "peak"]
    BY <1>3
  <2>2. m \in Machines
    BY DEF ScenarioInv, ScenarioTypeOK
  <2>3. /\ phase' \in [Machines -> Phases]
        /\ target' \in [Machines -> {"baseline", "peak"}]
        /\ victim' \in known' \cup {NoVictim}
    BY <2>1, <2>2 DEF ScenarioInv, ScenarioTypeOK, Phases
  <2>4. OneStoryAtATime'
    BY <1>1, <2>1, <2>2 DEF OneStoryAtATime, ScenarioInv, ScenarioTypeOK
  <2> QED
    BY <2>3, <2>4 DEF ClockInv
<1> QED
  BY <1>2, <1>3 DEF StartNewScenario

\* A tick of one machine's sensor, with or without a deadline that has passed.
LEMMA ScenarioTicks ==
    ASSUME ScenarioInv, NEW m \in Machines, NEW due, update_sensor(m, due)
    PROVE  ScenarioInv' /\ over'[m] \in BOOLEAN
           /\ \A n \in Machines : n # m => over'[n] = over[n]
<1>1. known' = known \cup {m} /\ known' \in SUBSET Machines
  BY DEF update_sensor, ScenarioInv, ScenarioTypeOK
<1>2. ClockInv'
  <2>1. CASE UNCHANGED <<victim, phase, target>>
    BY <1>1, <2>1 DEF ClockInv, ScenarioInv, ScenarioTypeOK, OneStoryAtATime
  <2>2. CASE victim # NoVictim /\ AdvancePhase
    BY <1>1, <2>2, PhaseAdvances
  <2>3. CASE victim = NoVictim /\ StartNewScenario
    BY <1>1, <2>3, ScenarioBegins
  <2> QED
    BY <2>1, <2>2, <2>3 DEF update_sensor, AdvanceClock
<1>3. PICK to \in Drifted(level[m], target'[m]) :
          /\ level' = [level EXCEPT ![m] = to]
          /\ \E reads \in Readings(to) : over' = [over EXCEPT ![m] = reads]
  BY DEF update_sensor
<1>4. level[m] \in Levels /\ target'[m] \in {"baseline", "peak"}
  BY <1>2 DEF ScenarioInv, ScenarioTypeOK, ClockInv
<1>5. to \in Levels
  BY <1>3, <1>4 DEF Drifted, Levels
<1>6. Readings(to) \subseteq BOOLEAN
  BY <1>5 DEF Readings, Levels
<1>7. level' \in [Machines -> Levels] /\ over' \in [Machines -> BOOLEAN]
  BY <1>3, <1>5, <1>6 DEF ScenarioInv, ScenarioTypeOK
<1>8. \A n \in Machines : n # m => over'[n] = over[n]
  BY <1>3 DEF ScenarioInv, ScenarioTypeOK
<1> QED
  BY <1>1, <1>2, <1>7, <1>8 DEF ScenarioInv, ScenarioTypeOK, ClockInv

-----------------------------------------------------------------------------
(* Sequences of calls: the last one of a set.                               *)

NoneOf(s, S) == \A i \in DOMAIN s : s[i] \notin S

LastIs(s, S, e) ==
    \E i \in DOMAIN s : /\ s[i] = e
                        /\ \A j \in DOMAIN s : i < j => s[j] \notin S

LEMMA ElementOf ==
    ASSUME NEW R, NEW s \in Seq(R), NEW n \in DOMAIN s
    PROVE  s[n] \in R
OBVIOUS

LEMMA SameDomain ==
    ASSUME NEW R, NEW s \in Seq(R), NEW Q, NEW r \in Seq(Q), Len(s) = Len(r)
    PROVE  DOMAIN s = DOMAIN r
OBVIOUS

LEMMA LastAfterAppend ==
    ASSUME NEW R, NEW s \in Seq(R), NEW new \in R, NEW S, NEW e
    PROVE  /\ new = e => LastIs(Append(s, new), S, e)
           /\ new \notin S /\ LastIs(s, S, e) => LastIs(Append(s, new), S, e)
           /\ new \notin S /\ NoneOf(s, S) => NoneOf(Append(s, new), S)
<1>1. /\ DOMAIN Append(s, new) = 1..(Len(s) + 1) /\ DOMAIN s = 1..Len(s)
      /\ Len(s) \in Nat /\ Append(s, new)[Len(s) + 1] = new
      /\ \A i \in 1..Len(s) : Append(s, new)[i] = s[i]
  OBVIOUS
<1>2. new = e => LastIs(Append(s, new), S, e)
  BY <1>1 DEF LastIs
<1>3. new \notin S /\ LastIs(s, S, e) => LastIs(Append(s, new), S, e)
  BY <1>1 DEF LastIs
<1>4. new \notin S /\ NoneOf(s, S) => NoneOf(Append(s, new), S)
  BY <1>1 DEF NoneOf
<1> QED
  BY <1>2, <1>3, <1>4

LEMMA LastAfterTail ==
    ASSUME NEW R, NEW s \in Seq(R), s # <<>>, NEW S, NEW e
    PROVE  /\ LastIs(s, S, e) =>
                 LastIs(Tail(s), S, e) \/ (Head(s) = e /\ NoneOf(Tail(s), S))
           /\ NoneOf(s, S) => Head(s) \notin S /\ NoneOf(Tail(s), S)
<1>1. /\ Len(s) \in Nat \ {0} /\ DOMAIN s = 1..Len(s)
      /\ DOMAIN Tail(s) = 1..(Len(s) - 1) /\ Head(s) = s[1]
      /\ \A i \in 1..(Len(s) - 1) : Tail(s)[i] = s[i + 1]
  OBVIOUS
<1>2. NoneOf(s, S) => Head(s) \notin S /\ NoneOf(Tail(s), S)
  BY <1>1 DEF NoneOf
<1>3. ASSUME LastIs(s, S, e)
      PROVE  LastIs(Tail(s), S, e) \/ (Head(s) = e /\ NoneOf(Tail(s), S))
  <2>1. PICK i \in DOMAIN s : /\ s[i] = e
                             /\ \A j \in DOMAIN s : i < j => s[j] \notin S
    BY <1>3 DEF LastIs
  <2>2. CASE i = 1
    BY <1>1, <2>1, <2>2 DEF NoneOf
  <2>3. CASE i # 1
    <3>1. i - 1 \in DOMAIN Tail(s) /\ Tail(s)[i - 1] = e
      BY <1>1, <2>1, <2>3
    <3>2. ASSUME NEW j \in DOMAIN Tail(s), i - 1 < j PROVE Tail(s)[j] \notin S
      BY <1>1, <2>1, <3>2
    <3> QED
      BY <3>1, <3>2 DEF LastIs
  <2> QED
    BY <2>2, <2>3
<1> QED
  BY <1>2, <1>3

\* A prefix that loses nothing of S.
LEMMA LastAfterCut ==
    ASSUME NEW R, NEW s \in Seq(R), NEW n \in 0..Len(s), NEW S, NEW e \in S,
           \A i \in (n + 1)..Len(s) : s[i] \notin S
    PROVE  /\ SubSeq(s, 1, n) \in Seq(R)
           /\ LastIs(s, S, e) => LastIs(SubSeq(s, 1, n), S, e)
           /\ NoneOf(s, S) => NoneOf(SubSeq(s, 1, n), S)
<1>1. /\ Len(s) \in Nat /\ DOMAIN s = 1..Len(s) /\ n \in Nat
      /\ DOMAIN SubSeq(s, 1, n) = 1..n
      /\ \A i \in 1..n : SubSeq(s, 1, n)[i] = s[i]
  OBVIOUS
<1>2. SubSeq(s, 1, n) \in Seq(R)
  OBVIOUS
<1>3. NoneOf(s, S) => NoneOf(SubSeq(s, 1, n), S)
  BY <1>1 DEF NoneOf
<1>4. ASSUME LastIs(s, S, e) PROVE LastIs(SubSeq(s, 1, n), S, e)
  <2>1. PICK i \in DOMAIN s : /\ s[i] = e
                             /\ \A j \in DOMAIN s : i < j => s[j] \notin S
    BY <1>4 DEF LastIs
  <2>2. i \in 1..n
    BY <1>1, <2>1
  <2> QED
    BY <1>1, <2>1, <2>2 DEF LastIs
<1> QED
  BY <1>2, <1>3, <1>4

-----------------------------------------------------------------------------
(* Types                                                                   *)

CallRecords == Frames \cup {Connected, Disconnected}

\* TypeOK, with what it leaves open of the sequences.
FloorTypes ==
    /\ ScenarioInv
    /\ eq \in [Tools -> {"off", "failed", "sampling"}]
    /\ latch \in [Tools -> BOOLEAN]
    /\ programmed \in [Tools -> SUBSET AllCeids]
    /\ link \in [Tools -> BOOLEAN]
    /\ calls \in [Tools -> Seq(CallRecords)]
    /\ connects \in [Tools -> 0..MaxConnects]
    /\ host \in {"off", "up", "stopping"}
    /\ handler \in [Tools -> {"none", "set", "disabling"}]
    /\ dialing \in [Tools -> BOOLEAN]
    /\ state \in [Tools -> States]
    /\ setups \in [Tools -> Seq(0..Ended)]
    /\ failed \in [Tools -> Seq(SUBSET AllCeids)]
    /\ \A t \in Tools : Len(setups[t]) = Len(failed[t])
    /\ blind \in [Tools -> Seq(SUBSET AllCeids)]
    /\ \A t \in Tools : Len(setups[t]) = Len(blind[t])
    /\ heard \in [Tools -> [Kinds -> BOOLEAN]]
    /\ arrives \in [Tools -> [Kinds -> BOOLEAN]]
    /\ faults \in 0..MaxFaults

LEMMA TypesImplyTypeOK ==
    ASSUME FloorTypes
    PROVE  TypeOK
<1>1. \A t \in Tools : \A i \in DOMAIN calls[t] :
          calls[t][i] \in Frames \cup {Connected, Disconnected}
  BY DEF FloorTypes, CallRecords
<1>2. \A t \in Tools :
          /\ DOMAIN setups[t] = DOMAIN failed[t] /\ DOMAIN setups[t] = DOMAIN blind[t]
          /\ \A n \in DOMAIN setups[t] :
                /\ setups[t][n] \in 0..Ended
                /\ failed[t][n] \subseteq AllCeids /\ blind[t][n] \subseteq AllCeids
  <2> SUFFICES ASSUME NEW t \in Tools
               PROVE  /\ DOMAIN setups[t] = DOMAIN failed[t]
                      /\ DOMAIN setups[t] = DOMAIN blind[t]
                      /\ \A n \in DOMAIN setups[t] :
                            /\ setups[t][n] \in 0..Ended
                            /\ failed[t][n] \subseteq AllCeids
                            /\ blind[t][n] \subseteq AllCeids
    OBVIOUS
  <2>1. /\ setups[t] \in Seq(0..Ended)
        /\ failed[t] \in Seq(SUBSET AllCeids) /\ blind[t] \in Seq(SUBSET AllCeids)
        /\ Len(setups[t]) = Len(failed[t]) /\ Len(setups[t]) = Len(blind[t])
    BY DEF FloorTypes
  <2>2. DOMAIN setups[t] = DOMAIN failed[t] /\ DOMAIN setups[t] = DOMAIN blind[t]
    <3>1. DOMAIN setups[t] = DOMAIN failed[t]
      BY ONLY <2>1, SameDomain
    <3>2. DOMAIN setups[t] = DOMAIN blind[t]
      BY ONLY <2>1, SameDomain
    <3> QED
      BY <3>1, <3>2
  <2> DEFINE R == 0..Ended
             Q == SUBSET AllCeids
  <2> HIDE DEF R, Q
  <2>6. /\ \A s \in Seq(R) : \A n \in DOMAIN s : s[n] \in R
        /\ \A s \in Seq(Q) : \A n \in DOMAIN s : s[n] \in Q
    BY ElementOf
  <2>3. \A n \in DOMAIN setups[t] : setups[t][n] \in 0..Ended
    BY <2>1, <2>6, Zenon DEF R
  <2>4. /\ \A n \in DOMAIN failed[t] : failed[t][n] \in SUBSET AllCeids
        /\ \A n \in DOMAIN blind[t] : blind[t][n] \in SUBSET AllCeids
    BY <2>1, <2>6, Zenon DEF Q
  <2>5. /\ \A n \in DOMAIN failed[t] : failed[t][n] \subseteq AllCeids
        /\ \A n \in DOMAIN blind[t] : blind[t][n] \subseteq AllCeids
    BY <2>4, Zenon
  <2> QED
    BY <2>2, <2>3, <2>5, Zenon
<1> QED
  BY <1>1, <1>2 DEF FloorTypes, TypeOK, ScenarioInv

LEMMA FloorStarts ==
    ASSUME Init
    PROVE  FloorTypes
<1>1. ScenarioInv
  BY ScenarioStarts DEF Init
<1>2. \A R : <<>> \in Seq(R)
  OBVIOUS
<1>3. /\ calls \in [Tools -> Seq(CallRecords)]
      /\ setups \in [Tools -> Seq(0..Ended)]
      /\ failed \in [Tools -> Seq(SUBSET AllCeids)]
      /\ \A t \in Tools : Len(setups[t]) = Len(failed[t])
      /\ blind \in [Tools -> Seq(SUBSET AllCeids)]
      /\ \A t \in Tools : Len(setups[t]) = Len(blind[t])
  BY <1>2 DEF Init
<1>4. /\ heard \in [Tools -> [Kinds -> BOOLEAN]]
      /\ arrives \in [Tools -> [Kinds -> BOOLEAN]]
  BY DEF Init
<1> QED
  BY <1>1, <1>3, <1>4, SecsFloorAssumption DEF Init, FloorTypes, States

LEMMA BrokenCalls ==
    ASSUME FloorTypes, NEW t \in Tools, NEW n \in 0..Len(calls[t])
    PROVE  AfterBreak(t, n) \in Seq(CallRecords)
<1>1. calls[t] \in Seq(CallRecords) /\ Disconnected \in CallRecords
  BY DEF FloorTypes, CallRecords
<1>2. SubSeq(calls[t], 1, n) \in Seq(CallRecords)
  BY <1>1
<1> QED
  BY <1>1, <1>2 DEF AfterBreak

LEMMA ArrivingIsBoolean ==
    ASSUME NEW t \in Tools, NEW n
    PROVE  [k \in Kinds |-> Arriving(t, n, k)] \in [Kinds -> BOOLEAN]
BY DEF Arriving

LEMMA FrameFacts ==
    /\ \A k \in Kinds, hot \in BOOLEAN :
          Frame(k, hot) \in Frames /\ Frame(k, hot).kind = k /\ Frame(k, hot).hot = hot
    /\ \A f \in Frames :
          f.kind \in Kinds /\ f.hot \in BOOLEAN /\ f = Frame(f.kind, f.hot)
BY DEF Frame, Frames

LEMMA CallFacts ==
    /\ Connected.kind \notin Kinds /\ Disconnected.kind \notin Kinds
    /\ Connected # Disconnected
    /\ \A f \in Frames : f # Connected /\ f # Disconnected
    /\ \A c \in CallRecords : c.kind \in Kinds => c \in Frames
<1>1. Connected.kind = "up" /\ Disconnected.kind = "down"
  BY DEF Connected, Disconnected, Frame
<1>2. Connected.kind \notin Kinds /\ Disconnected.kind \notin Kinds
  BY <1>1 DEF Kinds
<1>3. Connected # Disconnected
  BY <1>1
<1>4. \A f \in Frames : f # Connected /\ f # Disconnected
  BY <1>2, FrameFacts
<1>5. \A c \in CallRecords : c.kind \in Kinds => c \in Frames
  BY <1>2 DEF CallRecords
<1> QED
  BY <1>2, <1>3, <1>4, <1>5

\* A tick sends a sample, and perhaps a report.
LEMMA EmittedFrames ==
    ASSUME NEW t, NEW hot \in BOOLEAN
    PROVE  /\ hot = latch[t] => Emitted(t, hot) = <<Frame("S6F11", hot)>>
           /\ hot # latch[t] =>
                 Emitted(t, hot) = <<Frame("S6F11", hot), Frame("S5F1", hot)>>
<1> DEFINE a == Frame("S6F11", hot)
           b == Frame("S5F1", hot)
<1>1. /\ hot = latch[t] => Emitted(t, hot) = <<a>> \o <<>>
      /\ hot # latch[t] => Emitted(t, hot) = <<a>> \o <<b>>
  BY DEF Emitted
<1> HIDE DEF a, b
<1>2. <<a>> \o <<>> = <<a>>
  <2>1. <<a>> \in Seq({a})
    OBVIOUS
  <2> QED
    BY <2>1, ConcatEmptySeq
<1>3. <<a>> \o <<b>> = <<a, b>>
  <2>1. <<a>> \in Seq({a, b}) /\ <<b>> \in Seq({a, b})
    OBVIOUS
  <2>2. <<a, b>> \in Seq({a, b}) /\ Len(<<a, b>>) = 2
        /\ <<a, b>>[1] = a /\ <<a, b>>[2] = b
    OBVIOUS
  <2>3. /\ <<a>> \o <<b>> \in Seq({a, b}) /\ Len(<<a>> \o <<b>>) = 2
        /\ (<<a>> \o <<b>>)[1] = a /\ (<<a>> \o <<b>>)[2] = b
    BY <2>1
  <2>4. \A i \in 1..2 : (<<a>> \o <<b>>)[i] = <<a, b>>[i]
    BY <2>2, <2>3
  <2>5. \A s, u \in Seq({a, b}) :
          Len(s) = Len(u) /\ (\A i \in 1..Len(s) : s[i] = u[i]) => s = u
    BY SeqEqual
  <2> DEFINE z == <<a>> \o <<b>>
             y == <<a, b>>
  <2>6. /\ z \in Seq({a, b}) /\ y \in Seq({a, b}) /\ Len(z) = 2 /\ Len(y) = 2
        /\ \A i \in 1..2 : z[i] = y[i]
    BY <2>2, <2>3, <2>4
  <2> HIDE DEF z, y
  <2>7. z = y
    BY <2>5, <2>6
  <2> QED
    BY <2>7 DEF z, y
<1> QED
  BY <1>1, <1>2, <1>3 DEF a, b

LEMMA EmittedSequence ==
    ASSUME NEW t, NEW hot \in BOOLEAN
    PROVE  Emitted(t, hot) \in Seq(CallRecords)
<1> DEFINE a == Frame("S6F11", hot)
           b == Frame("S5F1", hot)
<1>1. a \in CallRecords /\ b \in CallRecords
  BY FrameFacts DEF CallRecords, Kinds
<1>2. Emitted(t, hot) \in {<<a>>, <<a, b>>}
  BY EmittedFrames
<1> HIDE DEF a, b
<1>3. <<a>> \in Seq(CallRecords)
  BY <1>1
<1>4. <<a, b>> \in Seq(CallRecords)
  BY <1>1
<1> QED
  BY <1>2, <1>3, <1>4

LEMMA FaultCounts ==
    ASSUME FloorTypes, NEW n \in Nat, Fault(n)
    PROVE  faults' \in 0..MaxFaults
BY SecsFloorAssumption DEF FloorTypes, Fault

LEMMA ConnectTypes ==
    ASSUME FloorTypes, NEW t \in Tools, Connect(t)
    PROVE  FloorTypes'
<1>1. ScenarioInv'
  BY ScenarioStays DEF Connect, FloorTypes
<1>2. calls[t] \in Seq(CallRecords) /\ Connected \in CallRecords
  BY DEF FloorTypes, CallRecords
<1>3. Append(calls[t], Connected) \in Seq(CallRecords)
  BY <1>2
<1>4. calls' \in [Tools -> Seq(CallRecords)]
  BY <1>3 DEF Connect, FloorTypes
<1>5. connects' \in [Tools -> 0..MaxConnects]
  BY SecsFloorAssumption DEF Connect, FloorTypes
<1> QED
  BY <1>1, <1>4, <1>5 DEF Connect, FloorTypes

LEMMA BreakTypes ==
    ASSUME FloorTypes, NEW t \in Tools, Break(t)
    PROVE  FloorTypes'
<1>1. ScenarioInv'
  BY ScenarioStays DEF Break, FloorTypes
<1>2. PICK n \in 0..Len(calls[t]) :
          /\ calls' = [calls EXCEPT ![t] = AfterBreak(t, n)]
          /\ arrives' = [arrives EXCEPT ![t] = [k \in Kinds |-> Arriving(t, n, k)]]
  BY DEF Break
<1>3. calls' \in [Tools -> Seq(CallRecords)]
  BY <1>2, BrokenCalls DEF FloorTypes
<1>4. arrives' \in [Tools -> [Kinds -> BOOLEAN]]
  BY <1>2, ArrivingIsBoolean DEF FloorTypes
<1>5. faults' \in 0..MaxFaults
  BY FaultCounts DEF Break
<1> QED
  BY <1>1, <1>3, <1>4, <1>5 DEF Break, FloorTypes

LEMMA SimBootsTypes ==
    ASSUME FloorTypes, SimBoots
    PROVE  FloorTypes'
<1>1. ScenarioInv'
  BY ScenarioStays DEF SimBoots, FloorTypes
<1>2. PICK good \in SUBSET Tools :
          /\ Fault(Cardinality(Tools \ good))
          /\ eq' = [t \in Tools |-> IF t \in good THEN "sampling" ELSE "failed"]
  BY DEF SimBoots
<1>3. Cardinality(Tools \ good) \in Nat
  BY SecsFloorAssumption, FS_Difference, FS_CardinalityType
<1>4. faults' \in 0..MaxFaults
  BY <1>2, <1>3, FaultCounts
<1> QED
  BY <1>1, <1>2, <1>4 DEF SimBoots, FloorTypes

LEMMA SimEndsTypes ==
    ASSUME FloorTypes, SimEnds
    PROVE  FloorTypes'
<1>1. ScenarioInv'
  BY ScenarioStartsAnew DEF SimEnds
<1>2. PICK cut \in [Tools -> 0..MaxCalls] :
          /\ \A t \in Tools :
                IF link[t] THEN Survive(t, cut[t]) ELSE cut[t] = Len(calls[t])
          /\ calls' = [t \in Tools |->
                          IF link[t] THEN AfterBreak(t, cut[t]) ELSE calls[t]]
          /\ arrives' = [t \in Tools |-> [k \in Kinds |->
                            Arriving(t, cut[t], k) /\ ~over[t]]]
  BY DEF SimEnds
<1>3. calls' \in [Tools -> Seq(CallRecords)]
  BY <1>2, BrokenCalls DEF FloorTypes, Survive
<1>4. arrives' \in [Tools -> [Kinds -> BOOLEAN]]
  BY <1>2
<1>5. faults' \in 0..MaxFaults
  BY FaultCounts DEF SimEnds
<1> QED
  BY <1>1, <1>3, <1>4, <1>5 DEF SimEnds, FloorTypes

LEMMA TickTypes ==
    ASSUME FloorTypes, NEW t \in Tools, NEW due, Tick(t, due)
    PROVE  FloorTypes'
<1>1. ScenarioInv' /\ over'[t] \in BOOLEAN
  BY SecsFloorAssumption, ScenarioTicks DEF Tick, FloorTypes
<1>2. calls' \in [Tools -> Seq(CallRecords)]
  <2>1. calls[t] \in Seq(CallRecords) /\ Emitted(t, over'[t]) \in Seq(CallRecords)
    BY <1>1, EmittedSequence DEF FloorTypes
  <2>2. calls[t] \o Emitted(t, over'[t]) \in Seq(CallRecords)
    BY <2>1
  <2>3. calls' \in {calls, [calls EXCEPT ![t] = @ \o Emitted(t, over'[t])]}
    BY DEF Tick
  <2> QED
    BY <2>2, <2>3 DEF FloorTypes
<1>3. arrives' \in [Tools -> [Kinds -> BOOLEAN]]
  <2>1. \A k \in Kinds : (IF Carries(Emitted(t, over'[t]), k)
                          THEN link[t] ELSE arrives[t][k]) \in BOOLEAN
    BY DEF FloorTypes
  <2> QED
    BY <2>1 DEF Tick, FloorTypes
<1>4. latch' \in [Tools -> BOOLEAN]
  BY <1>1 DEF Tick, FloorTypes
<1> QED
  BY <1>1, <1>2, <1>3, <1>4 DEF Tick, FloorTypes

LEMMA HostBootsTypes ==
    ASSUME FloorTypes, HostBoots
    PROVE  FloorTypes'
<1>1. ScenarioInv'
  BY ScenarioStays DEF HostBoots, FloorTypes
<1>2. PICK start \in [Tools -> {"enabled", "refused", "unbuilt"}] :
          /\ Fault(Cardinality({t \in Tools : start[t] # "enabled"}))
          /\ handler' = [t \in Tools |->
                            IF start[t] = "unbuilt" THEN "none" ELSE "set"]
          /\ dialing' = [t \in Tools |-> start[t] = "enabled"]
          /\ state' = [t \in Tools |->
                 CASE start[t] = "enabled" -> "CONNECTING"
                   [] start[t] = "refused" -> "FAILED"
                   [] start[t] = "unbuilt" -> "STOPPED"]
  BY DEF HostBoots
<1>3. Cardinality({t \in Tools : start[t] # "enabled"}) \in Nat
  BY SecsFloorAssumption, FS_Subset, FS_CardinalityType
<1>4. faults' \in 0..MaxFaults
  BY <1>2, <1>3, FaultCounts
<1>5. state' \in [Tools -> States]
  BY <1>2 DEF States
<1> QED
  BY <1>1, <1>2, <1>4, <1>5 DEF HostBoots, FloorTypes

\* What a callback for a frame may do: the host is told of it, or it is dropped.
Reported(t, call) ==
    heard' = [heard EXCEPT ![t][call.kind] = call.hot] /\ UNCHANGED arrives
Dropped(t, call) ==
    /\ arrives' = [arrives EXCEPT ![t][call.kind] =
                      @ /\ Carries(Tail(calls[t]), call.kind)]
    /\ UNCHANGED heard

LEMMA CallbackReceives ==
    ASSUME NEW t \in Tools, Callback(t)
    PROVE  \/ Head(calls[t]).kind \notin Kinds /\ UNCHANGED <<heard, arrives>>
           \/ /\ Head(calls[t]).kind \in Kinds
              /\ Reported(t, Head(calls[t])) \/ Dropped(t, Head(calls[t]))
BY DEF Callback, Receive, Reported, Dropped

LEMMA CallbackTypes ==
    ASSUME FloorTypes, NEW t \in Tools, Callback(t)
    PROVE  FloorTypes'
<1>1. ScenarioInv'
  BY ScenarioStays DEF Callback, FloorTypes
<1>2. calls[t] \in Seq(CallRecords) /\ calls[t] # <<>>
  BY DEF Callback, FloorTypes
<1>3. Tail(calls[t]) \in Seq(CallRecords) /\ Head(calls[t]) \in CallRecords
  BY <1>2
<1>4. calls' \in [Tools -> Seq(CallRecords)]
  BY <1>3 DEF Callback, FloorTypes
<1>5. state' \in [Tools -> States]
  BY DEF Callback, NewState, FloorTypes, States
<1>6. /\ heard' \in [Tools -> [Kinds -> BOOLEAN]]
      /\ arrives' \in [Tools -> [Kinds -> BOOLEAN]]
  <2>1. Head(calls[t]).kind \in Kinds => Head(calls[t]).hot \in BOOLEAN
    BY <1>3, CallFacts, FrameFacts
  <2>2. heard[t] \in [Kinds -> BOOLEAN] /\ arrives[t] \in [Kinds -> BOOLEAN]
    BY DEF FloorTypes
  <2>3. CASE UNCHANGED <<heard, arrives>>
    BY <2>3 DEF FloorTypes
  <2>4. CASE Head(calls[t]).kind \in Kinds /\ Reported(t, Head(calls[t]))
    <3>1. [heard[t] EXCEPT ![Head(calls[t]).kind] = Head(calls[t]).hot]
              \in [Kinds -> BOOLEAN]
      BY <2>1, <2>2, <2>4
    <3> QED
      BY <2>4, <3>1 DEF FloorTypes, Reported
  <2>5. CASE Head(calls[t]).kind \in Kinds /\ Dropped(t, Head(calls[t]))
    <3> DEFINE k == Head(calls[t]).kind
               left == arrives[t][k] /\ Carries(Tail(calls[t]), k)
    <3>1. left \in BOOLEAN
      BY <2>2, <2>5
    <3>2. arrives' = [arrives EXCEPT ![t][k] = left] /\ UNCHANGED heard
      BY <2>5 DEF Dropped
    <3> HIDE DEF left
    <3>3. [arrives[t] EXCEPT ![k] = left] \in [Kinds -> BOOLEAN]
      BY <2>2, <2>5, <3>1
    <3> QED
      BY <3>2, <3>3 DEF FloorTypes
  <2> QED
    BY <2>3, <2>4, <2>5, CallbackReceives
<1>7. /\ setups' \in [Tools -> Seq(0..Ended)]
      /\ failed' \in [Tools -> Seq(SUBSET AllCeids)]
      /\ blind' \in [Tools -> Seq(SUBSET AllCeids)]
      /\ \A u \in Tools : Len(setups'[u]) = Len(failed'[u])
      /\ \A u \in Tools : Len(setups'[u]) = Len(blind'[u])
  <2>1. 0 \in 0..Ended
    BY SecsFloorAssumption DEF Ended
  <2>2. /\ setups[t] \in Seq(0..Ended) /\ failed[t] \in Seq(SUBSET AllCeids)
        /\ blind[t] \in Seq(SUBSET AllCeids)
        /\ Len(setups[t]) = Len(failed[t]) /\ {} \in SUBSET AllCeids
        /\ Len(setups[t]) = Len(blind[t])
    BY DEF FloorTypes
  <2>3. /\ Append(setups[t], 0) \in Seq(0..Ended)
        /\ Len(Append(setups[t], 0)) = Len(setups[t]) + 1
    BY <2>1, <2>2
  <2>8. ASSUME NEW s \in Seq(SUBSET AllCeids)
        PROVE  /\ Append(s, {}) \in Seq(SUBSET AllCeids)
               /\ Len(Append(s, {})) = Len(s) + 1
    <3>1. {} \in SUBSET AllCeids
      OBVIOUS
    <3> QED
      BY <3>1
  <2>4. /\ Append(failed[t], {}) \in Seq(SUBSET AllCeids)
        /\ Len(Append(failed[t], {})) = Len(failed[t]) + 1
    BY ONLY <2>2, <2>8
  <2>7. /\ Append(blind[t], {}) \in Seq(SUBSET AllCeids)
        /\ Len(Append(blind[t], {})) = Len(blind[t]) + 1
    BY ONLY <2>2, <2>8
  <2>5. CASE UNCHANGED <<setups, failed, blind>>
    BY <2>5 DEF FloorTypes
  <2>6. CASE /\ setups' = [setups EXCEPT ![t] = Append(@, 0)]
             /\ failed' = [failed EXCEPT ![t] = Append(@, {})]
             /\ blind' = [blind EXCEPT ![t] = Append(@, {})]
    <3>1. /\ setups' \in [Tools -> Seq(0..Ended)]
          /\ failed' \in [Tools -> Seq(SUBSET AllCeids)]
          /\ \A u \in Tools : Len(setups'[u]) = Len(failed'[u])
      BY <2>2, <2>3, <2>4, <2>6 DEF FloorTypes
    <3>2. /\ blind' \in [Tools -> Seq(SUBSET AllCeids)]
          /\ \A u \in Tools : Len(setups'[u]) = Len(blind'[u])
      BY <2>2, <2>3, <2>7, <2>6 DEF FloorTypes
    <3> QED
      BY <3>1, <3>2
  <2> QED
    BY <2>5, <2>6 DEF Callback
<1> QED
  BY <1>1, <1>4, <1>5, <1>6, <1>7 DEF Callback, FloorTypes

\* A setup of a session: what it writes at its own place of the two sequences.
LEMMA PlaceTypes ==
    ASSUME NEW t \in Tools, NEW R, NEW f \in [Tools -> Seq(R)],
           NEW n \in DOMAIN f[t], NEW new \in R
    PROVE  /\ [f EXCEPT ![t][n] = new] \in [Tools -> Seq(R)]
           /\ \A u \in Tools : Len([f EXCEPT ![t][n] = new][u]) = Len(f[u])
<1>1. f[t] \in Seq(R) /\ [f[t] EXCEPT ![n] = new] \in Seq(R)
      /\ Len([f[t] EXCEPT ![n] = new]) = Len(f[t])
  OBVIOUS
<1> QED
  BY <1>1

LEMMA BeginSetupTypes ==
    ASSUME FloorTypes, NEW t \in Tools, NEW n, BeginSetup(t, n)
    PROVE  FloorTypes'
<1>1. ScenarioInv'
  BY ScenarioStays DEF BeginSetup, FloorTypes
<1> DEFINE to == IF handler[t] = "set" THEN 1 ELSE Ended
<1>2. to \in 0..Ended
  BY SecsFloorAssumption DEF Ended
<1>3. setups' = [setups EXCEPT ![t][n] = to] /\ n \in DOMAIN setups[t]
      /\ setups \in [Tools -> Seq(0..Ended)] /\ UNCHANGED <<failed, blind>>
  BY DEF BeginSetup, FloorTypes
<1> HIDE DEF to
<1>4. setups' \in [Tools -> Seq(0..Ended)]
      /\ \A u \in Tools : Len(setups'[u]) = Len(setups[u])
  BY <1>2, <1>3, PlaceTypes
<1>5. \A u \in Tools :
          Len(setups'[u]) = Len(failed'[u]) /\ Len(setups'[u]) = Len(blind'[u])
  BY <1>3, <1>4 DEF FloorTypes
<1> QED
  BY <1>1, <1>4, <1>5 DEF BeginSetup, FloorTypes

LEMMA SubscribeTypes ==
    ASSUME FloorTypes, NEW t \in Tools, NEW n, Subscribe(t, n)
    PROVE  FloorTypes'
<1>1. ScenarioInv'
  BY ScenarioStays DEF Subscribe, FloorTypes
<1> DEFINE ceid == Ceids[setups[t][n]]
           next == setups[t][n] + 1
<1>2. /\ n \in DOMAIN setups[t] /\ setups[t][n] \in DOMAIN Ceids
      /\ setups' = [setups EXCEPT ![t][n] = next]
      /\ setups \in [Tools -> Seq(0..Ended)]
      /\ failed \in [Tools -> Seq(SUBSET AllCeids)]
      /\ blind \in [Tools -> Seq(SUBSET AllCeids)]
      /\ Len(setups[t]) = Len(failed[t]) /\ Len(setups[t]) = Len(blind[t])
  BY DEF Subscribe, FloorTypes
<1>3. ceid \in AllCeids /\ next \in 0..Ended
  <2>1. DOMAIN Ceids = 1..Len(Ceids) /\ Len(Ceids) \in Nat
    BY SecsFloorAssumption
  <2> QED
    BY <1>2, <2>1 DEF AllCeids, Ended
<1>4. \/ UNCHANGED <<programmed, failed, blind, faults>>
      \/ Accepted(t, ceid)
      \/ Unanswered(t, n, ceid)
      \/ Declined(t, n, ceid)
  BY DEF Subscribe
<1> HIDE DEF ceid, next
<1>5. setups' \in [Tools -> Seq(0..Ended)]
      /\ \A u \in Tools : Len(setups'[u]) = Len(setups[u])
  BY <1>2, <1>3, PlaceTypes
<1>6. programmed' \in [Tools -> SUBSET AllCeids]
  <2>1. programmed' \in {programmed, [programmed EXCEPT ![t] = @ \cup {ceid}]}
    BY <1>4 DEF Accepted, Unanswered, Declined
  <2>2. programmed \in [Tools -> SUBSET AllCeids]
    BY DEF FloorTypes
  <2> QED
    BY <1>3, <2>1, <2>2
<1>7. faults' \in 0..MaxFaults
  <2>1. \/ UNCHANGED faults
        \/ Fault(1)
    BY <1>4 DEF Accepted, Unanswered, Declined
  <2> QED
    BY <2>1, FaultCounts DEF FloorTypes
<1>8. \/ UNCHANGED <<failed, blind>>
      \/ Fails(t, n, ceid)
      \/ Passes(t, n, ceid)
  BY <1>4 DEF Accepted, Unanswered, Declined
<1>9. n \in DOMAIN failed[t] /\ n \in DOMAIN blind[t]
  <2>1. /\ setups[t] \in Seq(0..Ended)
        /\ failed[t] \in Seq(SUBSET AllCeids) /\ blind[t] \in Seq(SUBSET AllCeids)
        /\ Len(setups[t]) = Len(failed[t]) /\ Len(setups[t]) = Len(blind[t])
    BY <1>2
  <2>2. DOMAIN setups[t] = DOMAIN failed[t]
    BY ONLY <2>1, SameDomain
  <2>3. DOMAIN setups[t] = DOMAIN blind[t]
    BY ONLY <2>1, SameDomain
  <2> QED
    BY <1>2, <2>2, <2>3
<1>10. failed' \in [Tools -> Seq(SUBSET AllCeids)]
       /\ \A u \in Tools : Len(failed'[u]) = Len(failed[u])
  <2>1. CASE UNCHANGED failed
    BY <1>2, <2>1
  <2>2. CASE Fails(t, n, ceid)
    <3>1. failed[t][n] \cup {ceid} \in SUBSET AllCeids
      <4>1. failed[t][n] \in SUBSET AllCeids
        BY <1>2, <1>9, ElementOf
      <4> QED
        BY <1>3, <4>1
    <3>2. failed' = [failed EXCEPT ![t][n] = failed[t][n] \cup {ceid}]
      BY <2>2 DEF Fails
    <3> QED
      BY <1>2, <1>9, <3>1, <3>2, PlaceTypes
  <2> QED
    BY <1>8, <2>1, <2>2 DEF Passes
<1>11. blind' \in [Tools -> Seq(SUBSET AllCeids)]
       /\ \A u \in Tools : Len(blind'[u]) = Len(blind[u])
  <2>1. CASE UNCHANGED blind
    BY <1>2, <2>1
  <2>2. CASE Passes(t, n, ceid)
    <3>1. blind[t][n] \cup {ceid} \in SUBSET AllCeids
      <4>1. blind[t][n] \in SUBSET AllCeids
        BY <1>2, <1>9, ElementOf
      <4> QED
        BY <1>3, <4>1
    <3>2. blind' = [blind EXCEPT ![t][n] = blind[t][n] \cup {ceid}]
      BY <2>2 DEF Passes
    <3> QED
      BY <1>2, <1>9, <3>1, <3>2, PlaceTypes
  <2> QED
    BY <1>8, <2>1, <2>2 DEF Fails
<1>12. \A u \in Tools :
          Len(setups'[u]) = Len(failed'[u]) /\ Len(setups'[u]) = Len(blind'[u])
  BY <1>5, <1>10, <1>11 DEF FloorTypes
<1> QED
  BY <1>1, <1>5, <1>6, <1>7, <1>10, <1>11, <1>12 DEF Subscribe, FloorTypes

LEMMA HostStopsTypes ==
    ASSUME FloorTypes, HostStops
    PROVE  FloorTypes'
<1>1. ScenarioInv'
  BY ScenarioStays DEF HostStops, FloorTypes
<1>2. handler' \in [Tools -> {"none", "set", "disabling"}]
  BY DEF HostStops, FloorTypes
<1> QED
  BY <1>1, <1>2 DEF HostStops, FloorTypes

LEMMA DisabledTypes ==
    ASSUME FloorTypes, NEW t \in Tools, Disabled(t)
    PROVE  FloorTypes'
<1>1. ScenarioInv'
  BY ScenarioStays DEF Disabled, FloorTypes
<1>2. \/ UNCHANGED <<calls, arrives>>
      \/ \E n \in 0..Len(calls[t]) :
            /\ calls' = [calls EXCEPT ![t] = AfterBreak(t, n)]
            /\ arrives' = [arrives EXCEPT ![t] = [k \in Kinds |-> Arriving(t, n, k)]]
  BY DEF Disabled
<1>3. calls' \in [Tools -> Seq(CallRecords)]
  <2>1. CASE UNCHANGED calls
    BY <2>1 DEF FloorTypes
  <2>2. ASSUME NEW n \in 0..Len(calls[t]),
               calls' = [calls EXCEPT ![t] = AfterBreak(t, n)]
        PROVE  calls' \in [Tools -> Seq(CallRecords)]
    BY <2>2, BrokenCalls DEF FloorTypes
  <2> QED
    BY <1>2, <2>1, <2>2
<1>4. arrives' \in [Tools -> [Kinds -> BOOLEAN]]
  <2>1. CASE UNCHANGED arrives
    BY <2>1 DEF FloorTypes
  <2>2. ASSUME NEW n,
               arrives' = [arrives EXCEPT ![t] = [k \in Kinds |-> Arriving(t, n, k)]]
        PROVE  arrives' \in [Tools -> [Kinds -> BOOLEAN]]
    BY <2>2, ArrivingIsBoolean DEF FloorTypes
  <2> QED
    BY <1>2, <2>1, <2>2
<1>5. /\ handler' \in [Tools -> {"none", "set", "disabling"}]
      /\ dialing' \in [Tools -> BOOLEAN]
      /\ state' \in [Tools -> States]
      /\ link' \in [Tools -> BOOLEAN]
  BY DEF Disabled, FloorTypes, States
<1> QED
  BY <1>1, <1>3, <1>4, <1>5 DEF Disabled, FloorTypes

LEMMA HostEndsTypes ==
    ASSUME FloorTypes, HostEnds
    PROVE  FloorTypes'
<1>1. ScenarioInv'
  BY ScenarioStays DEF HostEnds, FloorTypes
<1>2. faults' \in 0..MaxFaults
  <2>1. \/ UNCHANGED faults
        \/ Fault(1)
    BY DEF HostEnds
  <2> QED
    BY <2>1, FaultCounts DEF FloorTypes
<1>3. \A R : <<>> \in Seq(R)
  OBVIOUS
<1>4. /\ calls' \in [Tools -> Seq(CallRecords)]
      /\ setups' \in [Tools -> Seq(0..Ended)]
      /\ failed' \in [Tools -> Seq(SUBSET AllCeids)]
      /\ \A t \in Tools : Len(setups'[t]) = Len(failed'[t])
      /\ blind' \in [Tools -> Seq(SUBSET AllCeids)]
      /\ \A t \in Tools : Len(setups'[t]) = Len(blind'[t])
  BY <1>3 DEF HostEnds
<1>5. /\ heard' \in [Tools -> [Kinds -> BOOLEAN]]
      /\ arrives' \in [Tools -> [Kinds -> BOOLEAN]]
  BY DEF HostEnds
<1>6. /\ handler' \in [Tools -> {"none", "set", "disabling"}]
      /\ dialing' \in [Tools -> BOOLEAN]
      /\ state' \in [Tools -> States]
      /\ link' \in [Tools -> BOOLEAN]
      /\ host' = "off"
      /\ UNCHANGED <<equipmentVars, connects>>
  BY DEF HostEnds, States
<1> QED
  BY <1>1, <1>2, <1>4, <1>5, <1>6 DEF FloorTypes

\* The kinds of steps: what a proof about Next goes through.
LEMMA NextCases ==
    ASSUME [Next]_vars
    PROVE  \/ SimBoots \/ SimEnds \/ HostBoots \/ HostStops \/ HostEnds
           \/ \E t \in Tools :
                 \/ \E due \in BOOLEAN : Tick(t, due)
                 \/ Connect(t) \/ Break(t) \/ Callback(t) \/ Disabled(t)
                 \/ \E n \in 1..MaxConnects : BeginSetup(t, n) \/ Subscribe(t, n)
           \/ UNCHANGED vars
BY Zenon DEF Next, Ticks

LEMMA TypesStep ==
    ASSUME FloorTypes, [Next]_vars
    PROVE  FloorTypes'
<1>1. CASE UNCHANGED vars
  <2>1. ScenarioInv'
    BY <1>1, ScenarioStays DEF FloorTypes, vars
  <2> QED
    BY <1>1, <2>1 DEF FloorTypes, vars
<1>2. CASE \E t \in Tools :
              \/ \E due \in BOOLEAN : Tick(t, due)
              \/ Connect(t) \/ Break(t) \/ Callback(t) \/ Disabled(t)
              \/ \E n \in 1..MaxConnects : BeginSetup(t, n) \/ Subscribe(t, n)
  BY <1>2, TickTypes, ConnectTypes, BreakTypes, CallbackTypes, DisabledTypes,
     BeginSetupTypes, SubscribeTypes, Zenon
<1> QED
  BY <1>1, <1>2, NextCases, SimBootsTypes, SimEndsTypes, HostBootsTypes,
     HostStopsTypes, HostEndsTypes

THEOREM FloorTypesAlways == Spec => []FloorTypes
BY FloorStarts, TypesStep, PTL DEF Spec

\* Every variable has its type, for any floor: no session state but those of
\* SessionState, no setup past the last CEID (session.py:56, 358).
THEOREM TypeCorrect == Spec => []TypeOK
BY FloorTypesAlways, TypesImplyTypeOK, PTL

\* One machine at a time has a story, and it is the one whose sensors drift to
\* their peak, whatever order machines are sampled in (scenario.py:255, 289).
THEOREM OneStory == Spec => []OneStoryAtATime
<1>1. FloorTypes => OneStoryAtATime
  BY DEF FloorTypes, ScenarioInv
<1> QED
  BY <1>1, FloorTypesAlways, PTL

-----------------------------------------------------------------------------
(* What a session shows of its connection: the last call for the link tells *)
(* what the link is, and without one due the state tells it.                *)

LinkCalls == {Connected, Disconnected}
Latest(up) == IF up THEN Connected ELSE Disconnected

Shown(t) ==
    \/ /\ NoneOf(calls[t], LinkCalls)
       /\ state[t] = "SELECTED" <=> link[t]
    \/ LastIs(calls[t], LinkCalls, Latest(link[t]))

\* A host that is down has neither connections nor calls.
Silent(t) == ~link[t] /\ ~dialing[t] /\ calls[t] = <<>>

LinkInv ==
    /\ \A t \in Tools : Shown(t)
    /\ host = "off" => \A t \in Tools : Silent(t)

FloorInv == FloorTypes /\ LinkInv

\* A break: the loss is the last call for the link.
LEMMA LossIsLast ==
    ASSUME FloorTypes, NEW t \in Tools, NEW n \in 0..Len(calls[t])
    PROVE  LastIs(AfterBreak(t, n), LinkCalls, Disconnected)
<1>1. calls[t] \in Seq(CallRecords) /\ Disconnected \in CallRecords
  BY DEF FloorTypes, CallRecords
<1>2. SubSeq(calls[t], 1, n) \in Seq(CallRecords)
  BY <1>1
<1> QED
  BY <1>1, <1>2, LastAfterAppend DEF AfterBreak

LEMMA ShownStays ==
    ASSUME NEW t, Shown(t),
           calls'[t] = calls[t], link'[t] = link[t], state'[t] = state[t]
    PROVE  Shown(t)'
<1>1. NoneOf(calls[t], LinkCalls) => NoneOf(calls'[t], LinkCalls)
  OBVIOUS
<1>2. LastIs(calls[t], LinkCalls, Latest(link[t])) =>
          LastIs(calls'[t], LinkCalls, Latest(link'[t]))
  OBVIOUS
<1> QED
  BY <1>1, <1>2 DEF Shown

\* A frame leaves Shown alone.
LEMMA FrameOverLink ==
    ASSUME NEW s \in Seq(CallRecords), NEW f \in Frames, NEW e
    PROVE  /\ Append(s, f) \in Seq(CallRecords)
           /\ NoneOf(s, LinkCalls) => NoneOf(Append(s, f), LinkCalls)
           /\ LastIs(s, LinkCalls, e) => LastIs(Append(s, f), LinkCalls, e)
<1>1. f \in CallRecords /\ f \notin LinkCalls
  BY CallFacts DEF CallRecords, LinkCalls
<1> QED
  BY <1>1, LastAfterAppend

\* What a tick appends, one frame after the other.
LEMMA EmittedOneByOne ==
    ASSUME NEW s \in Seq(CallRecords), NEW t, NEW hot \in BOOLEAN
    PROVE  /\ hot = latch[t] => s \o Emitted(t, hot) = Append(s, Frame("S6F11", hot))
           /\ hot # latch[t] => s \o Emitted(t, hot) =
                 Append(Append(s, Frame("S6F11", hot)), Frame("S5F1", hot))
<1> DEFINE a == Frame("S6F11", hot)
           b == Frame("S5F1", hot)
<1>1. a \in CallRecords /\ b \in CallRecords
  BY FrameFacts DEF CallRecords, Kinds
<1>2. /\ hot = latch[t] => Emitted(t, hot) = <<a>>
      /\ hot # latch[t] => Emitted(t, hot) = <<a, b>>
  BY EmittedFrames
<1> HIDE DEF a, b
<1>3. s \o <<a>> = Append(s, a)
  BY <1>1
<1>4. s \o <<a, b>> = Append(Append(s, a), b)
  BY <1>1
<1> QED
  BY <1>2, <1>3, <1>4 DEF a, b

LEMMA LinkStarts ==
    ASSUME Init
    PROVE  LinkInv
<1>1. ASSUME NEW t \in Tools PROVE Shown(t) /\ Silent(t)
  <2>1. calls[t] = <<>> /\ ~link[t] /\ state[t] = "STOPPED" /\ ~dialing[t]
    BY DEF Init
  <2>2. NoneOf(calls[t], LinkCalls)
    BY <2>1 DEF NoneOf
  <2> QED
    BY <2>1, <2>2 DEF Shown, Silent
<1> QED
  BY <1>1 DEF LinkInv

LEMMA ConnectShows ==
    ASSUME FloorInv, NEW t \in Tools, Connect(t)
    PROVE  LinkInv'
<1>1. host' # "off"
  BY DEF Connect, FloorInv, LinkInv, Silent
<1>2. ASSUME NEW u \in Tools PROVE Shown(u)'
  <2>1. CASE u # t
    BY <2>1, ShownStays DEF Connect, FloorInv, LinkInv, FloorTypes
  <2>2. CASE u = t
    <3>1. calls'[t] = Append(calls[t], Connected) /\ link'[t] = TRUE
      BY DEF Connect, FloorInv, FloorTypes
    <3>2. calls[t] \in Seq(CallRecords) /\ Connected \in CallRecords
      BY DEF FloorInv, FloorTypes, CallRecords
    <3>3. LastIs(calls'[t], LinkCalls, Connected)
      BY <3>1, <3>2, LastAfterAppend
    <3> QED
      BY <2>2, <3>1, <3>3 DEF Shown, Latest
  <2> QED
    BY <2>1, <2>2
<1> QED
  BY <1>1, <1>2 DEF LinkInv

LEMMA BreakShows ==
    ASSUME FloorInv, NEW t \in Tools, Break(t)
    PROVE  LinkInv'
<1>1. host' # "off"
  BY DEF Break, FloorInv, LinkInv, Silent
<1>2. ASSUME NEW u \in Tools PROVE Shown(u)'
  <2>1. CASE u # t
    BY <2>1, ShownStays DEF Break, FloorInv, LinkInv, FloorTypes
  <2>2. CASE u = t
    <3>1. PICK n \in 0..Len(calls[t]) : calls'[t] = AfterBreak(t, n)
      BY DEF Break, FloorInv, FloorTypes
    <3>2. ~link'[t]
      BY DEF Break, FloorInv, FloorTypes
    <3>3. LastIs(calls'[t], LinkCalls, Disconnected)
      BY <3>1, LossIsLast DEF FloorInv
    <3> QED
      BY <2>2, <3>2, <3>3 DEF Shown, Latest
  <2> QED
    BY <2>1, <2>2
<1> QED
  BY <1>1, <1>2 DEF LinkInv

LEMMA SimEndsShows ==
    ASSUME FloorInv, SimEnds
    PROVE  LinkInv'
<1>1. PICK cut \in [Tools -> 0..MaxCalls] :
          /\ \A t \in Tools :
                IF link[t] THEN Survive(t, cut[t]) ELSE cut[t] = Len(calls[t])
          /\ calls' = [t \in Tools |->
                          IF link[t] THEN AfterBreak(t, cut[t]) ELSE calls[t]]
  BY DEF SimEnds
<1>2. ASSUME NEW t \in Tools PROVE Shown(t)' /\ (Silent(t) => Silent(t)')
  <2>1. link'[t] = FALSE /\ UNCHANGED <<state, dialing>>
    BY DEF SimEnds
  <2>2. CASE link[t]
    <3>1. calls'[t] = AfterBreak(t, cut[t]) /\ cut[t] \in 0..Len(calls[t])
      BY <1>1, <2>2 DEF Survive
    <3>2. LastIs(calls'[t], LinkCalls, Disconnected)
      BY <3>1, LossIsLast DEF FloorInv
    <3> QED
      BY <2>1, <2>2, <3>2 DEF Shown, Latest, Silent
  <2>3. CASE ~link[t]
    <3>1. calls'[t] = calls[t]
      BY <1>1, <2>3
    <3>2. link[t] = FALSE /\ Shown(t)
      BY <2>3 DEF FloorInv, LinkInv, FloorTypes
    <3> QED
      BY <2>1, <3>1, <3>2, ShownStays DEF Silent
  <2> QED
    BY <2>2, <2>3
<1>3. host' = host
  BY DEF SimEnds
<1> QED
  BY <1>2, <1>3 DEF LinkInv, FloorInv

LEMMA TickShows ==
    ASSUME FloorInv, NEW t \in Tools, NEW due, Tick(t, due)
    PROVE  LinkInv'
<1>1. over'[t] \in BOOLEAN
  BY SecsFloorAssumption, ScenarioTicks DEF Tick, FloorInv, FloorTypes
<1> DEFINE hot == over'[t]
<1>2. /\ UNCHANGED <<link, host, state, dialing>>
      /\ calls' = IF link[t] THEN [calls EXCEPT ![t] = @ \o Emitted(t, hot)] ELSE calls
  BY DEF Tick
<1> HIDE DEF hot
<1>3. host = "off" => ~link[t]
  BY DEF FloorInv, LinkInv, Silent
<1>4. \A u \in Tools : u # t \/ ~link[t] => calls'[u] = calls[u]
  BY <1>2 DEF FloorInv, FloorTypes
<1>5. ASSUME NEW u \in Tools PROVE Shown(u)'
  <2>1. CASE u # t \/ ~link[t]
    BY <1>2, <1>4, <2>1, ShownStays DEF FloorInv, LinkInv
  <2>2. CASE u = t /\ link[t]
    <3>1. /\ calls[t] \in Seq(CallRecords)
          /\ Frame("S6F11", hot) \in Frames /\ Frame("S5F1", hot) \in Frames
      BY <1>1, FrameFacts DEF hot, FloorInv, FloorTypes, Kinds
    <3>2. calls'[t] = calls[t] \o Emitted(t, hot)
      BY <1>2, <2>2 DEF FloorInv, FloorTypes
    <3>3. Shown(t) /\ link'[t] = link[t] /\ state'[t] = state[t]
      BY <1>2 DEF FloorInv, LinkInv
    <3> DEFINE one == Append(calls[t], Frame("S6F11", hot))
               both == Append(one, Frame("S5F1", hot))
    <3>4. calls'[t] \in {one, both}
      BY <1>1, <3>1, <3>2, EmittedOneByOne DEF hot
    <3>5. /\ one \in Seq(CallRecords)
          /\ NoneOf(calls[t], LinkCalls) => NoneOf(one, LinkCalls)
          /\ LastIs(calls[t], LinkCalls, Latest(link[t])) =>
                 LastIs(one, LinkCalls, Latest(link[t]))
      BY <3>1, FrameOverLink
    <3> HIDE DEF one
    <3>6. /\ NoneOf(one, LinkCalls) => NoneOf(both, LinkCalls)
          /\ LastIs(one, LinkCalls, Latest(link[t])) =>
                 LastIs(both, LinkCalls, Latest(link[t]))
      BY <3>1, <3>5, FrameOverLink
    <3> HIDE DEF both
    <3>7. /\ NoneOf(calls[t], LinkCalls) => NoneOf(calls'[t], LinkCalls)
          /\ LastIs(calls[t], LinkCalls, Latest(link[t])) =>
                 LastIs(calls'[t], LinkCalls, Latest(link'[t]))
      BY <3>3, <3>4, <3>5, <3>6
    <3> QED
      BY <2>2, <3>3, <3>7 DEF Shown
  <2> QED
    BY <2>1, <2>2
<1>6. host' = "off" => \A u \in Tools : Silent(u)'
  BY <1>2, <1>3 DEF Silent, FloorInv, LinkInv
<1> QED
  BY <1>5, <1>6 DEF LinkInv

LEMMA CallbackShows ==
    ASSUME FloorInv, NEW t \in Tools, Callback(t)
    PROVE  LinkInv'
<1>1. host' # "off" /\ UNCHANGED link
  BY DEF Callback
<1>2. ASSUME NEW u \in Tools PROVE Shown(u)'
  <2>1. CASE u # t
    BY <2>1, ShownStays DEF Callback, FloorInv, LinkInv, FloorTypes
  <2>2. CASE u = t
    <3>1. /\ calls[t] \in Seq(CallRecords) /\ calls[t] # <<>>
          /\ calls'[t] = Tail(calls[t])
          /\ state'[t] = NewState(t, Head(calls[t]))
      BY DEF Callback, FloorInv, FloorTypes
    <3>2. Shown(t)
      BY DEF FloorInv, LinkInv
    <3>6. /\ NoneOf(calls[t], LinkCalls) =>
                 Head(calls[t]) \notin LinkCalls /\ NoneOf(Tail(calls[t]), LinkCalls)
          /\ LastIs(calls[t], LinkCalls, Latest(link[t])) =>
                 \/ LastIs(Tail(calls[t]), LinkCalls, Latest(link[t]))
                 \/ /\ Head(calls[t]) = Latest(link[t])
                    /\ NoneOf(Tail(calls[t]), LinkCalls)
      BY <3>1, LastAfterTail
    <3>3. CASE /\ NoneOf(calls[t], LinkCalls)
               /\ state[t] = "SELECTED" <=> link[t]
      <4>1. Head(calls[t]) \notin LinkCalls /\ NoneOf(calls'[t], LinkCalls)
        BY <3>1, <3>3, <3>6
      <4>2. state'[t] = state[t]
        BY <3>1, <4>1 DEF NewState, LinkCalls
      <4> QED
        <5>1. link'[t] = link[t]
          BY <1>1
        <5>2. state'[t] = "SELECTED" <=> link'[t]
          BY <3>3, <4>2, <5>1
        <5> QED
          BY <2>2, <4>1, <5>2 DEF Shown
    <3>4. CASE LastIs(calls'[t], LinkCalls, Latest(link[t]))
      BY <1>1, <2>2, <3>4 DEF Shown
    <3>5. CASE Head(calls[t]) = Latest(link[t]) /\ NoneOf(calls'[t], LinkCalls)
      <4>1. state'[t] = "SELECTED" <=> link[t]
        BY <3>1, <3>5, CallFacts DEF NewState, Latest
      <4> QED
        BY <1>1, <2>2, <3>5, <4>1 DEF Shown
    <3> QED
      BY <3>1, <3>2, <3>3, <3>4, <3>5, <3>6 DEF Shown
  <2> QED
    BY <2>1, <2>2
<1> QED
  BY <1>1, <1>2 DEF LinkInv

LEMMA DisabledShows ==
    ASSUME FloorInv, NEW t \in Tools, Disabled(t)
    PROVE  LinkInv'
<1>1. ASSUME NEW u \in Tools PROVE Shown(u)' /\ (Silent(u) => Silent(u)')
  <2>1. CASE u # t
    <3>1. calls'[u] = calls[u] /\ link'[u] = link[u] /\ state'[u] = state[u]
          /\ dialing'[u] = dialing[u]
      BY <2>1 DEF Disabled, FloorInv, FloorTypes
    <3> QED
      BY <3>1, ShownStays DEF FloorInv, LinkInv, Silent
  <2>2. CASE u = t
    <3>1. ~link'[t] /\ ~dialing'[t] /\ state'[t] = "STOPPED" /\ link'[t] = FALSE
      BY DEF Disabled, FloorInv, FloorTypes
    <3>2. CASE link[t]
      <4>1. PICK n \in 0..Len(calls[t]) : calls'[t] = AfterBreak(t, n)
        BY <3>2 DEF Disabled, FloorInv, FloorTypes
      <4>2. LastIs(calls'[t], LinkCalls, Disconnected)
        BY <4>1, LossIsLast DEF FloorInv
      <4> QED
        BY <2>2, <3>1, <3>2, <4>2 DEF Shown, Latest, Silent
    <3>3. CASE ~link[t]
      <4>1. calls'[t] = calls[t]
        BY <3>3 DEF Disabled
      <4>2. Shown(t)
        BY DEF FloorInv, LinkInv
      <4>3. NoneOf(calls[t], LinkCalls) => NoneOf(calls'[t], LinkCalls)
        BY <4>1
      <4>4. LastIs(calls[t], LinkCalls, Latest(link[t])) =>
                LastIs(calls'[t], LinkCalls, Latest(link'[t]))
        BY <3>1, <3>3, <4>1 DEF Latest
      <4> QED
        BY <2>2, <3>1, <3>3, <4>1, <4>2, <4>3, <4>4 DEF Shown, Silent
    <3> QED
      BY <3>2, <3>3
  <2> QED
    BY <2>1, <2>2
<1>2. host' = host
  BY DEF Disabled
<1> QED
  BY <1>1, <1>2 DEF LinkInv, FloorInv

LEMMA HostBootsShows ==
    ASSUME FloorInv, HostBoots
    PROVE  LinkInv'
<1>1. ASSUME NEW t \in Tools PROVE Shown(t)'
  <2>1. ~link[t] /\ calls[t] = <<>> /\ UNCHANGED <<link, calls>>
    BY DEF HostBoots, FloorInv, LinkInv, Silent
  <2>2. state'[t] # "SELECTED"
    <3>1. PICK start \in [Tools -> {"enabled", "refused", "unbuilt"}] :
              state' = [u \in Tools |->
                 CASE start[u] = "enabled" -> "CONNECTING"
                   [] start[u] = "refused" -> "FAILED"
                   [] start[u] = "unbuilt" -> "STOPPED"]
      BY DEF HostBoots
    <3>2. start[t] \in {"enabled", "refused", "unbuilt"}
      OBVIOUS
    <3> QED
      BY <3>1, <3>2
  <2>3. NoneOf(calls'[t], LinkCalls)
    BY <2>1 DEF NoneOf
  <2> QED
    BY <2>1, <2>2, <2>3 DEF Shown
<1> QED
  BY <1>1 DEF LinkInv, HostBoots

LEMMA HostEndsShows ==
    ASSUME HostEnds
    PROVE  LinkInv'
<1>1. ASSUME NEW t \in Tools PROVE Shown(t)' /\ Silent(t)'
  <2>1. /\ ~link'[t] /\ ~dialing'[t] /\ calls'[t] = <<>> /\ state'[t] = "STOPPED"
    BY DEF HostEnds
  <2>2. NoneOf(calls'[t], LinkCalls)
    BY <2>1 DEF NoneOf
  <2> QED
    BY <2>1, <2>2 DEF Shown, Silent
<1> QED
  BY <1>1 DEF LinkInv

LEMMA FloorInvStep ==
    ASSUME FloorInv, [Next]_vars
    PROVE  FloorInv'
<1>1. FloorTypes'
  BY TypesStep DEF FloorInv
<1>2. LinkInv'
  <2>1. ASSUME UNCHANGED <<calls, link, state>>, host' # "off" \/ UNCHANGED <<host, dialing>>
        PROVE  LinkInv'
    BY <2>1, ShownStays DEF FloorInv, LinkInv, Silent
  <2>2. CASE UNCHANGED vars
    BY <2>1, <2>2 DEF vars
  <2>3. CASE SimBoots
    BY <2>1, <2>3 DEF SimBoots
  <2>4. CASE HostStops
    BY <2>1, <2>4 DEF HostStops
  <2>5. ASSUME NEW t \in Tools, NEW n, BeginSetup(t, n) \/ Subscribe(t, n)
        PROVE  LinkInv'
    BY <2>1, <2>5 DEF BeginSetup, Subscribe
  <2>6. CASE \E t \in Tools :
                \/ \E due \in BOOLEAN : Tick(t, due)
                \/ Connect(t) \/ Break(t) \/ Callback(t) \/ Disabled(t)
                \/ \E n \in 1..MaxConnects : BeginSetup(t, n) \/ Subscribe(t, n)
    BY <2>5, <2>6, TickShows, ConnectShows, BreakShows, CallbackShows,
       DisabledShows, Zenon
  <2> QED
    BY <2>2, <2>3, <2>4, <2>6, NextCases, SimEndsShows, HostBootsShows,
       HostEndsShows
<1> QED
  BY <1>1, <1>2 DEF FloorInv

THEOREM FloorInvAlways == Spec => []FloorInv
<1>1. Init => FloorInv
  BY FloorStarts, LinkStarts DEF FloorInv
<1> QED
  BY <1>1, FloorInvStep, PTL DEF Spec

\* A session that shows SELECTED is connected or about to be told of the loss,
\* and with no call due the two are the same, whatever connections broke and
\* however late their calls came (session.py:140, 340).
THEOREM StateIsTrue == Spec => []SessionStateIsTrue
<1>1. ASSUME FloorInv PROVE SessionStateIsTrue
  <2>1. ASSUME NEW t \in Tools
        PROVE  /\ state[t] = "SELECTED" => link[t] \/ Disconnected \in
                      {calls[t][i] : i \in DOMAIN calls[t]}
               /\ calls[t] = <<>> => (state[t] = "SELECTED" <=> link[t])
    <3>1. Shown(t)
      BY <1>1 DEF FloorInv, LinkInv
    <3>2. ~link[t] /\ LastIs(calls[t], LinkCalls, Latest(link[t])) =>
              Disconnected \in {calls[t][i] : i \in DOMAIN calls[t]}
      BY DEF LastIs, Latest
    <3>3. calls[t] = <<>> => ~LastIs(calls[t], LinkCalls, Latest(link[t]))
      BY DEF LastIs
    <3> QED
      BY <3>1, <3>2, <3>3 DEF Shown
  <2>2. (Ready /\ ~TailerToo /\ \A t \in Tools : calls[t] = <<>>) =>
            \A t \in Tools : link[t]
    BY <2>1 DEF Ready
  <2> QED
    BY <2>1, <2>2 DEF SessionStateIsTrue
<1> QED
  BY <1>1, FloorInvAlways, PTL

-----------------------------------------------------------------------------
(* What the host hears of a tool: while the last frame of a kind arrives, it *)
(* is due and says what is true, or it has been heard.  An alarm report is   *)
(* sent when the latch moves, so the latch must be what the sensor reads.    *)

Reports(k) == [kind : {k}, hot : BOOLEAN]

ToldBy(cs, said, k, now) ==
    \/ NoneOf(cs, Reports(k)) /\ said = now
    \/ LastIs(cs, Reports(k), Frame(k, now))

Told(t, k) == arrives[t][k] => ToldBy(calls[t], heard[t][k], k, over[t])

HeardInv ==
    \A t \in Tools : latch[t] = over[t] /\ \A k \in Kinds : Told(t, k)

HearsInv == FloorInv /\ HeardInv

LEMMA ReportFacts ==
    ASSUME NEW k \in Kinds
    PROVE  /\ Reports(k) \subseteq Frames
           /\ \A now \in BOOLEAN : Frame(k, now) \in Reports(k)
           /\ \A c \in CallRecords : c.kind = k <=> c \in Reports(k)
           /\ Connected \notin Reports(k) /\ Disconnected \notin Reports(k)
<1>1. Reports(k) \subseteq Frames
  BY DEF Reports, Frames
<1>2. \A now \in BOOLEAN : Frame(k, now) \in Reports(k)
  BY DEF Reports, Frame
<1>3. \A c \in Reports(k) : c.kind = k
  BY DEF Reports
<1>4. \A c \in CallRecords : c.kind = k => c \in Reports(k)
  <2> SUFFICES ASSUME NEW c \in CallRecords, c.kind = k PROVE c \in Reports(k)
    OBVIOUS
  <2>1. c \in Frames
    BY CallFacts
  <2> QED
    BY <2>1 DEF Frames, Reports
<1>5. Connected \notin Reports(k) /\ Disconnected \notin Reports(k)
  BY <1>1, CallFacts
<1> QED
  BY <1>1, <1>2, <1>3, <1>4, <1>5

LEMMA CarriesNone ==
    ASSUME NEW cs \in Seq(CallRecords), NEW k \in Kinds
    PROVE  ~Carries(cs, k) <=> NoneOf(cs, Reports(k))
<1>1. \A i \in DOMAIN cs : cs[i] \in CallRecords
  BY ElementOf
<1>2. \A i \in DOMAIN cs : cs[i].kind = k <=> cs[i] \in Reports(k)
  BY <1>1, ReportFacts
<1> QED
  BY <1>2 DEF Carries, NoneOf

\* A call of another kind changes nothing.
LEMMA ToldPastOther ==
    ASSUME NEW cs \in Seq(CallRecords), NEW c \in CallRecords, NEW k \in Kinds,
           c \notin Reports(k), NEW said, NEW now, ToldBy(cs, said, k, now)
    PROVE  ToldBy(Append(cs, c), said, k, now)
<1>1. /\ NoneOf(cs, Reports(k)) => NoneOf(Append(cs, c), Reports(k))
      /\ LastIs(cs, Reports(k), Frame(k, now)) =>
             LastIs(Append(cs, c), Reports(k), Frame(k, now))
  BY LastAfterAppend
<1> QED
  BY <1>1 DEF ToldBy

LEMMA ToldByFrame ==
    ASSUME NEW cs \in Seq(CallRecords), NEW k \in Kinds, NEW said,
           NEW now \in BOOLEAN
    PROVE  ToldBy(Append(cs, Frame(k, now)), said, k, now)
<1>1. Frame(k, now) \in CallRecords
  BY FrameFacts DEF CallRecords
<1>2. LastIs(Append(cs, Frame(k, now)), Reports(k), Frame(k, now))
  BY <1>1, LastAfterAppend
<1> QED
  BY <1>2 DEF ToldBy

\* A break that takes no report of the kind.
LEMMA ToldAfterBreak ==
    ASSUME FloorTypes, NEW t \in Tools, NEW n \in 0..Len(calls[t]),
           NEW k \in Kinds, Arriving(t, n, k), Told(t, k)
    PROVE  ToldBy(AfterBreak(t, n), heard[t][k], k, over[t])
<1> DEFINE cs == calls[t]
           cut == SubSeq(cs, 1, n)
           rest == SubSeq(cs, n + 1, Len(cs))
<1>1. cs \in Seq(CallRecords) /\ n \in Nat /\ Len(cs) \in Nat /\ n <= Len(cs)
  BY DEF FloorTypes
<1>2. over[t] \in BOOLEAN
  BY SecsFloorAssumption DEF FloorTypes, ScenarioInv, ScenarioTypeOK
<1>3. ~Carries(rest, k) /\ arrives[t][k]
  BY DEF Arriving
<1>4. \A i \in (n + 1)..Len(cs) : cs[i] \notin Reports(k)
  <2> SUFFICES ASSUME NEW i \in (n + 1)..Len(cs) PROVE cs[i] \notin Reports(k)
    OBVIOUS
  <2>1. i - n \in DOMAIN rest /\ rest[i - n] = cs[i]
    BY <1>1
  <2>2. cs[i].kind # k
    BY <1>3, <2>1 DEF Carries
  <2>3. cs[i] \in CallRecords
    BY <1>1, ElementOf
  <2> QED
    BY <2>2, <2>3, ReportFacts
<1>5. Frame(k, over[t]) \in Reports(k)
  BY <1>2, ReportFacts
<1>6. ToldBy(cs, heard[t][k], k, over[t])
  BY <1>3 DEF Told
<1> HIDE DEF cs, rest
<1>7. /\ cut \in Seq(CallRecords)
      /\ LastIs(cs, Reports(k), Frame(k, over[t])) =>
             LastIs(cut, Reports(k), Frame(k, over[t]))
      /\ NoneOf(cs, Reports(k)) => NoneOf(cut, Reports(k))
  <2>1. n \in 0..Len(cs)
    BY <1>1
  <2> QED
    BY <1>1, <1>4, <1>5, <2>1, LastAfterCut
<1> HIDE DEF cut
<1>8. ToldBy(cut, heard[t][k], k, over[t])
  BY <1>6, <1>7 DEF ToldBy
<1>9. Disconnected \in CallRecords /\ Disconnected \notin Reports(k)
  BY ReportFacts DEF CallRecords
<1>10. ToldBy(Append(cut, Disconnected), heard[t][k], k, over[t])
  BY <1>7, <1>8, <1>9, ToldPastOther
<1> QED
  BY <1>10 DEF cut, cs, AfterBreak

LEMMA HeardStarts ==
    ASSUME Init
    PROVE  HeardInv
<1>1. ASSUME NEW t \in Tools, NEW k \in Kinds PROVE Told(t, k)
  <2>1. calls[t] = <<>> /\ heard[t][k] = FALSE /\ over[t] = FALSE
    BY SecsFloorAssumption DEF Init, ScenarioInit
  <2>2. NoneOf(calls[t], Reports(k))
    BY <2>1 DEF NoneOf
  <2> QED
    BY <2>1, <2>2 DEF Told, ToldBy
<1>2. \A t \in Tools : latch[t] = over[t]
  BY SecsFloorAssumption DEF Init, ScenarioInit
<1> QED
  BY <1>1, <1>2 DEF HeardInv

\* A tool that this step does not touch.
HeardOf(t) == /\ calls'[t] = calls[t] /\ heard'[t] = heard[t]
              /\ arrives'[t] = arrives[t]
              /\ over'[t] = over[t] /\ latch'[t] = latch[t]

LEMMA HeardStays ==
    ASSUME HeardInv, NEW t \in Tools, HeardOf(t)
    PROVE  latch'[t] = over'[t] /\ \A k \in Kinds : Told(t, k)'
<1>1. latch'[t] = over'[t]
  BY DEF HeardInv, HeardOf
<1>2. ASSUME NEW k \in Kinds PROVE Told(t, k)'
  <2>1. Told(t, k)
    BY DEF HeardInv
  <2>2. ToldBy(calls[t], heard[t][k], k, over[t]) =>
            ToldBy(calls'[t], heard'[t][k], k, over'[t])
    BY DEF HeardOf
  <2>3. arrives'[t][k] => arrives[t][k]
    BY DEF HeardOf
  <2> QED
    BY <2>1, <2>2, <2>3 DEF Told
<1> QED
  BY <1>1, <1>2

LEMMA ConnectHears ==
    ASSUME HearsInv, NEW t \in Tools, Connect(t)
    PROVE  HeardInv'
<1>1. ASSUME NEW u \in Tools
      PROVE  latch'[u] = over'[u] /\ \A k \in Kinds : Told(u, k)'
  <2>1. CASE u # t
    <3>1. HeardOf(u)
      BY <2>1 DEF HeardOf, Connect, HearsInv, FloorInv, FloorTypes
    <3> QED
      BY <3>1, HeardStays DEF HearsInv
  <2>2. CASE u = t
    <3>1. /\ calls[t] \in Seq(CallRecords) /\ Connected \in CallRecords
          /\ calls'[t] = Append(calls[t], Connected)
          /\ UNCHANGED <<heard, over, latch, arrives>>
      BY DEF Connect, HearsInv, FloorInv, FloorTypes, CallRecords
    <3>2. ASSUME NEW k \in Kinds PROVE Told(t, k)'
      <4>1. Told(t, k)
        BY DEF HearsInv, HeardInv
      <4>2. ToldBy(calls[t], heard[t][k], k, over[t]) =>
                ToldBy(calls'[t], heard[t][k], k, over[t])
        BY <3>1, ReportFacts, ToldPastOther
      <4> QED
        BY <3>1, <4>1, <4>2 DEF Told
    <3> QED
      BY <2>2, <3>1, <3>2 DEF HearsInv, HeardInv
  <2> QED
    BY <2>1, <2>2
<1> QED
  BY <1>1 DEF HeardInv

\* Break and Disabled: the connection of one tool ends.
LEMMA LossHears ==
    ASSUME HearsInv, NEW t \in Tools, NEW n \in 0..Len(calls[t]),
           calls' = [calls EXCEPT ![t] = AfterBreak(t, n)],
           arrives' = [arrives EXCEPT ![t] = [k \in Kinds |-> Arriving(t, n, k)]],
           UNCHANGED <<heard, over, latch>>
    PROVE  HeardInv'
<1>1. ASSUME NEW u \in Tools
      PROVE  latch'[u] = over'[u] /\ \A k \in Kinds : Told(u, k)'
  <2>1. CASE u # t
    <3>1. HeardOf(u)
      BY <2>1 DEF HeardOf, HearsInv, FloorInv, FloorTypes
    <3> QED
      BY <3>1, HeardStays DEF HearsInv
  <2>2. CASE u = t
    <3>1. calls'[t] = AfterBreak(t, n)
          /\ \A k \in Kinds : arrives'[t][k] = Arriving(t, n, k)
      BY DEF HearsInv, FloorInv, FloorTypes
    <3>2. ASSUME NEW k \in Kinds PROVE Told(t, k)'
      <4>1. Told(t, k)
        BY DEF HearsInv, HeardInv
      <4>2. Arriving(t, n, k) => ToldBy(AfterBreak(t, n), heard[t][k], k, over[t])
        BY <4>1, ToldAfterBreak DEF HearsInv, FloorInv
      <4> QED
        BY <3>1, <4>2 DEF Told
    <3> QED
      BY <2>2, <3>2 DEF HearsInv, HeardInv
  <2> QED
    BY <2>1, <2>2
<1> QED
  BY <1>1 DEF HeardInv

LEMMA SimEndsHears ==
    ASSUME HearsInv, SimEnds
    PROVE  HeardInv'
<1>1. PICK cut \in [Tools -> 0..MaxCalls] :
          /\ \A t \in Tools :
                IF link[t] THEN Survive(t, cut[t]) ELSE cut[t] = Len(calls[t])
          /\ calls' = [t \in Tools |->
                          IF link[t] THEN AfterBreak(t, cut[t]) ELSE calls[t]]
          /\ arrives' = [t \in Tools |-> [k \in Kinds |->
                            Arriving(t, cut[t], k) /\ ~over[t]]]
  BY DEF SimEnds
<1>2. ASSUME NEW t \in Tools PROVE latch'[t] = FALSE /\ over'[t] = FALSE
  BY SecsFloorAssumption DEF SimEnds, ScenarioReset
<1>3. ASSUME NEW t \in Tools, NEW k \in Kinds, arrives'[t][k]
      PROVE  ToldBy(calls'[t], heard'[t][k], k, over'[t])
  <2>1. Arriving(t, cut[t], k) /\ ~over[t] /\ heard' = heard
    BY <1>1, <1>3 DEF SimEnds
  <2>2. over'[t] = over[t]
    <3>1. over[t] \in BOOLEAN
      BY SecsFloorAssumption
         DEF HearsInv, FloorInv, FloorTypes, ScenarioInv, ScenarioTypeOK
    <3> QED
      BY <1>2, <2>1, <3>1
  <2>3. Told(t, k)
    BY DEF HearsInv, HeardInv
  <2>4. CASE link[t]
    <3>1. cut[t] \in 0..Len(calls[t]) /\ calls'[t] = AfterBreak(t, cut[t])
      BY <1>1, <2>4 DEF Survive
    <3>2. ToldBy(AfterBreak(t, cut[t]), heard[t][k], k, over[t])
      BY <2>1, <2>3, <3>1, ToldAfterBreak DEF HearsInv, FloorInv
    <3> QED
      BY <2>1, <2>2, <3>1, <3>2
  <2>5. CASE ~link[t]
    <3>1. calls'[t] = calls[t]
      BY <1>1, <2>5
    <3>2. ToldBy(calls[t], heard[t][k], k, over[t])
      BY <2>1, <2>3 DEF Told, Arriving
    <3> QED
      BY <2>1, <2>2, <3>1, <3>2
  <2> QED
    BY <2>4, <2>5
<1> QED
  BY <1>2, <1>3 DEF HeardInv, Told

LEMMA TickHears ==
    ASSUME HearsInv, NEW t \in Tools, NEW due, Tick(t, due)
    PROVE  HeardInv'
<1>1. over'[t] \in BOOLEAN /\ \A u \in Tools : u # t => over'[u] = over[u]
  BY SecsFloorAssumption, ScenarioTicks DEF Tick, HearsInv, FloorInv, FloorTypes
<1> DEFINE hot == over'[t]
           sends == Emitted(t, hot)
<1>2. /\ calls' = IF link[t] THEN [calls EXCEPT ![t] = @ \o sends] ELSE calls
      /\ arrives' = [arrives EXCEPT ![t] = [k \in Kinds |->
                         IF Carries(sends, k) THEN link[t] ELSE @[k]]]
      /\ latch' = [latch EXCEPT ![t] = hot]
      /\ UNCHANGED heard
  BY DEF Tick
<1>3. ASSUME NEW u \in Tools, u # t
      PROVE  latch'[u] = over'[u] /\ \A k \in Kinds : Told(u, k)'
  <2>1. HeardOf(u)
    BY <1>1, <1>2, <1>3 DEF HeardOf, HearsInv, FloorInv, FloorTypes
  <2> QED
    BY <2>1, HeardStays DEF HearsInv
<1>4. /\ calls[t] \in Seq(CallRecords) /\ hot \in BOOLEAN
      /\ latch[t] = over[t]
      /\ calls'[t] = IF link[t] THEN calls[t] \o sends ELSE calls[t]
      /\ latch'[t] = hot
      /\ \A k \in Kinds :
            arrives'[t][k] = IF Carries(sends, k) THEN link[t] ELSE arrives[t][k]
  BY <1>1, <1>2 DEF HearsInv, HeardInv, FloorInv, FloorTypes
<1> DEFINE sample == Frame("S6F11", hot)
           report == Frame("S5F1", hot)
<1>5. /\ sample \in CallRecords /\ report \in CallRecords
      /\ sample.kind = "S6F11" /\ report.kind = "S5F1"
      /\ "S6F11" \in Kinds /\ "S5F1" \in Kinds
      /\ sample \notin Reports("S5F1") /\ report \notin Reports("S6F11")
  <2>1. "S6F11" \in Kinds /\ "S5F1" \in Kinds
    BY DEF Kinds
  <2>2. /\ sample \in CallRecords /\ report \in CallRecords
        /\ sample.kind = "S6F11" /\ report.kind = "S5F1"
    BY <1>4, <2>1, FrameFacts DEF CallRecords
  <2> QED
    BY <2>1, <2>2, ReportFacts
<1>6. /\ hot = latch[t] => sends = <<sample>>
      /\ hot # latch[t] => sends = <<sample, report>>
  BY <1>4, EmittedFrames
<1>7. /\ hot = latch[t] => calls[t] \o sends = Append(calls[t], sample)
      /\ hot # latch[t] => calls[t] \o sends = Append(Append(calls[t], sample), report)
  BY <1>4, EmittedOneByOne
<1>8. /\ Carries(sends, "S6F11")
      /\ Carries(sends, "S5F1") <=> hot # latch[t]
  <2> HIDE DEF sends, sample, report
  <2>1. CASE hot = latch[t]
    BY <1>5, <1>6, <2>1 DEF Carries
  <2>2. CASE hot # latch[t]
    <3>1. DOMAIN sends = 1..2 /\ sends[1] = sample /\ sends[2] = report
      BY <1>6, <2>2
    <3> QED
      BY <1>5, <2>2, <3>1 DEF Carries
  <2> QED
    BY <2>1, <2>2
<1>9. Told(t, "S6F11")'
  <2> SUFFICES ASSUME link[t]
               PROVE  ToldBy(calls'[t], heard'[t]["S6F11"], "S6F11", hot)
    BY <1>4, <1>5, <1>8 DEF Told
  <2>1. ToldBy(Append(calls[t], sample), heard'[t]["S6F11"], "S6F11", hot)
    BY <1>4, <1>5, ToldByFrame
  <2>2. Append(calls[t], sample) \in Seq(CallRecords)
    BY <1>4, <1>5
  <2> HIDE DEF hot, sends, sample, report
  <2>3. ToldBy(Append(Append(calls[t], sample), report), heard'[t]["S6F11"],
               "S6F11", hot)
    BY <1>5, <2>1, <2>2, ToldPastOther
  <2> QED
    BY <1>4, <1>7, <2>1, <2>3
<1>10. Told(t, "S5F1")'
  <2>1. CASE hot # latch[t]
    <3> SUFFICES ASSUME link[t]
                 PROVE  ToldBy(calls'[t], heard'[t]["S5F1"], "S5F1", hot)
      BY <1>4, <1>5, <1>8, <2>1 DEF Told
    <3>1. Append(calls[t], sample) \in Seq(CallRecords)
      BY <1>4, <1>5
    <3>2. ToldBy(Append(Append(calls[t], sample), report), heard'[t]["S5F1"],
                 "S5F1", hot)
      BY <1>4, <1>5, <3>1, ToldByFrame
    <3> QED
      BY <1>4, <1>7, <2>1, <3>2
  <2>2. CASE hot = latch[t]
    <3>1. arrives'[t]["S5F1"] = arrives[t]["S5F1"] /\ over'[t] = over[t]
      BY <1>4, <1>5, <1>8, <2>2
    <3> SUFFICES ASSUME arrives[t]["S5F1"]
                 PROVE  ToldBy(calls'[t], heard[t]["S5F1"], "S5F1", over[t])
      BY <1>2, <3>1 DEF Told
    <3>2. ToldBy(calls[t], heard[t]["S5F1"], "S5F1", over[t])
      BY <1>5 DEF HearsInv, HeardInv, Told
    <3> HIDE DEF hot, sends, sample, report
    <3>3. ToldBy(Append(calls[t], sample), heard[t]["S5F1"], "S5F1", over[t])
      BY <1>4, <1>5, <3>2, ToldPastOther
    <3> QED
      BY <1>4, <1>7, <2>2, <3>2, <3>3
  <2> QED
    BY <2>1, <2>2
<1>11. \A k \in Kinds : Told(t, k)'
  BY <1>9, <1>10, Zenon DEF Kinds
<1> QED
  BY <1>3, <1>4, <1>11 DEF HeardInv

LEMMA CallbackHears ==
    ASSUME HearsInv, NEW t \in Tools, Callback(t)
    PROVE  HeardInv'
<1> DEFINE call == Head(calls[t])
<1>1. /\ calls[t] \in Seq(CallRecords) /\ calls[t] # <<>>
      /\ calls' = [calls EXCEPT ![t] = Tail(@)]
      /\ UNCHANGED <<over, latch>>
  BY DEF Callback, HearsInv, FloorInv, FloorTypes
<1>7. \/ call.kind \notin Kinds /\ UNCHANGED <<heard, arrives>>
      \/ call.kind \in Kinds /\ Reported(t, call)
      \/ call.kind \in Kinds /\ Dropped(t, call)
  BY CallbackReceives
<1>2. call \in CallRecords
  BY <1>1
<1>3. /\ heard \in [Tools -> [Kinds -> BOOLEAN]]
      /\ arrives \in [Tools -> [Kinds -> BOOLEAN]]
      /\ calls \in [Tools -> Seq(CallRecords)]
  BY DEF HearsInv, FloorInv, FloorTypes
<1> HIDE DEF call
<1>4. ASSUME NEW u \in Tools, u # t
      PROVE  latch'[u] = over'[u] /\ \A k \in Kinds : Told(u, k)'
  <2>3. calls'[u] = calls[u]
    BY <1>1, <1>3, <1>4
  <2>1. heard'[u] = heard[u] /\ arrives'[u] = arrives[u]
    BY <1>3, <1>4, <1>7 DEF Reported, Dropped
  <2>2. HeardOf(u)
    BY <1>1, <2>1, <2>3 DEF HeardOf
  <2> QED
    BY <2>2, HeardStays DEF HearsInv
<1>5. ASSUME NEW k \in Kinds PROVE Told(t, k)'
  <2>9. heard[t] \in [Kinds -> BOOLEAN] /\ arrives[t] \in [Kinds -> BOOLEAN]
    BY <1>3
  <2>10. CASE call.kind = k /\ Dropped(t, call)
    <3>1. arrives'[t] = [arrives[t] EXCEPT ![k] = @ /\ Carries(Tail(calls[t]), k)]
          /\ heard'[t] = heard[t]
      BY <1>3, <2>10 DEF Dropped
    <3>2. arrives'[t][k] = (arrives[t][k] /\ Carries(Tail(calls[t]), k))
      BY <2>9, <3>1
    <3> SUFFICES ASSUME arrives[t][k], Carries(Tail(calls[t]), k)
                 PROVE  ToldBy(Tail(calls[t]), heard[t][k], k, over[t])
      BY <1>1, <1>3, <3>1, <3>2 DEF Told
    <3>3. Tail(calls[t]) \in Seq(CallRecords)
      BY <1>1
    <3>4. ~NoneOf(Tail(calls[t]), Reports(k))
      BY <3>3, CarriesNone
    <3>5. /\ LastIs(calls[t], Reports(k), Frame(k, over[t])) =>
                 \/ LastIs(Tail(calls[t]), Reports(k), Frame(k, over[t]))
                 \/ call = Frame(k, over[t]) /\ NoneOf(Tail(calls[t]), Reports(k))
          /\ NoneOf(calls[t], Reports(k)) =>
                 call \notin Reports(k) /\ NoneOf(Tail(calls[t]), Reports(k))
      BY <1>1, LastAfterTail DEF call
    <3>6. ToldBy(calls[t], heard[t][k], k, over[t])
      BY DEF HearsInv, HeardInv, Told
    <3> QED
      BY <3>4, <3>5, <3>6 DEF ToldBy
  <2> SUFFICES ASSUME ~(call.kind = k /\ Dropped(t, call))
               PROVE  Told(t, k)'
    BY <2>10
  <2>1. /\ heard'[t][k] = IF call.kind = k THEN call.hot ELSE heard[t][k]
        /\ arrives'[t][k] = arrives[t][k]
    <3>1. CASE call.kind \notin Kinds /\ UNCHANGED <<heard, arrives>>
      BY <3>1
    <3>2. CASE call.kind \in Kinds /\ Reported(t, call)
      <4>1. heard'[t] = [heard[t] EXCEPT ![call.kind] = call.hot]
            /\ arrives' = arrives
        BY <1>3, <3>2 DEF Reported
      <4> QED
        BY <2>9, <3>2, <4>1
    <3>3. CASE call.kind \in Kinds /\ Dropped(t, call)
      <4>1. arrives'[t] = [arrives[t] EXCEPT ![call.kind] =
                              @ /\ Carries(Tail(calls[t]), call.kind)]
            /\ heard' = heard
        BY <1>3, <3>3 DEF Dropped
      <4>2. call.kind # k
        BY <3>3
      <4> QED
        BY <2>9, <4>1, <4>2
    <3> QED
      BY <1>7, <3>1, <3>2, <3>3
  <2> SUFFICES ASSUME arrives[t][k]
               PROVE  ToldBy(Tail(calls[t]), heard'[t][k], k, over[t])
    BY <1>1, <1>3, <2>1 DEF Told
  <2>2. over[t] \in BOOLEAN
    BY SecsFloorAssumption
       DEF HearsInv, FloorInv, FloorTypes, ScenarioInv, ScenarioTypeOK
  <2>3. ToldBy(calls[t], heard[t][k], k, over[t])
    BY DEF HearsInv, HeardInv, Told
  <2>4. /\ LastIs(calls[t], Reports(k), Frame(k, over[t])) =>
              \/ LastIs(Tail(calls[t]), Reports(k), Frame(k, over[t]))
              \/ call = Frame(k, over[t]) /\ NoneOf(Tail(calls[t]), Reports(k))
        /\ NoneOf(calls[t], Reports(k)) =>
              call \notin Reports(k) /\ NoneOf(Tail(calls[t]), Reports(k))
    BY <1>1, LastAfterTail DEF call
  <2>5. CASE NoneOf(calls[t], Reports(k)) /\ heard[t][k] = over[t]
    <3>1. call.kind # k
      BY <1>2, <2>4, <2>5, ReportFacts
    <3> QED
      BY <2>1, <2>4, <2>5, <3>1 DEF ToldBy
  <2>6. CASE LastIs(Tail(calls[t]), Reports(k), Frame(k, over[t]))
    BY <2>6 DEF ToldBy
  <2>7. CASE call = Frame(k, over[t]) /\ NoneOf(Tail(calls[t]), Reports(k))
    <3>1. call.kind = k /\ call.hot = over[t]
      BY <2>2, <2>7, FrameFacts
    <3> QED
      BY <2>1, <2>7, <3>1 DEF ToldBy
  <2> QED
    BY <2>3, <2>4, <2>5, <2>6, <2>7 DEF ToldBy
<1>6. latch'[t] = over'[t]
  BY <1>1 DEF HearsInv, HeardInv
<1> QED
  BY <1>4, <1>5, <1>6 DEF HeardInv

LEMMA HostEndsHears ==
    ASSUME HearsInv, HostEnds
    PROVE  HeardInv'
<1>1. ASSUME NEW t \in Tools, NEW k \in Kinds, arrives'[t][k]
      PROVE  ToldBy(calls'[t], heard'[t][k], k, over'[t])
  <2>1. calls'[t] = <<>> /\ heard'[t][k] = FALSE /\ over' = over /\ ~over[t]
    BY <1>1 DEF HostEnds
  <2>2. over[t] = FALSE
    BY <2>1, SecsFloorAssumption
       DEF HearsInv, FloorInv, FloorTypes, ScenarioInv, ScenarioTypeOK
  <2>3. NoneOf(calls'[t], Reports(k))
    BY <2>1 DEF NoneOf
  <2> QED
    BY <2>1, <2>2, <2>3 DEF ToldBy
<1>2. \A t \in Tools : latch'[t] = over'[t]
  BY DEF HostEnds, HearsInv, HeardInv
<1> QED
  BY <1>1, <1>2 DEF HeardInv, Told

LEMMA HearsInvStep ==
    ASSUME HearsInv, [Next]_vars
    PROVE  HearsInv'
<1>1. FloorInv'
  BY FloorInvStep DEF HearsInv
<1>2. HeardInv'
  <2>1. ASSUME UNCHANGED <<calls, heard, arrives, over, latch>> PROVE HeardInv'
    <3>1. \A t \in Tools : HeardOf(t)
      BY <2>1 DEF HeardOf
    <3> QED
      BY <3>1, HeardStays DEF HeardInv, HearsInv
  <2>2. CASE UNCHANGED vars
    BY <2>1, <2>2 DEF vars
  <2>3. CASE SimBoots \/ HostBoots \/ HostStops
    BY <2>1, <2>3 DEF SimBoots, HostBoots, HostStops
  <2>4. ASSUME NEW t \in Tools, NEW n, BeginSetup(t, n) \/ Subscribe(t, n)
        PROVE  HeardInv'
    BY <2>1, <2>4 DEF BeginSetup, Subscribe
  <2>5. ASSUME NEW t \in Tools, Break(t) \/ Disabled(t) PROVE HeardInv'
    <3>1. UNCHANGED <<heard, over, latch>>
      BY <2>5 DEF Break, Disabled
    <3>2. CASE UNCHANGED <<calls, arrives>>
      BY <2>1, <3>1, <3>2
    <3>3. CASE \E n \in 0..Len(calls[t]) :
                  /\ calls' = [calls EXCEPT ![t] = AfterBreak(t, n)]
                  /\ arrives' = [arrives EXCEPT ![t] =
                                    [k \in Kinds |-> Arriving(t, n, k)]]
      BY <3>1, <3>3, LossHears
    <3> QED
      BY <2>5, <3>2, <3>3 DEF Break, Disabled
  <2>6. CASE \E t \in Tools :
                \/ \E due \in BOOLEAN : Tick(t, due)
                \/ Connect(t) \/ Break(t) \/ Callback(t) \/ Disabled(t)
                \/ \E n \in 1..MaxConnects : BeginSetup(t, n) \/ Subscribe(t, n)
    BY <2>4, <2>5, <2>6, TickHears, ConnectHears, CallbackHears, Zenon
  <2> QED
    BY <2>2, <2>3, <2>6, NextCases, SimEndsHears, HostEndsHears
<1> QED
  BY <1>1, <1>2 DEF HearsInv

\* Unless the last frame of a kind was lost or is one it cannot read, a host that
\* is called back for nothing more of it was told what is true of the tool: by
\* samples, and by alarm reports, which are sent on changes only
\* (equipment_session.py:370, session.py:216).
THEOREM HearsTheTool == Spec => []HostHearsTheTool
<1>1. Init => HearsInv
  BY FloorStarts, LinkStarts, HeardStarts DEF FloorInv, HearsInv
<1>2. ASSUME HearsInv PROVE HostHearsTheTool
  <2> SUFFICES ASSUME NEW t \in Tools, NEW k \in Kinds,
                      arrives[t][k], ~Carries(calls[t], k)
               PROVE  heard[t][k] = over[t]
    BY DEF HostHearsTheTool
  <2>1. calls[t] \in Seq(CallRecords) /\ over[t] \in BOOLEAN
    BY <1>2, SecsFloorAssumption
       DEF HearsInv, FloorInv, FloorTypes, ScenarioInv, ScenarioTypeOK
  <2>2. NoneOf(calls[t], Reports(k))
    BY <2>1, CarriesNone
  <2>3. Frame(k, over[t]) \in Reports(k)
    BY <2>1, ReportFacts
  <2>4. ~LastIs(calls[t], Reports(k), Frame(k, over[t]))
    BY <2>2, <2>3 DEF LastIs, NoneOf
  <2>5. Told(t, k)
    BY <1>2 DEF HearsInv, HeardInv
  <2> QED
    BY <2>2, <2>4, <2>5 DEF Told, ToldBy
<1> QED
  BY <1>1, <1>2, HearsInvStep, PTL DEF Spec

-----------------------------------------------------------------------------
(* What the equipment was asked to report: the last setup of a connected     *)
(* tool, once begun by the call for this very connection, has had each CEID  *)
(* it is past accepted, or counts it as failed or, unasked, as done.         *)

Coming == {Connected}
Last(t) == Len(setups[t])

Covered(t) ==
    (/\ link[t] /\ handler[t] = "set" /\ NoneOf(calls[t], Coming) /\ Last(t) > 0) =>
        \A i \in 1..(setups[t][Last(t)] - 1) :
            Ceids[i] \in programmed[t] \cup failed[t][Last(t)] \cup blind[t][Last(t)]

SetupInv ==
    /\ \A t \in Tools : Covered(t)
    /\ host = "off" => \A t \in Tools : setups[t] = <<>>

ProgramInv == FloorTypes /\ SetupInv

\* A step that at most asks for more.
LEMMA CoveredStays ==
    ASSUME NEW t, Covered(t),
           link'[t] /\ handler'[t] = "set" => link[t] /\ handler[t] = "set",
           NoneOf(calls'[t], Coming) => NoneOf(calls[t], Coming),
           setups'[t] = setups[t], failed'[t] = failed[t], blind'[t] = blind[t],
           programmed[t] \subseteq programmed'[t]
    PROVE  Covered(t)'
BY DEF Covered, Last

LEMMA UncoveredUnlessLinked ==
    ASSUME NEW t, ~link'[t] \/ handler'[t] # "set"
    PROVE  Covered(t)'
BY DEF Covered

LEMMA NoneBeforeAppend ==
    ASSUME NEW R, NEW s \in Seq(R), NEW new \in R, NEW S, NoneOf(Append(s, new), S)
    PROVE  NoneOf(s, S) /\ new \notin S
<1>1. /\ DOMAIN Append(s, new) = 1..(Len(s) + 1) /\ DOMAIN s = 1..Len(s)
      /\ Len(s) \in Nat /\ Append(s, new)[Len(s) + 1] = new
      /\ \A i \in 1..Len(s) : Append(s, new)[i] = s[i]
  OBVIOUS
<1> QED
  BY <1>1 DEF NoneOf

LEMMA NoneBeforeTail ==
    ASSUME NEW R, NEW s \in Seq(R), s # <<>>, NEW S,
           Head(s) \notin S, NoneOf(Tail(s), S)
    PROVE  NoneOf(s, S)
<1>1. /\ Len(s) \in Nat \ {0} /\ DOMAIN s = 1..Len(s)
      /\ DOMAIN Tail(s) = 1..(Len(s) - 1) /\ Head(s) = s[1]
      /\ \A i \in 1..(Len(s) - 1) : Tail(s)[i] = s[i + 1]
  OBVIOUS
<1> SUFFICES ASSUME NEW i \in DOMAIN s PROVE s[i] \notin S
  BY DEF NoneOf
<1>2. CASE i = 1
  BY <1>1, <1>2
<1>3. CASE i # 1
  <2>1. i - 1 \in DOMAIN Tail(s) /\ Tail(s)[i - 1] = s[i]
    BY <1>1, <1>3
  <2> QED
    BY <2>1 DEF NoneOf
<1> QED
  BY <1>2, <1>3

LEMMA SetupStarts ==
    ASSUME Init
    PROVE  SetupInv
BY DEF Init, SetupInv, Covered

LEMMA ConnectCovers ==
    ASSUME ProgramInv, NEW t \in Tools, Connect(t), NEW u \in Tools
    PROVE  Covered(u)'
<1>1. UNCHANGED <<handler, setups, failed, blind, programmed>> /\ Covered(u)
  BY DEF Connect, ProgramInv, SetupInv
<1>2. CASE u # t
  <2>1. link'[u] = link[u] /\ calls'[u] = calls[u]
    BY <1>2 DEF Connect, ProgramInv, FloorTypes
  <2> QED
    BY <1>1, <2>1, CoveredStays
<1>3. CASE u = t
  <2>1. /\ calls[t] \in Seq(CallRecords) /\ Connected \in CallRecords
        /\ calls'[t] = Append(calls[t], Connected)
    BY DEF Connect, ProgramInv, FloorTypes, CallRecords
  <2>2. ~NoneOf(calls'[t], Coming)
    BY <2>1, NoneBeforeAppend DEF Coming
  <2> QED
    BY <1>3, <2>2 DEF Covered
<1> QED
  BY <1>2, <1>3

LEMMA LossCovers ==
    ASSUME ProgramInv, NEW t \in Tools, Break(t) \/ Disabled(t), NEW u \in Tools
    PROVE  Covered(u)'
<1>1. UNCHANGED <<setups, failed, blind, programmed>> /\ Covered(u)
  BY DEF Break, Disabled, ProgramInv, SetupInv
<1>2. CASE u # t
  <2>1. link'[u] = link[u] /\ calls'[u] = calls[u] /\ handler'[u] = handler[u]
    BY <1>2 DEF Break, Disabled, ProgramInv, FloorTypes
  <2> QED
    BY <1>1, <2>1, CoveredStays
<1>3. CASE u = t
  <2>1. ~link'[t]
    BY DEF Break, Disabled, ProgramInv, FloorTypes
  <2> QED
    BY <1>3, <2>1, UncoveredUnlessLinked
<1> QED
  BY <1>2, <1>3

LEMMA TickCovers ==
    ASSUME ProgramInv, NEW t \in Tools, NEW due, Tick(t, due), NEW u \in Tools
    PROVE  Covered(u)'
<1>1. over'[t] \in BOOLEAN
  BY SecsFloorAssumption, ScenarioTicks DEF Tick, ProgramInv, FloorTypes
<1> DEFINE hot == over'[t]
<1>2. /\ UNCHANGED <<link, handler, setups, failed, blind, programmed>>
      /\ calls' = IF link[t] THEN [calls EXCEPT ![t] = @ \o Emitted(t, hot)] ELSE calls
  BY DEF Tick
<1>3. Covered(u) /\ calls[t] \in Seq(CallRecords)
  BY DEF ProgramInv, SetupInv, FloorTypes
<1>4. NoneOf(calls'[u], Coming) => NoneOf(calls[u], Coming)
  <2>1. CASE u # t \/ ~link[t]
    BY <1>2, <2>1 DEF ProgramInv, FloorTypes
  <2>2. CASE u = t /\ link[t]
    <3> DEFINE one == Append(calls[t], Frame("S6F11", hot))
               both == Append(one, Frame("S5F1", hot))
    <3>1. /\ Frame("S6F11", hot) \in CallRecords /\ Frame("S5F1", hot) \in CallRecords
      BY <1>1, FrameFacts DEF CallRecords, Kinds
    <3>2. calls'[t] = calls[t] \o Emitted(t, hot)
      BY <1>2, <2>2 DEF ProgramInv, FloorTypes
    <3>3. calls'[t] \in {one, both}
      BY <1>1, <1>3, <3>2, EmittedOneByOne
    <3> HIDE DEF hot
    <3>4. one \in Seq(CallRecords) /\ (NoneOf(one, Coming) => NoneOf(calls[t], Coming))
      BY <1>3, <3>1, NoneBeforeAppend
    <3> HIDE DEF one
    <3>5. NoneOf(both, Coming) => NoneOf(one, Coming)
      BY <3>1, <3>4, NoneBeforeAppend
    <3> QED
      BY <2>2, <3>3, <3>4, <3>5
  <2> QED
    BY <2>1, <2>2
<1> QED
  BY <1>2, <1>3, <1>4, CoveredStays

LEMMA CallbackCovers ==
    ASSUME ProgramInv, NEW t \in Tools, Callback(t), NEW u \in Tools
    PROVE  Covered(u)'
<1>1. /\ UNCHANGED <<link, handler, programmed>> /\ Covered(u)
      /\ calls[t] \in Seq(CallRecords) /\ calls[t] # <<>>
      /\ calls' = [calls EXCEPT ![t] = Tail(@)]
      /\ IF Head(calls[t]) = Connected
         THEN /\ setups' = [setups EXCEPT ![t] = Append(@, 0)]
              /\ failed' = [failed EXCEPT ![t] = Append(@, {})]
         ELSE UNCHANGED <<setups, failed, blind>>
      /\ \A v \in Tools : v # t => blind'[v] = blind[v]
  BY DEF Callback, ProgramInv, SetupInv, FloorTypes
<1>2. /\ setups \in [Tools -> Seq(0..Ended)] /\ failed \in [Tools -> Seq(SUBSET AllCeids)]
      /\ calls \in [Tools -> Seq(CallRecords)]
  BY DEF ProgramInv, FloorTypes
<1>3. CASE u # t
  <2>1. /\ calls'[u] = calls[u] /\ setups'[u] = setups[u]
        /\ failed'[u] = failed[u] /\ blind'[u] = blind[u]
    BY <1>1, <1>2, <1>3
  <2> QED
    BY <1>1, <2>1, CoveredStays
<1>4. CASE u = t /\ Head(calls[t]) = Connected
  <2>1. setups'[t] = Append(setups[t], 0)
    BY <1>1, <1>2, <1>4
  <2>2. setups[t] \in Seq(0..Ended) /\ 0 \in 0..Ended
    BY <1>2, SecsFloorAssumption DEF Ended
  <2>3. setups'[t][Len(setups'[t])] = 0
    BY <2>1, <2>2
  <2> QED
    BY <1>4, <2>3 DEF Covered, Last
<1>5. CASE u = t /\ Head(calls[t]) # Connected
  <2>1. /\ calls'[t] = Tail(calls[t]) /\ setups'[t] = setups[t]
        /\ failed'[t] = failed[t] /\ blind'[t] = blind[t]
    BY <1>1, <1>2, <1>5
  <2>2. NoneOf(calls'[t], Coming) => NoneOf(calls[t], Coming)
    BY <1>1, <1>5, <2>1, NoneBeforeTail DEF Coming
  <2> QED
    BY <1>1, <1>5, <2>1, <2>2, CoveredStays
<1> QED
  BY <1>3, <1>4, <1>5

LEMMA BeginSetupCovers ==
    ASSUME ProgramInv, NEW t \in Tools, NEW n, BeginSetup(t, n), NEW u \in Tools
    PROVE  Covered(u)'
<1> DEFINE to == IF handler[t] = "set" THEN 1 ELSE Ended
<1>1. /\ UNCHANGED <<link, handler, programmed, calls, failed, blind>> /\ Covered(u)
      /\ n \in DOMAIN setups[t] /\ setups' = [setups EXCEPT ![t][n] = to]
      /\ setups \in [Tools -> Seq(0..Ended)]
  BY DEF BeginSetup, ProgramInv, SetupInv, FloorTypes
<1>2. CASE u # t \/ handler[u] # "set"
  <2>1. CASE u # t
    <3>1. setups'[u] = setups[u]
      BY <1>1, <2>1
    <3> QED
      BY <1>1, <3>1, CoveredStays
  <2>2. CASE handler[u] # "set"
    BY <1>1, <2>2, UncoveredUnlessLinked
  <2> QED
    BY <1>2, <2>1, <2>2
<1>3. CASE u = t /\ handler[t] = "set"
  <2>1. setups'[t] = [setups[t] EXCEPT ![n] = 1] /\ setups[t] \in Seq(0..Ended)
    BY <1>1, <1>3
  <2>2. /\ Len(setups'[t]) = Len(setups[t])
        /\ setups'[t][n] = 1
        /\ \A i \in DOMAIN setups[t] : i # n => setups'[t][i] = setups[t][i]
        /\ Len(setups[t]) > 0 => Len(setups[t]) \in DOMAIN setups[t]
    BY <1>1, <2>1
  <2>3. CASE n = Len(setups[t])
    BY <1>3, <2>2, <2>3 DEF Covered, Last
  <2>4. CASE n # Len(setups[t])
    BY <1>1, <1>3, <2>2, <2>4 DEF Covered, Last
  <2> QED
    BY <2>3, <2>4
<1> QED
  BY <1>2, <1>3

LEMMA GrowsInPlace ==
    ASSUME NEW R, NEW f \in Seq(R), NEW n, NEW more,
           NEW g \in {f, [f EXCEPT ![n] = @ \cup more]}, NEW m \in DOMAIN f
    PROVE  f[m] \subseteq g[m]
<1>1. f = [i \in DOMAIN f |-> f[i]]
  OBVIOUS
<1>2. CASE g = f
  BY <1>2
<1>3. CASE g = [f EXCEPT ![n] = @ \cup more]
  BY <1>1, <1>3
<1> QED
  BY <1>2, <1>3

LEMMA SubscribeCovers ==
    ASSUME ProgramInv, NEW t \in Tools, NEW n, Subscribe(t, n), NEW u \in Tools
    PROVE  Covered(u)'
<1> DEFINE ceid == Ceids[setups[t][n]]
<1>1. /\ UNCHANGED <<link, handler, calls>> /\ Covered(u)
      /\ n \in DOMAIN setups[t] /\ setups[t][n] \in DOMAIN Ceids
      /\ setups' = [setups EXCEPT ![t][n] = @ + 1]
      /\ setups \in [Tools -> Seq(0..Ended)]
      /\ failed \in [Tools -> Seq(SUBSET AllCeids)]
      /\ blind \in [Tools -> Seq(SUBSET AllCeids)]
      /\ programmed \in [Tools -> SUBSET AllCeids]
      /\ Len(setups[t]) = Len(failed[t]) /\ Len(setups[t]) = Len(blind[t])
  BY DEF Subscribe, ProgramInv, SetupInv, FloorTypes
<1>2. \/ UNCHANGED <<programmed, failed, blind>> /\ handler[t] # "set"
      \/ Accepted(t, ceid)
      \/ Unanswered(t, n, ceid)
      \/ Declined(t, n, ceid)
  BY DEF Subscribe
<1> HIDE DEF ceid
<1>3. CASE handler[u] # "set"
  BY <1>1, <1>3, UncoveredUnlessLinked
<1>4. programmed' \in {programmed, [programmed EXCEPT ![t] = @ \cup {ceid}]}
      /\ failed' \in {failed, [failed EXCEPT ![t][n] = @ \cup {ceid}]}
      /\ blind' \in {blind, [blind EXCEPT ![t][n] = @ \cup {ceid}]}
  BY <1>2 DEF Accepted, Unanswered, Declined, Fails, Passes
<1>5. CASE u # t
  <2>1. /\ setups'[u] = setups[u] /\ programmed'[u] = programmed[u]
        /\ failed'[u] = failed[u] /\ blind'[u] = blind[u]
    BY <1>1, <1>4, <1>5
  <2> QED
    BY <1>1, <2>1, CoveredStays
<1>6. CASE u = t /\ handler[t] = "set"
  <2> DEFINE m == Len(setups[t])
  <2>1. /\ setups[t] \in Seq(0..Ended) /\ failed[t] \in Seq(SUBSET AllCeids)
        /\ setups'[t] = [setups[t] EXCEPT ![n] = @ + 1]
        /\ failed'[t] \in {failed[t], [failed[t] EXCEPT ![n] = @ \cup {ceid}]}
        /\ blind[t] \in Seq(SUBSET AllCeids)
        /\ blind'[t] \in {blind[t], [blind[t] EXCEPT ![n] = @ \cup {ceid}]}
    BY <1>1, <1>4
  <2>2. /\ DOMAIN setups[t] = 1..m /\ m \in Nat
        /\ DOMAIN failed[t] = 1..m /\ DOMAIN blind[t] = 1..m
        /\ Len(setups'[t]) = m /\ m \in DOMAIN setups[t]
        /\ setups[t][m] \in Nat
    <3> HIDE DEF m
    <3>1. Len(setups[t]) \in Nat /\ m = Len(setups[t])
          /\ DOMAIN setups[t] = 1..m
          /\ DOMAIN failed[t] = 1..m /\ DOMAIN blind[t] = 1..m
      <4>1. Len(setups[t]) = Len(failed[t]) /\ Len(setups[t]) = Len(blind[t])
        BY <1>1
      <4>2. DOMAIN setups[t] = DOMAIN failed[t]
        BY ONLY <2>1, <4>1, SameDomain
      <4>3. DOMAIN setups[t] = DOMAIN blind[t]
        BY ONLY <2>1, <4>1, SameDomain
      <4>4. Len(setups[t]) \in Nat /\ DOMAIN setups[t] = 1..Len(setups[t])
        BY <2>1
      <4> QED
        BY <4>2, <4>3, <4>4 DEF m
    <3>2. m \in DOMAIN setups[t]
      BY <1>1, <3>1
    <3>3. setups[t][m] \in 0..Ended
      BY <2>1, <3>2, ElementOf
    <3>4. Len(setups'[t]) = m
      BY <2>1, <3>1
    <3> QED
      BY <3>1, <3>2, <3>3, <3>4 DEF m
  <2>3. /\ setups'[t][n] = setups[t][n] + 1
        /\ n # m => setups'[t][m] = setups[t][m]
        /\ failed[t][m] \subseteq failed'[t][m] /\ blind[t][m] \subseteq blind'[t][m]
        /\ programmed[t] \subseteq programmed'[t]
    <3> HIDE DEF m
    <3>1. /\ setups'[t][n] = setups[t][n] + 1
          /\ n # m => setups'[t][m] = setups[t][m]
      BY <1>1, <2>1, <2>2
    <3>2. failed[t][m] \subseteq failed'[t][m]
      <4>1. m \in DOMAIN failed[t]
        BY <2>2
      <4> QED
        BY ONLY <2>1, <4>1, GrowsInPlace
    <3>3. blind[t][m] \subseteq blind'[t][m]
      <4>1. m \in DOMAIN blind[t]
        BY <2>2
      <4> QED
        BY ONLY <2>1, <4>1, GrowsInPlace, SMTT(30)
    <3>4. programmed[t] \subseteq programmed'[t]
      BY <1>1, <1>4
    <3> QED
      BY <3>1, <3>2, <3>3, <3>4
  <2>4. ceid \in programmed'[t] \cup failed'[t][n] \cup blind'[t][n]
    <3>1. CASE Accepted(t, ceid)
      BY <1>1, <3>1 DEF Accepted
    <3>2. CASE Fails(t, n, ceid)
      <4>1. failed'[t][n] = failed[t][n] \cup {ceid}
        BY <1>1, <2>1, <2>2, <3>2 DEF Fails
      <4> QED
        BY <4>1
    <3>3. CASE Passes(t, n, ceid)
      <4>1. blind'[t][n] = blind[t][n] \cup {ceid}
        BY <1>1, <2>1, <2>2, <3>3 DEF Passes
      <4> QED
        BY <4>1
    <3> QED
      BY <1>2, <1>6, <3>1, <3>2, <3>3 DEF Unanswered, Declined
  <2>5. (/\ link[t] /\ handler[t] = "set" /\ NoneOf(calls[t], Coming) /\ m > 0) =>
            \A i \in 1..(setups[t][m] - 1) :
                Ceids[i] \in programmed[t] \cup failed[t][m] \cup blind[t][m]
    BY <1>1, <1>6 DEF Covered, Last
  <2> SUFFICES ASSUME link[t], NoneOf(calls[t], Coming),
                      NEW i \in 1..(setups'[t][m] - 1)
               PROVE  Ceids[i] \in programmed'[t] \cup failed'[t][m] \cup blind'[t][m]
    BY <1>1, <1>6, <2>2 DEF Covered, Last
  <2> HIDE DEF m
  <2>6. m > 0
    BY <2>2
  <2>7. CASE i \in 1..(setups[t][m] - 1)
    BY <1>6, <2>3, <2>5, <2>6, <2>7
  <2>8. CASE i \notin 1..(setups[t][m] - 1)
    <3>1. n = m /\ i = setups[t][n]
      BY <2>2, <2>3, <2>8
    <3> QED
      BY <2>4, <3>1 DEF ceid
  <2> QED
    BY <2>7, <2>8
<1> QED
  BY <1>3, <1>5, <1>6

LEMMA ProgramInvStep ==
    ASSUME ProgramInv, [Next]_vars
    PROVE  ProgramInv'
<1>1. FloorTypes'
  BY TypesStep DEF ProgramInv
<1>2. ASSUME NEW u \in Tools PROVE Covered(u)'
  <2>1. ASSUME UNCHANGED <<link, handler, calls, setups, failed, blind, programmed>>
        PROVE  Covered(u)'
    BY <2>1, CoveredStays DEF ProgramInv, SetupInv
  <2>2. CASE UNCHANGED vars \/ SimBoots
    BY <2>1, <2>2 DEF vars, SimBoots
  <2>3. CASE SimEnds \/ HostEnds
    <3>1. ~link'[u]
      BY <2>3 DEF SimEnds, HostEnds
    <3> QED
      BY <3>1, UncoveredUnlessLinked
  <2>4. CASE HostStops
    <3>1. handler'[u] # "set"
      BY <2>4 DEF HostStops
    <3> QED
      BY <3>1, UncoveredUnlessLinked
  <2>5. CASE HostBoots
    <3>1. setups'[u] = <<>>
      BY <2>5 DEF HostBoots, ProgramInv, SetupInv
    <3> QED
      BY <3>1 DEF Covered, Last
  <2>6. CASE \E t \in Tools :
                \/ \E due \in BOOLEAN : Tick(t, due)
                \/ Connect(t) \/ Break(t) \/ Callback(t) \/ Disabled(t)
                \/ \E n \in 1..MaxConnects : BeginSetup(t, n) \/ Subscribe(t, n)
    BY <2>6, TickCovers, ConnectCovers, LossCovers, CallbackCovers,
       BeginSetupCovers, SubscribeCovers, Zenon
  <2> QED
    BY <2>2, <2>3, <2>4, <2>5, <2>6, NextCases
<1>3. ASSUME host' = "off", NEW u \in Tools PROVE setups'[u] = <<>>
  <2>1. CASE host = "off"
    <3>1. setups[u] = <<>>
      BY <2>1 DEF ProgramInv, SetupInv
    <3>2. UNCHANGED setups \/ HostBoots
      <4>1. CASE \E t \in Tools :
                    \/ \E due \in BOOLEAN : Tick(t, due)
                    \/ Connect(t) \/ Break(t) \/ Callback(t) \/ Disabled(t)
                    \/ \E n \in 1..MaxConnects : BeginSetup(t, n) \/ Subscribe(t, n)
        <5>1. \A t \in Tools : setups[t] = <<>>
          BY <2>1 DEF ProgramInv, SetupInv
        <5>2. ASSUME NEW t \in Tools, NEW n PROVE ~BeginSetup(t, n) /\ ~Subscribe(t, n)
          <6>1. setups[t] = <<>>
            BY <5>1
          <6>2. n \notin DOMAIN setups[t]
            BY <6>1
          <6> QED
            BY <6>2 DEF BeginSetup, Subscribe
        <5>3. ASSUME NEW t \in Tools,
                     \/ \E due \in BOOLEAN : Tick(t, due)
                     \/ Connect(t) \/ Break(t) \/ Callback(t) \/ Disabled(t)
              PROVE  UNCHANGED setups
          BY <2>1, <5>3 DEF Tick, Connect, Break, Callback, Disabled
        <5> QED
          BY <4>1, <5>2, <5>3
      <4> QED
        BY <2>1, <4>1, NextCases DEF SimBoots, SimEnds, HostStops, HostEnds, vars
    <3> QED
      BY <1>3, <3>1, <3>2 DEF HostBoots
  <2>2. CASE host # "off"
    <3>1. HostEnds
      <4>1. ASSUME NEW t \in Tools, \E due \in BOOLEAN : Tick(t, due) PROVE UNCHANGED host
        BY <4>1 DEF Tick
      <4>2. ASSUME NEW t \in Tools, Connect(t) \/ Break(t) \/ Callback(t) \/ Disabled(t)
            PROVE  UNCHANGED host
        BY <4>2 DEF Connect, Break, Callback, Disabled
      <4>3. ASSUME NEW t \in Tools, NEW n, BeginSetup(t, n) \/ Subscribe(t, n)
            PROVE  UNCHANGED host
        BY <4>3 DEF BeginSetup, Subscribe
      <4>4. SimBoots \/ SimEnds \/ HostBoots \/ HostStops \/ UNCHANGED vars =>
                host' # "off"
        BY <2>2 DEF SimBoots, SimEnds, HostBoots, HostStops, vars
      <4>5. \/ SimBoots \/ SimEnds \/ HostBoots \/ HostStops \/ HostEnds
            \/ UNCHANGED host \/ UNCHANGED vars
        BY <4>1, <4>2, <4>3, NextCases, Zenon
      <4> QED
        BY <1>3, <2>2, <4>4, <4>5
    <3> QED
      BY <3>1 DEF HostEnds
  <2> QED
    BY <2>1, <2>2
<1> QED
  BY <1>1, <1>2, <1>3 DEF ProgramInv, SetupInv

\* A connected tool whose last setup is over reports every CEID but those the
\* setup counts as failed and those it counts as done without the tool's consent:
\* setups that overlap, requests that are declined or lost and tools that start
\* anew included (session.py:358, 443).
THEOREM SettledIsProgrammed == Spec => []SettledMeansProgrammed
<1>1. Init => ProgramInv
  BY FloorStarts, SetupStarts DEF ProgramInv
<1>2. ASSUME ProgramInv PROVE SettledMeansProgrammed
  <2> SUFFICES ASSUME NEW t \in Tools,
                      link[t], calls[t] = <<>>, handler[t] = "set", Last(t) > 0,
                      setups[t][Last(t)] = Ended
               PROVE  AllCeids \subseteq
                          programmed[t] \cup failed[t][Last(t)] \cup blind[t][Last(t)]
    BY DEF SettledMeansProgrammed, Last
  <2>1. NoneOf(calls[t], Coming)
    BY DEF NoneOf
  <2>2. \A i \in 1..(Ended - 1) :
            Ceids[i] \in programmed[t] \cup failed[t][Last(t)] \cup blind[t][Last(t)]
    BY <1>2, <2>1 DEF ProgramInv, SetupInv, Covered
  <2>3. DOMAIN Ceids = 1..(Ended - 1)
    BY SecsFloorAssumption DEF Ended
  <2> QED
    BY <2>2, <2>3 DEF AllCeids
<1> QED
  BY <1>1, <1>2, ProgramInvStep, PTL DEF Spec
=============================================================================
