------------------------------- MODULE SecsFloor -------------------------------
(***************************************************************************)
(* The SECS/GEM way in: a simulator process with one EquipmentSession per   *)
(* tool, which all sample the machines of one ScenarioCoordinator, and the  *)
(* host's GemHostAdapter with one EquipmentSession per tool.                *)
(*                                                                         *)
(* Between the two is secsgem: a link that comes up and breaks, and a       *)
(* thread on the host that calls back, in the order of the stream, for a    *)
(* connection, each frame and the loss of the connection.  A callback that  *)
(* is due comes even after its session was stopped.                         *)
(*                                                                         *)
(* A frame is a sample (S6F11) or an alarm report (S5F1), and says whether  *)
(* the tool is over its threshold.  The host drops one it cannot read.      *)
(* What becomes of the signals on the host is the matter of Pipeline and    *)
(* MachineActor.                                                            *)
(***************************************************************************)
EXTENDS Scenario, Sequences

CONSTANTS
    Tools,        \* machines of equipment.yaml
    Ceids,        \* subscribed_ceids, a sequence
    Bare,         \* the CEIDs among them without a report
    Shapes,       \* what secsgem's decoder makes of a frame: "list", "named"
                  \* (a dict), or "none" that a signal can be made of
    TailerToo,    \* SIGNAL_SOURCE = both
    MaxConnects,  \* bound: connections of a tool
    MaxCalls,     \* bound: callbacks due at a time
    MaxFaults     \* bound: breaks, deaths, failed starts, unanswered requests

ASSUME SecsFloorAssumption ==
    /\ Tools \subseteq Machines /\ IsFiniteSet(Tools)
    /\ Ceids \in Seq({Ceids[i] : i \in DOMAIN Ceids})
    /\ Bare \subseteq {Ceids[i] : i \in DOMAIN Ceids}
    /\ Shapes \subseteq {"list", "named", "none"}
    /\ TailerToo \in BOOLEAN
    /\ MaxConnects \in Nat /\ MaxCalls \in Nat /\ MaxFaults \in Nat

VARIABLES
    eq,          \* the equipment's session: "off", "failed" or "sampling"
    latch,       \* _alarm_state of the equipment's session
    programmed,  \* CEIDs the equipment has been asked to report
    link,        \* the HSMS connection is selected
    calls,       \* callbacks due on the host, in the order of the stream
    connects,    \* connections so far
    host,        \* the host's pipeline: "off", "up", "stopping"
    handler,     \* EquipmentSession._handler: "none", "set", or "disabling"
                 \* for one that is None while stop() waits for disable()
    dialing,     \* that handler is enabled
    state,       \* EquipmentSession._state
    setups,      \* _setup_event_reports that began: next position in Ceids
    failed,      \* the CEIDs each of them could not subscribe
    blind,       \* history: those it counts as done and has no consent for
    heard,       \* what the last frame of each kind handed to ingest said
    arrives,     \* history: the last frame of each kind was not lost or dropped
    faults       \* faults so far

equipmentVars == <<eq, latch, programmed>>
linkVars      == <<link, calls, connects>>
setupVars     == <<setups, failed, blind>>
hostVars      == <<host, handler, dialing, state, setupVars, heard>>
vars == <<scenarioVars, equipmentVars, linkVars, hostVars, arrives, faults>>

Kinds == {"S6F11", "S5F1"}
Frame(kind, hot) == [kind |-> kind, hot |-> hot]
Frames  == [kind : Kinds, hot : BOOLEAN]
Connected    == Frame("up", TRUE)
Disconnected == Frame("down", FALSE)
States  == {"STOPPED", "CONNECTING", "SELECTED", "DISCONNECTED", "FAILED"}

Carries(cs, kind) == \E i \in DOMAIN cs : cs[i].kind = kind
AllCeids == {Ceids[i] : i \in DOMAIN Ceids}
Ended    == Len(Ceids) + 1    \* the position of a setup that is over

Init ==
    /\ ScenarioInit
    /\ eq = [t \in Tools |-> "off"]
    /\ latch = [t \in Tools |-> FALSE]
    /\ programmed = [t \in Tools |-> {}]
    /\ link = [t \in Tools |-> FALSE]
    /\ calls = [t \in Tools |-> <<>>]
    /\ connects = [t \in Tools |-> 0]
    /\ host = "off"
    /\ handler = [t \in Tools |-> "none"]
    /\ dialing = [t \in Tools |-> FALSE]
    /\ state = [t \in Tools |-> "STOPPED"]
    /\ setups = [t \in Tools |-> <<>>]
    /\ failed = [t \in Tools |-> <<>>]
    /\ blind = [t \in Tools |-> <<>>]
    /\ heard = [t \in Tools |-> [k \in Kinds |-> FALSE]]
    /\ arrives = [t \in Tools |-> [k \in Kinds |-> TRUE]]
    /\ faults = 0

\* A step in which n things go wrong.
Fault(n) == faults + n <= MaxFaults /\ faults' = faults + n

-----------------------------------------------------------------------------
(* secsgem: the link and its callbacks                                     *)

\* A connection that ends may take frames with it: the first n calls remain.
Survive(t, n) ==
    /\ n \in 0..Len(calls[t])
    /\ \A i \in (n + 1)..Len(calls[t]) : calls[t][i].kind \in Kinds

AfterBreak(t, n) == Append(SubSeq(calls[t], 1, n), Disconnected)
Arriving(t, n, k) ==
    arrives[t][k] /\ ~Carries(SubSeq(calls[t], n + 1, Len(calls[t])), k)

Connect(t) ==
    /\ ~link[t] /\ eq[t] = "sampling" /\ dialing[t]
    /\ connects[t] < MaxConnects /\ Len(calls[t]) < MaxCalls
    /\ link' = [link EXCEPT ![t] = TRUE]
    /\ calls' = [calls EXCEPT ![t] = Append(@, Connected)]
    /\ connects' = [connects EXCEPT ![t] = @ + 1]
    /\ UNCHANGED <<scenarioVars, equipmentVars, hostVars, arrives, faults>>

Break(t) ==
    /\ link[t] /\ Fault(1)
    /\ link' = [link EXCEPT ![t] = FALSE]
    /\ \E n \in 0..Len(calls[t]) :
          /\ Survive(t, n)
          /\ calls' = [calls EXCEPT ![t] = AfterBreak(t, n)]
          /\ arrives' = [arrives EXCEPT ![t] = [k \in Kinds |-> Arriving(t, n, k)]]
    /\ UNCHANGED <<scenarioVars, equipmentVars, connects, hostVars>>

-----------------------------------------------------------------------------
(* The simulator process                                                   *)

\* GemEquipmentAdapter.start: one session that fails does not stop the others.
SimBoots ==
    /\ \A t \in Tools : eq[t] = "off"
    /\ \E good \in SUBSET Tools :
          /\ Fault(Cardinality(Tools \ good))
          /\ eq' = [t \in Tools |-> IF t \in good THEN "sampling" ELSE "failed"]
    /\ UNCHANGED <<scenarioVars, latch, programmed, linkVars, hostVars, arrives>>

\* It stops or dies; the next one starts at the baseline, nothing latched.
SimEnds ==
    /\ \E t \in Tools : eq[t] # "off"
    /\ Fault(1)
    /\ ScenarioReset
    /\ eq' = [t \in Tools |-> "off"]
    /\ latch' = [t \in Tools |-> FALSE]
    /\ programmed' = [t \in Tools |-> {}]
    /\ link' = [t \in Tools |-> FALSE]
    /\ \E cut \in [Tools -> 0..MaxCalls] :
          /\ \A t \in Tools :
                IF link[t] THEN Survive(t, cut[t]) ELSE cut[t] = Len(calls[t])
          /\ calls' = [t \in Tools |->
                          IF link[t] THEN AfterBreak(t, cut[t]) ELSE calls[t]]
          /\ arrives' = [t \in Tools |-> [k \in Kinds |->
                            Arriving(t, cut[t], k) /\ ~over[t]]]
    /\ UNCHANGED <<connects, hostVars>>

\* Mutant: only alarms that are set are reported.
Emitted_SetsOnly(t, hot) ==
    <<Frame("S6F11", hot)>>
        \o (IF hot /\ ~latch[t] THEN <<Frame("S5F1", hot)>> ELSE <<>>)

\* A tick's frames: the sample, and an alarm report when the latch moves.
Emitted(t, hot) ==
    <<Frame("S6F11", hot)>>
        \o (IF hot # latch[t] THEN <<Frame("S5F1", hot)>> ELSE <<>>)

\* One turn of _sample_loop, with or without a host.  A send that raises is
\* logged, and the latch has moved by then.
Tick(t, due) ==
    /\ eq[t] = "sampling"
    /\ link[t] => Len(calls[t]) + 2 <= MaxCalls
    /\ update_sensor(t, due)
    /\ LET sends == Emitted(t, over'[t]) IN
       /\ calls' = IF link[t] THEN [calls EXCEPT ![t] = @ \o sends] ELSE calls
       /\ arrives' = [arrives EXCEPT ![t] = [k \in Kinds |->
                         IF Carries(sends, k) THEN link[t] ELSE @[k]]]
    /\ latch' = [latch EXCEPT ![t] = over'[t]]
    /\ UNCHANGED <<eq, programmed, link, connects, hostVars, faults>>

-----------------------------------------------------------------------------
(* The host: GemHostAdapter and its sessions                               *)

\* bootstrap and GemHostAdapter.start: enable() may raise, or the handler
\* cannot be built; the other sessions start all the same.
HostBoots ==
    /\ host = "off"
    /\ \E start \in [Tools -> {"enabled", "refused", "unbuilt"}] :
          /\ Fault(Cardinality({t \in Tools : start[t] # "enabled"}))
          /\ handler' = [t \in Tools |->
                            IF start[t] = "unbuilt" THEN "none" ELSE "set"]
          /\ dialing' = [t \in Tools |-> start[t] = "enabled"]
          /\ state' = [t \in Tools |->
                 CASE start[t] = "enabled" -> "CONNECTING"
                   [] start[t] = "refused" -> "FAILED"
                   [] start[t] = "unbuilt" -> "STOPPED"]
    /\ host' = "up"
    /\ UNCHANGED <<scenarioVars, equipmentVars, linkVars, setupVars, heard, arrives>>

\* Mutant: the loss of a connection is only logged.
NewState_KeepsSelected(t, call) ==
    IF call = Connected THEN "SELECTED" ELSE state[t]

\* Mutant: the HSMS sub-state is shown as it comes.
NewState_Raw(t, call) == call.kind

\* _on_communicating, _on_disconnected
NewState(t, call) ==
    IF call = Connected THEN "SELECTED"
    ELSE IF call = Disconnected THEN "DISCONNECTED"
    ELSE state[t]

\* _decode_to_native and the unpackers: an S5F1 is read as a list only.
Reads(kind, shape) ==
    shape = "list" \/ (shape = "named" /\ kind = "S6F11")

\* _on_s6f11, _on_s5f1: a frame is decoded and handed to ingest, or dropped.
Receive(t, call) ==
    \E shape \in Shapes :
        IF Reads(call.kind, shape)
        THEN /\ heard' = [heard EXCEPT ![t][call.kind] = call.hot]
             /\ UNCHANGED arrives
        ELSE /\ arrives' = [arrives EXCEPT ![t][call.kind] =
                               @ /\ Carries(Tail(calls[t]), call.kind)]
             /\ UNCHANGED heard

\* secsgem's thread makes the next call of a session, frames in their order.
Callback(t) ==
    /\ host # "off" /\ calls[t] # <<>>
    /\ LET call == Head(calls[t]) IN
       /\ state' = [state EXCEPT ![t] = NewState(t, call)]
       /\ IF call = Connected
          THEN /\ setups' = [setups EXCEPT ![t] = Append(@, 0)]
               /\ failed' = [failed EXCEPT ![t] = Append(@, {})]
               /\ blind' = [blind EXCEPT ![t] = Append(@, {})]
          ELSE UNCHANGED setupVars
       /\ IF call.kind \in Kinds
          THEN Receive(t, call) ELSE UNCHANGED <<heard, arrives>>
    /\ calls' = [calls EXCEPT ![t] = Tail(@)]
    /\ UNCHANGED <<scenarioVars, equipmentVars, link, connects, host, handler,
                   dialing, faults>>

\* _setup_event_reports of the n-th connection begins, in a thread of its own;
\* it ends at once on a session that is stopped.
BeginSetup(t, n) ==
    /\ n \in DOMAIN setups[t] /\ setups[t][n] = 0
    /\ setups' = [setups EXCEPT ![t][n] = IF handler[t] = "set" THEN 1 ELSE Ended]
    /\ UNCHANGED <<scenarioVars, equipmentVars, linkVars, host, handler, dialing,
                   state, failed, blind, heard, arrives, faults>>

\* The subscription raised, or it did not and nobody looked at the answer.
Fails(t, n, ceid) ==
    failed' = [failed EXCEPT ![t][n] = @ \cup {ceid}] /\ UNCHANGED blind
Passes(t, n, ceid) ==
    blind' = [blind EXCEPT ![t][n] = @ \cup {ceid}] /\ UNCHANGED failed

\* Mutant: no answer in time counts as consent.
Unanswered_Ok(t, n, ceid) ==
    /\ link[t] => Fault(1)
    /\ ~link[t] => UNCHANGED faults
    /\ UNCHANGED <<programmed, failed, blind>>

\* The request or its answer is lost: for a bare CEID that raises, within
\* secsgem's subscribe_collection_event it may pass.
Unanswered(t, n, ceid) ==
    /\ link[t] => Fault(1)
    /\ ~link[t] => UNCHANGED faults
    /\ programmed' \in IF link[t]
                       THEN {programmed, [programmed EXCEPT ![t] = @ \cup {ceid}]}
                       ELSE {programmed}
    /\ Fails(t, n, ceid) \/ (ceid \notin Bare /\ Passes(t, n, ceid))

\* The equipment says no, which no one reads.
Declined(t, n, ceid) ==
    /\ link[t] /\ Fault(1)
    /\ Passes(t, n, ceid)
    /\ UNCHANGED programmed

Accepted(t, ceid) ==
    /\ link[t]
    /\ programmed' = [programmed EXCEPT ![t] = @ \cup {ceid}]
    /\ UNCHANGED <<failed, blind, faults>>

\* _send_define_report_sync, one CEID.  _enable_ceid_only looks at the
\* session's handler again: without one it does nothing, which counts as done.
Subscribe(t, n) ==
    /\ n \in DOMAIN setups[t] /\ setups[t][n] \in DOMAIN Ceids
    /\ LET ceid == Ceids[setups[t][n]] IN
       IF ceid \in Bare /\ handler[t] # "set"
       THEN UNCHANGED <<programmed, failed, blind, faults>>
       ELSE Accepted(t, ceid) \/ Unanswered(t, n, ceid) \/ Declined(t, n, ceid)
    /\ setups' = [setups EXCEPT ![t][n] = @ + 1]
    /\ UNCHANGED <<scenarioVars, eq, latch, linkVars, host, handler, dialing,
                   state, heard, arrives>>

\* GemHostAdapter.stop: every session forgets its handler, then disables it.
HostStops ==
    /\ host = "up"
    /\ host' = "stopping"
    /\ handler' = [t \in Tools |->
                      IF handler[t] = "set" THEN "disabling" ELSE handler[t]]
    /\ UNCHANGED <<scenarioVars, equipmentVars, linkVars, dialing, state, setupVars,
                   heard, arrives, faults>>

\* disable() returns or raises: what was due still calls back.
Disabled(t) ==
    /\ handler[t] = "disabling"
    /\ handler' = [handler EXCEPT ![t] = "none"]
    /\ dialing' = [dialing EXCEPT ![t] = FALSE]
    /\ state' = [state EXCEPT ![t] = "STOPPED"]
    /\ link' = [link EXCEPT ![t] = FALSE]
    /\ IF link[t]
       THEN \E n \in 0..Len(calls[t]) :
              /\ Survive(t, n)
              /\ calls' = [calls EXCEPT ![t] = AfterBreak(t, n)]
              /\ arrives' = [arrives EXCEPT ![t] =
                                [k \in Kinds |-> Arriving(t, n, k)]]
       ELSE UNCHANGED <<calls, arrives>>
    /\ UNCHANGED <<scenarioVars, equipmentVars, connects, host, setupVars, heard,
                   faults>>

\* The process ends, after its shutdown or before: the next one has heard
\* nothing yet.
HostEnds ==
    /\ host # "off"
    /\ IF host = "stopping" /\ \A t \in Tools : handler[t] = "none"
       THEN UNCHANGED faults ELSE Fault(1)
    /\ host' = "off"
    /\ handler' = [t \in Tools |-> "none"]
    /\ dialing' = [t \in Tools |-> FALSE]
    /\ state' = [t \in Tools |-> "STOPPED"]
    /\ setups' = [t \in Tools |-> <<>>]
    /\ failed' = [t \in Tools |-> <<>>]
    /\ blind' = [t \in Tools |-> <<>>]
    /\ link' = [t \in Tools |-> FALSE]
    /\ calls' = [t \in Tools |-> <<>>]
    /\ heard' = [t \in Tools |-> [k \in Kinds |-> FALSE]]
    /\ arrives' = [t \in Tools |-> [k \in Kinds |-> ~over[t]]]
    /\ UNCHANGED <<scenarioVars, equipmentVars, connects>>

-----------------------------------------------------------------------------
Ticks(due) == \E t \in Tools : Tick(t, due)

Next ==
    \/ SimBoots \/ SimEnds \/ Ticks(TRUE) \/ Ticks(FALSE)
    \/ HostBoots \/ HostStops \/ HostEnds
    \/ \E t \in Tools :
          \/ Connect(t) \/ Break(t)
          \/ Callback(t) \/ Disabled(t)
          \/ \E n \in 1..MaxConnects : BeginSetup(t, n) \/ Subscribe(t, n)

Spec == Init /\ [][Next]_vars

-----------------------------------------------------------------------------
(* Properties                                                              *)

\* /readyz answers 200.
Ready ==
    /\ host = "up"
    /\ TailerToo \/ \A t \in Tools : state[t] = "SELECTED"

\* Every variable has its type.
TypeOK ==
    /\ ScenarioTypeOK
    /\ eq \in [Tools -> {"off", "failed", "sampling"}]
    /\ latch \in [Tools -> BOOLEAN]
    /\ programmed \in [Tools -> SUBSET AllCeids]
    /\ link \in [Tools -> BOOLEAN]
    /\ \A t \in Tools : \A i \in DOMAIN calls[t] :
          calls[t][i] \in Frames \cup {Connected, Disconnected}
    /\ connects \in [Tools -> 0..MaxConnects]
    /\ host \in {"off", "up", "stopping"}
    /\ handler \in [Tools -> {"none", "set", "disabling"}]
    /\ dialing \in [Tools -> BOOLEAN]
    /\ state \in [Tools -> States]
    /\ \A t \in Tools :
          /\ DOMAIN setups[t] = DOMAIN failed[t] /\ DOMAIN setups[t] = DOMAIN blind[t]
          /\ \A n \in DOMAIN setups[t] :
                /\ setups[t][n] \in 0..Ended
                /\ failed[t][n] \subseteq AllCeids /\ blind[t][n] \subseteq AllCeids
    /\ heard \in [Tools -> [Kinds -> BOOLEAN]]
    /\ arrives \in [Tools -> [Kinds -> BOOLEAN]]
    /\ faults \in 0..MaxFaults

\* A session that shows SELECTED has its connection or is about to be called for
\* its loss, a late call after stop() included; once no call is due, SELECTED and
\* connected are the same (session.py:140, 340).  So a host that is ready by its
\* sessions has lost none of them without knowing soon.
SessionStateIsTrue ==
    /\ \A t \in Tools :
          /\ state[t] = "SELECTED" => link[t] \/ Disconnected \in
                 {calls[t][i] : i \in DOMAIN calls[t]}
          /\ calls[t] = <<>> => (state[t] = "SELECTED" <=> link[t])
    /\ (Ready /\ ~TailerToo /\ \A t \in Tools : calls[t] = <<>>) =>
          \A t \in Tools : link[t]

\* When no call of a kind is due and the last one of that kind was neither lost
\* nor one the host cannot read, the host was told what is true of the tool: by
\* samples and, though only changes are sent, by alarm reports
\* (equipment_session.py:370, session.py:216).
HostHearsTheTool ==
    \A t \in Tools, k \in Kinds :
        (arrives[t][k] /\ ~Carries(calls[t], k)) => heard[t][k] = over[t]

\* When the last setup of a connected tool is over, the tool reports every CEID
\* but those the setup counts as failed and those it counts as done without the
\* tool's consent, also when setups overlapped or the tool has started anew
\* (session.py:358, 443).
SettledMeansProgrammed ==
    \A t \in Tools :
        LET n == Len(setups[t]) IN
        (/\ link[t] /\ calls[t] = <<>> /\ handler[t] = "set" /\ n > 0
         /\ setups[t][n] = Ended) =>
            AllCeids \subseteq programmed[t] \cup failed[t][n] \cup blind[t][n]
=============================================================================
