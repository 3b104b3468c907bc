------------------------------- MODULE Scenario -------------------------------
(***************************************************************************)
(* ScenarioCoordinator and the sensors it drives: the story the simulator   *)
(* tells, one machine at a time drifting into an alarm and out of it.       *)
(*                                                                         *)
(* Time is left out: a deadline of the coordinator has passed or not when   *)
(* it looks at its clock.  Every deadline it sets lies in the future, so    *)
(* one look passes at most one, whatever its `while` loop is for.           *)
(*                                                                         *)
(* Of a sensor there is its primary metric: "cool" is a value whose noise   *)
(* and spikes stay below the threshold, "hot" one whose noise stays above,  *)
(* and at the "edge" each reading may fall on either side.                  *)
(***************************************************************************)
EXTENDS Naturals, FiniteSets

CONSTANTS
    Machines,    \* machine ids
    Profiles,    \* those of MACHINE_PROFILES
    NoVictim     \* no machine: None

ASSUME ScenarioAssumption ==
    /\ Profiles \subseteq Machines
    /\ NoVictim \notin Machines

VARIABLES
    known,    \* the keys of _states
    victim,   \* _active_victim
    phase,    \* phase of each machine
    target,   \* where its primary metric drifts: "baseline" or "peak"
    level,    \* where that metric is
    over      \* SensorState: the last reading reached the threshold

scenarioVars == <<known, victim, phase, target, level, over>>

Phases == {"NORMAL", "DEGRADING", "ALARMED", "RECOVERING"}
Levels == {"cool", "edge", "hot"}

ScenarioInit ==
    /\ known = Profiles
    /\ victim = NoVictim
    /\ phase = [m \in Machines |-> "NORMAL"]
    /\ target = [m \in Machines |-> "baseline"]
    /\ level = [m \in Machines |-> "cool"]
    /\ over = [m \in Machines |-> FALSE]

\* A simulator process that starts anew.
ScenarioReset ==
    /\ known' = Profiles
    /\ victim' = NoVictim
    /\ phase' = [m \in Machines |-> "NORMAL"]
    /\ target' = [m \in Machines |-> "baseline"]
    /\ level' = [m \in Machines |-> "cool"]
    /\ over' = [m \in Machines |-> FALSE]

-----------------------------------------------------------------------------
(* ScenarioCoordinator                                                     *)

\* Any NORMAL machine; with none of them the clock is set forward.
StartNewScenario ==
    IF \A m \in known : phase[m] # "NORMAL"
    THEN UNCHANGED <<victim, phase, target>>
    ELSE \E m \in known :
            /\ phase[m] = "NORMAL"
            /\ victim' = m
            /\ phase' = [phase EXCEPT ![m] = "DEGRADING"]
            /\ target' = [target EXCEPT ![m] = "peak"]

\* _enter_alarmed, _enter_recovering, _enter_normal
Following(p) ==
    CASE p = "DEGRADING"  -> "ALARMED"
      [] p = "ALARMED"    -> "RECOVERING"
      [] p = "RECOVERING" -> "NORMAL"

AdvancePhase ==
    LET next == Following(phase[victim]) IN
    /\ phase' = [phase EXCEPT ![victim] = next]
    /\ target' = [target EXCEPT ![victim] =
                     IF next = "ALARMED" THEN "peak" ELSE "baseline"]
    /\ victim' = IF next = "NORMAL" THEN NoVictim ELSE victim

\* _advance_clock; due: the deadline it looks at has passed.
AdvanceClock(due) ==
    IF ~due
    THEN UNCHANGED <<victim, phase, target>>
    ELSE IF victim # NoVictim THEN AdvancePhase ELSE StartNewScenario

-----------------------------------------------------------------------------
(* update_sensor                                                           *)

\* One tick of drift, towards the target.
Drifted(from, to) ==
    IF to = "peak"
    THEN CASE from = "cool" -> {"cool", "edge"} [] OTHER -> {from, "hot"}
    ELSE CASE from = "hot"  -> {"hot", "edge"}  [] OTHER -> {from, "cool"}

Readings(at) ==
    CASE at = "cool" -> {FALSE} [] at = "edge" -> BOOLEAN [] at = "hot" -> {TRUE}

\* An unknown machine gets a profile, and can be a victim from then on.
update_sensor(m, due) ==
    /\ AdvanceClock(due)
    /\ known' = known \cup {m}
    /\ \E to \in Drifted(level[m], target'[m]) :
          /\ level' = [level EXCEPT ![m] = to]
          /\ \E reads \in Readings(to) : over' = [over EXCEPT ![m] = reads]

-----------------------------------------------------------------------------
ScenarioTypeOK ==
    /\ known \in SUBSET Machines
    /\ victim \in known \cup {NoVictim}
    /\ phase \in [Machines -> Phases]
    /\ target \in [Machines -> {"baseline", "peak"}]
    /\ level \in [Machines -> Levels]
    /\ over \in [Machines -> BOOLEAN]

\* At most one machine is away from NORMAL and it is the coordinator's victim:
\* "only one active victim at a time" (adapter.py:45).  Only it is driven to its
\* peak, and not any more once it recovers.
OneStoryAtATime ==
    /\ \A m \in Machines : phase[m] # "NORMAL" <=> m = victim
    /\ \A m \in Machines :
          target[m] = "peak" <=> phase[m] \in {"DEGRADING", "ALARMED"}
=============================================================================
