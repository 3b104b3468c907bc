------------------------------ MODULE HeldTool ------------------------------
(***************************************************************************)
(* What a MachineActor promises the rest of the system, without its        *)
(* mailbox, its threads, its store or its failures: a tool is in one       *)
(* state, moved one transition at a time by its sensors or by an operator, *)
(* and an operator may hold it, which leaves sensors only the way into     *)
(* ALARM (machine_actor.py, the comments on _operator_hold).               *)
(*                                                                         *)
(* A hold can also be dropped without a transition: by an ALARM-class      *)
(* sample of a tool already in ALARM, by the failed append of one, and by  *)
(* a restart, which rehydrates the state and not the hold.                 *)
(***************************************************************************)
EXTENDS StateMachine

VARIABLES
    st,      \* the state the event log gives the tool
    held     \* the state an operator holds it in, or NoState

Init == st = UNKNOWN /\ held = NoState

SensorMoves(to) ==
    /\ to # st
    /\ held = NoState \/ to = ALARM
    /\ st' = to
    /\ held' = NoState

\* START, RESUME and RESET release; STOP, PAUSE and ABORT hold.
OperatorMoves(to) ==
    /\ to # st
    /\ st' = to
    /\ held' = IF to = RUN THEN NoState ELSE to

LoseHold == held # NoState /\ held' = NoState /\ UNCHANGED st

Next ==
    \/ \E to \in {RUN, IDLE, ALARM} : SensorMoves(to) \/ OperatorMoves(to)
    \/ LoseHold

Spec == Init /\ [][Next]_<<st, held>>
=============================================================================
