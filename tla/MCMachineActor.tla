--------------------------- MODULE MCMachineActor ---------------------------
(* TLC instance of MachineActor: clicks are interchangeable.               *)
EXTENDS MachineActor, TLC

ClickSymmetry == Permutations(Clicks)
=============================================================================
