------------------------------ MODULE MCRecompute ------------------------------
(* The scheduler and the runner, and what a plan is computed by: pure, so TLC *)
(* evaluates it once for all inputs, and its properties where there is a plan. *)
EXTENDS RecomputeScheduler, MRPSimulation

\* Whatever its inputs were, a plan in the log rests on a walk that balances.
PlansBalance == Plans # {} => WalkIsBalance

\* Whatever its inputs were, the order a plan in the log suggests is in time and
\* enough for the first day that needs it.
PlansSuggestInTime == Plans # {} => SuggestionHolds
=============================================================================
