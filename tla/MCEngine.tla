------------------------------ MODULE MCEngine ------------------------------
(***************************************************************************)
(* Small instances of Engine for TLC: programs, and the symmetry of the    *)
(* safety run.                                                             *)
(***************************************************************************)
EXTENDS EngineRefinement, TLC

OneTimer == <<"timer">>
StepThenTimer == <<"step", "timer">>
TimerThenTimer == <<"timer", "timer">>
StepSuspendTimer == <<"step", "suspend", "timer">>

Interchangeable ==
  Permutations(Instance) \cup Permutations(Task) \cup Permutations(Signaller)
    \cup Permutations(Value)
=============================================================================
