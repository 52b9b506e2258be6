-------------------------- MODULE MCMissionManager --------------------------
(* Model values and symmetry for the runs of MissionManager.               *)
EXTENDS MissionManager, TLC

\* The slots are interchangeable (safety runs only).
GoalSymmetry == Permutations(GoalIds)

=============================================================================
