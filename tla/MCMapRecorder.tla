---------------------------- MODULE MCMapRecorder ----------------------------
(* What the large run of MapRecorder tells states apart by.                *)
EXTENDS MapRecorder

\* What the areas saved hold does not influence any step, and of the points
\* only how many there are, and of the last area goal only that there is one:
\* the run that says nothing of their contents leaves them out of its states.
WithoutPoints ==
  <<handle, pc, is_recording_area, is_charging_detected, auto_recording_mode,
    docking_goal_handle, area_boundary_goal_handle = NoGoal, services, Len(current_boundary_points), drive, drive_cancel,
    save, seen_charging, undefined>>

=============================================================================
