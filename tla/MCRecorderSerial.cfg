SPECIFICATION FairSpec
CONSTANTS
  AreaGoals = {a1, a2}
  DockGoals = {k1}
  NoGoal = NoGoal
  MaxPoints = 3
  OneAtATime = TRUE
  Timeouts = TRUE
INVARIANTS
  SavedAreaIsOwn
PROPERTIES
  DockingRecordingEnds
  CancelEnds
CHECK_DEADLOCK FALSE
