SPECIFICATION Spec
CONSTANTS
  AreaGoals = {a1, a2}
  DockGoals = {}
  NoGoal = NoGoal
  MaxPoints = 3
  OneAtATime = FALSE
  Timeouts = FALSE
INVARIANTS
  SavedAreaIsOwn
CHECK_DEADLOCK FALSE
