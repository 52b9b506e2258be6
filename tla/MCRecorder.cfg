SPECIFICATION Spec
CONSTANTS
  AreaGoals = {a1, a2}
  DockGoals = {k1}
  NoGoal = NoGoal
  MaxPoints = 3
  OneAtATime = FALSE
  Timeouts = TRUE
INVARIANTS
  TypeOK
  NeverBlocked
  NoChargeNoDock
  SuccessMeansSaved
  EndedMeansStopped
PROPERTIES
  ImplementsLifecycle
VIEW WithoutPoints
CHECK_DEADLOCK FALSE
