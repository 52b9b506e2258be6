SPECIFICATION Spec
CONSTANTS
  GoalIds = {g1, g2}
  MaxSegments = 1
  kMaxActionRetries = 2
  BatteryReadings = {30, 95}
  BatteryLow = 30
  BatteryCharged = 95
  Autostart = TRUE
  TargetConfigured = TRUE
  Lossy = {"coverage", "navigate", "follow", "dock"}
  LateResults = TRUE
SYMMETRY GoalSymmetry
INVARIANTS
  CoverageOnlyWhileRequesting
  OneDockGoal
  NeverStalls
CHECK_DEADLOCK FALSE
