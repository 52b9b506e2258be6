SPECIFICATION FairSpec
CONSTANTS
  GoalIds = {g1}
  MaxSegments = 1
  kMaxActionRetries = 1
  BatteryReadings = {30, 95}
  BatteryLow = 30
  BatteryCharged = 95
  Autostart = TRUE
  TargetConfigured = TRUE
  Lossy = {"coverage"}
  LateResults = FALSE
PROPERTIES
  CoverageIsRequestedAgain
CHECK_DEADLOCK FALSE
