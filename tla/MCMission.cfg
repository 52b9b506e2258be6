SPECIFICATION FairSpec
CONSTANTS
  GoalIds = {g1, g2}
  MaxSegments = 2
  kMaxActionRetries = 3
  BatteryReadings = {30, 95}
  BatteryLow = 30
  BatteryCharged = 95
  Autostart = TRUE
  TargetConfigured = TRUE
  Lossy = {}
  LateResults = FALSE
INVARIANTS
  TypeOK
  OneDriver
  MowedInOrder
  NothingDrivesAgainstTheDock
  RetryCap
PROPERTIES
  ImplementsMission
  MowingEnds
  DockingEnds
  CoverageIsRequestedAgain
CHECK_DEADLOCK FALSE
