SPECIFICATION SimMissionSpec
CONSTANTS
  GoalIds = {g1, g2}
  MaxSegments = 1
  kMaxActionRetries = 1
  BatteryReadings <- MCReadings
  BatteryLow = 30
  BatteryCharged = 95
  Autostart = TRUE
  TargetConfigured = TRUE
  Lossy = {}
  LateResults = FALSE
  Ports <- MCPorts
  ToleranceX = 20
  ToleranceY = 12
  MinVoltage = 217
  MaxVoltage = 287
  InitialVoltage = 287
  LowestVoltage = 212
  Drop = 25
  Charge = 25
  Elapsed = {0, 1, 2}
INVARIANTS
  ChargingIsReal
PROPERTIES
  ChargingEnds
CHECK_DEADLOCK FALSE
