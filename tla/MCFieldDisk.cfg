SPECIFICATION FieldSpec
CONSTANTS
  Areas <- MCAreas
  Stations <- MCStations
  Faults = {"disk"}
  Padding = 10
  RobotRadiusSquared = 23
  CellRadius = 5
  MaxGridSize = 18
  RingDepths = {0, 1}
  MainlandDepth = 1
INVARIANTS
  SuccessIsPersisted
