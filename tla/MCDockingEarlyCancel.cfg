SPECIFICATION Spec
CONSTANTS
  NearestGoals = {n1}
  ToGoals = {t1}
  Stations = {d1}
  NoStation = NoStation
INVARIANTS
  CanceledMeansNav2Canceled
CHECK_DEADLOCK FALSE
