SPECIFICATION FairSpec
CONSTANTS
  NearestGoals = {n1}
  ToGoals = {t1}
  Stations = {d1, d2}
  NoStation = NoStation
INVARIANTS
  TypeOK
  NoGoalLeftBehind
  ResultIsNav2s
PROPERTIES
  ImplementsLifecycle
  EndsWithNav2
  CancelIsAnswered
CHECK_DEADLOCK FALSE
