SPECIFICATION Spec
CONSTANTS
  Plans <- MCPlans
  Positions = {0, 2, 4, 5, 16, 18}
  MaxPoses = 6
  MaxSwaths = 4
INVARIANTS
  SwathsStayWhole
  NoJumpInside
  WholeSegmentsStay
  SomethingToMow
  NoSpikeLeft
CHECK_DEADLOCK FALSE
