CONSTANTS
  Criteria = 3
  MaxIterations = 2
  MaxUserTurns = 1
SPECIFICATION FairSpec
INVARIANTS TypeOK SomeoneMoves ToldOnce
PROPERTIES CourseSpec GoalEnds
CHECK_DEADLOCK FALSE
