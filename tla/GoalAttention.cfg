CONSTANTS
  o1 = o1
  o2 = o2
  w1 = w1
  w2 = w2
  Operators <- MCOperators
  JobWorkers <- MCJobWorkers
  Purposes = {1, 2}
  MaxGoals = 2
  MaxFollowups = 2
  MaxReleases = 1
SYMMETRY Symmetry
SPECIFICATION Spec
CHECK_DEADLOCK FALSE
INVARIANTS
  FollowupHasItsGoal
PROPERTIES
  DueOfferedAgain
  DeliveredOnce
  DecisionsKeepTheirGoal
