SPECIFICATION Spec
CONSTANTS
  o1 = o1
  o2 = o2
  a1 = a1
  a2 = a2
  a3 = a3
  Operators <- MCOperators
  Autonomous <- MCAutonomous
  MaxJobEpisodes = 2
  MaxEpisodes = 5
INVARIANTS
  LaneExclusion
  EpisodeOwned
  WaitsForOperator
PROPERTIES
  OperatorPriority
