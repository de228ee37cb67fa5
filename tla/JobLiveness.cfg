CONSTANTS
  jobA = jobA
  jobB = jobB
  None = None
  Standalone = Standalone
  Jobs <- MCJobs
  RunIds <- MCRunIds
  MaxWork = 1
  MaxSteps = 1
  OperatorVerdicts = {"stopped"}
  ModelProposals = {"completed", "delay"}
  Parties = {"triggers"}
SPECIFICATION FairSpec
CHECK_DEADLOCK FALSE
PROPERTIES
  FinisherAnswered
  StopEnds
