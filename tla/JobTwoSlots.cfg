CONSTANTS
  jobA = jobA
  jobB = jobB
  None = None
  Standalone = Standalone
  Jobs <- MCJobs
  RunIds <- MCRunIds
  MaxWork = 2
  MaxSteps = 1
  OperatorVerdicts = {"stopped"}
  ModelProposals = {"event"}
  Parties = {"triggers", "catalog"}
SYMMETRY JobSymmetry
SPECIFICATION Spec
CHECK_DEADLOCK FALSE
INVARIANTS
  WorkHoldsAttention
  ParkedAtRest
PROPERTIES
  AutomaticWorkAuthorized
