CONSTANTS
  jobA = jobA
  jobB = jobB
  None = None
  Standalone = Standalone
  Jobs <- MCJobs
  RunIds <- MCRunIds
  MaxWork = 1
  MaxSteps = 1
  OperatorVerdicts = {"stopped", "completed"}
  ModelProposals = {"ready", "completed"}
  Parties = {"goals", "initiative", "triggers", "tasks"}
SYMMETRY JobSymmetry
SPECIFICATION Spec
CHECK_DEADLOCK FALSE
INVARIANTS
  LiveRunsOwned
PROPERTIES
  LedgerSpec
  EndingsKept
