CONSTANTS
  Modes <- MCModes
  MaxFailures = 2
SPECIFICATION ProcessFairSpec
CHECK_DEADLOCK FALSE
INVARIANTS Unwound DependenciesOutlive
PROPERTY ShutdownEnds
