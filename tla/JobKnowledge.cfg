CONSTANTS
  None = None
  before = before
  after = after
  Definitions <- MCDefinitions
  MaxRuns = 2
  MaxVersions = 2
  MaxRetained = 2
SPECIFICATION Spec
INVARIANTS
  GuidanceReviewed
  KnowledgeWithOutcome
PROPERTIES
  ShownStays
SYMMETRY DefinitionSymmetry
