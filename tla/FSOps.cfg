SPECIFICATION Spec
CONSTANTS
  Calls = {1, 2, 3}
  MaxGens = 3
  MaxDialFails = 1
  MaxTimeouts = 1
  Carries = TRUE
  None = None
  Dir = Dir
  Old = Old
  Mixed = Mixed
  Paths <- MCPaths
  CatalogOps <- MCOps
  Scenarios <- MCScenarios
INVARIANTS
  LostOnlyToOverlap
  NoopOnlyInOutage
  LinksAreWhole
  ForksReleased
  HonestResult
PROPERTY NilMeansDone
CHECK_DEADLOCK FALSE
