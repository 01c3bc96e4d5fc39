SPECIFICATION Spec
CONSTANTS
  Names <- MCNames
  Config <- MCConfig
  OwnBranches = {"gf_orb_slam2"}
  Orders <- MCOrders
  Worlds <- MCWorlds
  MaxRuns = 2
  StopsInSave = TRUE
INVARIANTS
  TypeOK
  DependenciesMade
  WorksOnMade
  RecordIsCurrent
  MadeFromSources
PROPERTIES
  NeverForgotten
  ImplementsOrder
CHECK_DEADLOCK FALSE
