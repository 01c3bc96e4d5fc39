SPECIFICATION MCSpec
CONSTANTS
  Names <- ConfigNames
  Config <- Configurations
  OwnBranches = {"GPUJPEG", "JKQtPlotter"}
  Orders <- MCOrders
  Worlds <- MCWorlds
  MaxRuns = 1
  StopsInSave = FALSE
INVARIANTS
  AllThatCanBeIsMade
  RoundsFollowLevels
CHECK_DEADLOCK FALSE
