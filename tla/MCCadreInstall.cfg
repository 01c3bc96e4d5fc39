SPECIFICATION FairSpec
CONSTANTS
  Names <- MCNames
  Config <- MCConfig
  OwnBranches = {"gf_orb_slam2"}
  Orders <- MCOrders
  Worlds <- MCWorlds
  MaxRuns = 2
  StopsInSave = FALSE
INVARIANTS
  LogsAgree
  MadeMeansSucceeded
  DoneIsFixpoint
  FailureIsExplained
PROPERTIES
  Ends
CHECK_DEADLOCK FALSE
