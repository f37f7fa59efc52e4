SPECIFICATION FairSpec
CONSTANTS
  Process = {"P", "Q", "T"}
  Deployments <- BothDirections
PROPERTIES
  ImplementsMpi
CHECK_DEADLOCK FALSE
