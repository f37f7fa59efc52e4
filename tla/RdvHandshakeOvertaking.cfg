SPECIFICATION FairSpec
CONSTANTS
  Deployments <- Overtaking
  MaxOp = 1
PROPERTY StartedOperationsComplete
CHECK_DEADLOCK FALSE
