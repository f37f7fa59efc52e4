SPECIFICATION FairSpec
CONSTANTS
  Deployments <- LateStart
  MaxOp = 1
PROPERTY StartedOperationsComplete
CHECK_DEADLOCK FALSE
