SPECIFICATION FairSpec
CONSTANTS
  Deployments <- EarlyPayload
  MaxOp = 1
PROPERTY StartedOperationsComplete
CHECK_DEADLOCK FALSE
