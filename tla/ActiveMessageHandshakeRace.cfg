SPECIFICATION FairSpec
CONSTANTS
  Deployments <- LateId
  MaxOp = 3
INVARIANT Agreement
CHECK_DEADLOCK FALSE
