SPECIFICATION FairSpec
CONSTANTS
  Deployments <- Overtaken
  MaxOp = 3
INVARIANT Agreement
CHECK_DEADLOCK FALSE
