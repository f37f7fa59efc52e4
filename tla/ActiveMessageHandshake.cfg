SPECIFICATION FairSpec
CONSTANTS
  Deployments <- AllDeployments
  MaxOp = 3
INVARIANT TypeOK
INVARIANT TimelyAgreement
INVARIANT HandlerKnown
INVARIANT PayloadReceived
PROPERTY StartedOperationsComplete
CHECK_DEADLOCK FALSE
