SPECIFICATION FairSpec
CONSTANTS
  Deployments <- WorkingDeployments
  MaxOp = 3
INVARIANT TypeOK
INVARIANT Agreement
INVARIANT AddressesExchanged
INVARIANT ConnectsIfPossible
INVARIANT PayloadReceived
INVARIANT FirstSendMatched
PROPERTY StartedOperationsComplete
