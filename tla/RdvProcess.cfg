SPECIFICATION FairSpec
CONSTANTS
  Process = {"P", "Q", "T"}
  Deployments <- WorkingApplications
INVARIANTS
  TypeOK
  PartnersPaired
  AssertionsHold
  HandshakesSettled
PROPERTIES
  ReceivesItsMessage
  ImplementsMpi
