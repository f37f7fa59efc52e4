CONSTANTS
  Programs <- AllPrograms
  Builds <- BothBuilds
SPECIFICATION FairSpec
INVARIANTS
  TypeOK
  NothingSkipped
  ReportsReachable
  RequestsKeepLibrary
PROPERTIES
  WalksEnd
