SPECIFICATION FairSpec
CONSTANTS
  Builds <- AllBuilds
  MaxOp = 4
INVARIANT TypeOK
INVARIANT SafeBufferContent
INVARIANT SendBufferReturned
INVARIANT NoOvertaking
PROPERTY MatchedOperationsComplete
CHECK_DEADLOCK FALSE
