SPECIFICATION FairSpec
CONSTANTS
  MaxOp = 4
  DeferredRead = FALSE
  OtherRequests = TRUE
  NewRequests = FALSE
INVARIANTS
  TypeOK
  IInv
  BufferContent
  SendBufferReturned
  RecvBufferReturned
  NoFlagRace
  NoHandleLost
  OneMover
  NothingOutstanding
PROPERTIES
  FlagsMonotone
  ImplementsChannel
  ImplementsFairChannel
