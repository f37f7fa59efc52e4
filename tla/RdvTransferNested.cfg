CONSTANTS
  MaxOp = 4
  DeferredRead = FALSE
  OtherRequests = FALSE
  NewRequests = TRUE
SPECIFICATION Spec
INVARIANTS
  BufferContent
