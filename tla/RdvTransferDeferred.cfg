CONSTANTS
  MaxOp = 4
  DeferredRead = TRUE
  OtherRequests = TRUE
  NewRequests = FALSE
SPECIFICATION Spec
INVARIANTS
  BufferContent
