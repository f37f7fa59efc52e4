SPECIFICATION Spec
CONSTANTS
  Builds <- EarlyWait
  MaxOp = 4
INVARIANT BufferContent
