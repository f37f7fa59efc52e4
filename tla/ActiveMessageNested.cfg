SPECIFICATION Spec
CONSTANTS
  Builds <- NestedProgress
  MaxOp = 4
INVARIANT BufferContent
