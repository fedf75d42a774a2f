CONSTANTS
  BufferSize = 3
  WriteSizes = {1, 3, 4}
  MaxBytes = 8
  MaxWire = 8
SPECIFICATION Spec
INVARIANTS
  NothingLost
  OnceInOrder
CHECK_DEADLOCK FALSE
