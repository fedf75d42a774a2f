CONSTANTS
  BufferSize = 2
  ReadSizes = {0, 1, 2, 3, 4}
  SegSizes = {1, 2, 3}
  MBOX_SIZE = 2
  MaxBytes = 6
  WordSize = 16
SPECIFICATION Spec
INVARIANTS
  OnePieceExact
PROPERTIES
  InOrder
CHECK_DEADLOCK FALSE
