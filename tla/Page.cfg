CONSTANTS
  SecondDays = {0, 10957}
  LastDay = 146100
  Bits = 8
  Digits = 3
  MaxText = 4
  ChunkSize = 2
  WriteSizes = {0, 1, 2, 3, 5}
  MaxBytes = 7
  MaxChunks = 3
SPECIFICATION MCSpec
INVARIANTS
  DateRight
  TextRight
  ParseRight
  LengthRight
  SmallBodySafe
  AllFreed
CHECK_DEADLOCK FALSE
