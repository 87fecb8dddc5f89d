SPECIFICATION Spec
CONSTANTS
  NaN = NaN
  Word = 12
  Chunk = 4
  Round = 2
  MaxBytes = 3
  SomeBytes = {{}, {0}, {7}, {0, 2, 5, 7}}
  MaxRecords = 3
  Lens = {1, 2, 3}
  MaxPoints = 5
  Times = {0, 1, 2, 3, 4, 5, 6, 7, 8}
  Values <- SomeValues
  Queries <- SomeQueries
INVARIANTS
  CrcMatchesReference
  DownloadIsImage
  RawIsRight
CHECK_DEADLOCK FALSE
