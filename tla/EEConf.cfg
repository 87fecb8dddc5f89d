SPECIFICATION FairSpec
CONSTANTS
  Sketches <- AllSketches
  Found = {"one", "two"}
  MaxLosses = 4
INVARIANTS
  TypeOK
  OneLossIsHarmless
  ResetProtects
  SavedAtRest
PROPERTIES
  ComesUp
CHECK_DEADLOCK FALSE
