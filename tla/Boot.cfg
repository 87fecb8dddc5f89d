SPECIFICATION FairSpec
CONSTANTS
  None = None
  Versions <- TwoVersions
  MaxChanges = 1
  MaxReloads = 1
  MaxFlight = 1
INVARIANTS
  TypeOK
  
PROPERTIES
  NoVainDownload
  ReloadsFiles
CHECK_DEADLOCK FALSE
