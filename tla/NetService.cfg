SPECIFICATION FairSpec
CONSTANTS
  n1 = n1
  n2 = n2
  None = None
  Nodes <- OneNode
  Hears <- Nowhere
  NetPkt = 2
  RetryMax = 3
  RetryMs = 2
  ClockMod = 4
  Gaps = {1}
  Prompt = TRUE
  MaxPkts = 3
  MaxReqs = 1
  MaxFlight = 2
PROPERTIES
  ImplementsService
  AckMeansReceived
  QueueDrains
CHECK_DEADLOCK FALSE
