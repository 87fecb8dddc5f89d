SPECIFICATION Spec
CONSTANTS
  n1 = n1
  n2 = n2
  None = None
  Nodes <- TwoNodes
  Hears <- OneWay
  NetPkt = 2
  RetryMax = 3
  RetryMs = 0
  ClockMod = 1
  Gaps = {0}
  Prompt = FALSE
  MaxPkts = 2
  MaxReqs = 0
  MaxFlight = 1
INVARIANTS
  TypeOK
  CountsTheFirst
  QueueInOrder
  NoneLeavesUnsent
  ArriveInOrder
CHECK_DEADLOCK FALSE
