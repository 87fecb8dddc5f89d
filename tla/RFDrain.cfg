SPECIFICATION FairSpec
CONSTANTS
  s1 = s1
  s2 = s2
  None = None
  Publisher = Publisher
  Subs <- OneSub
  StartAts = {0}
  Ticks = {1}
  Cap = 1
  MaxMsgs = 3
  MayFail <- OneSub
PROPERTIES
  DrainUnblocksSender
CHECK_DEADLOCK FALSE
