SPECIFICATION FairSpec
CONSTANTS
  s1 = s1
  s2 = s2
  None = None
  Publisher = Publisher
  Subs <- TwoSubs
  StartAts = {0, 3}
  Ticks = {1}
  Cap = 1
  MaxMsgs = 3
  MayFail <- Nobody
PROPERTIES
  EveryMessageArrives
CHECK_DEADLOCK FALSE
