SPECIFICATION Spec
CONSTANTS
  s1 = s1
  s2 = s2
  None = None
  Publisher = Publisher
  Subs <- TwoSubs
  StartAts = {0, 4, 9}
  Ticks = {1}
  Cap = 1
  MaxMsgs = 4
  MayFail <- TwoSubs
INVARIANTS
  TypeOK
  NoSendOnClosed
  ListsParallel
  MutexMatchesFlags
  NoGap
  AtMostOneRepeat

  
SYMMETRY Symmetry
CHECK_DEADLOCK FALSE
