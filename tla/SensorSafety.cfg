SPECIFICATION Spec
CONSTANTS
  s1 = s1
  s2 = s2
  p1 = p1
  p2 = p2
  a = a
  b = b
  None = None
  Sensors = {a, b}
  Subs = {s1, s2}
  Pushers = {p1, p2}
  StartAts = {1, 3}
  ClientTimes = {1}
  Cap = 1
  MaxVals = 3
  MayFail = {s1}
INVARIANTS
  TypeOK
  ListsMatchChannels
  MutexMatchesFlags
  NothingLost
  
SYMMETRY Symmetry
CHECK_DEADLOCK FALSE
