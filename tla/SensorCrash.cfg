SPECIFICATION Spec
CONSTANTS
  s1 = s1
  s2 = s2
  p1 = p1
  p2 = p2
  a = a
  b = b
  None = None
  Sensors = {a}
  Subs = {s1}
  Pushers = {p1}
  StartAts = {1}
  ClientTimes = {}
  Cap = 1
  MaxVals = 2
  MayFail = {s1}
INVARIANTS
  HubStaysUp
CHECK_DEADLOCK FALSE
