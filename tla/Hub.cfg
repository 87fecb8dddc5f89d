SPECIFICATION FairSpec
CONSTANTS
  None = None
  g1 = g1
  a1 = a1
  a2 = a2
  c1 = c1
  Groups = {g1}
  Addrs = {a1, a2}
  Conns = {c1}
  Ops = {"send", "subscribe", "push", "read"}
  RecvCap = 1
  ProcCap = 1
  XmitCap = 1
  PushCap = 1
  DialCost = 4
  MaxWork = 6
  MaxFaults = 1
INVARIANTS
  TypeOK
  LogLosesLittle
  SendsExecuted
PROPERTIES
  
  
  CallersReturn
  DeadLinksEnd
CHECK_DEADLOCK FALSE
