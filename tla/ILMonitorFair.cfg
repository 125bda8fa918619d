\* Progress and refinement: two threads, one object.
CONSTANTS
  t1 = t1
  t2 = t2
  m1 = m1
  m2 = m2
  l1 = l1
  Threads = {t1, t2}
  Monitors = {m1, m2}
  Locations = {l1}
  NoThread = NoThread
  NoMonitor = NoMonitor
  NoLocation = NoLocation
  MinFree = 1
  MaxFree = 2
  MaxDepth = 2
  MaxToken = 2
  UserLimit = 5
  GiveUps = {}
SPECIFICATION FairSpec
PROPERTIES
  AbsSpec
  EnterReturns
CHECK_DEADLOCK FALSE
