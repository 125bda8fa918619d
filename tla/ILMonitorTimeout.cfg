\* A thread that waits for the monitor may time out.
CONSTANTS
  t1 = t1
  t2 = t2
  t3 = t3
  m1 = m1
  m2 = m2
  m3 = m3
  l1 = l1
  Threads = {t1, t2, t3}
  Monitors = {m1, m2, m3}
  Locations = {l1}
  NoThread = NoThread
  NoMonitor = NoMonitor
  NoLocation = NoLocation
  MinFree = 1
  MaxFree = 2
  MaxDepth = 2
  MaxToken = 2
  UserLimit = 5
  GiveUps = {"timeout"}
SPECIFICATION Spec
SYMMETRY Symmetry
INVARIANTS
  OwnerIsClear
CHECK_DEADLOCK FALSE
