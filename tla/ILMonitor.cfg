\* Three threads and two objects; no wait for the monitor gives up.
CONSTANTS
  t1 = t1
  t2 = t2
  t3 = t3
  m1 = m1
  m2 = m2
  m3 = m3
  l1 = l1
  l2 = l2
  Threads = {t1, t2, t3}
  Monitors = {m1, m2, m3}
  Locations = {l1, l2}
  NoThread = NoThread
  NoMonitor = NoMonitor
  NoLocation = NoLocation
  MinFree = 1
  MaxFree = 2
  MaxDepth = 2
  MaxToken = 2
  UserLimit = 5
  GiveUps = {}
SPECIFICATION Spec
SYMMETRY Symmetry
INVARIANTS
  TypeOK
  OwnerIsClear
  InsideOwns
  UsersCounted
  FreeIsIdle
  OneHome
CHECK_DEADLOCK FALSE
