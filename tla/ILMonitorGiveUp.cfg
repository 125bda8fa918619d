\* Waits for the monitor may time out, be interrupted or be aborted.
CONSTANTS
  t1 = t1
  t2 = t2
  m1 = m1
  m2 = m2
  l1 = l1
  l2 = l2
  Threads = {t1, t2}
  Monitors = {m1, m2}
  Locations = {l1, l2}
  NoThread = NoThread
  NoMonitor = NoMonitor
  NoLocation = NoLocation
  MinFree = 1
  MaxFree = 2
  MaxDepth = 1
  MaxToken = 2
  UserLimit = 8
  GiveUps = {"timeout", "interrupt", "abort"}
SPECIFICATION Spec
SYMMETRY Symmetry
INVARIANTS
  StaysAttached
CHECK_DEADLOCK FALSE
