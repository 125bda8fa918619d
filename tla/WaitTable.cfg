\* The table of owned mutexes has grown: a thread ends and still owns a mutex.
CONSTANTS
  t1 = t1
  t2 = t2
  m1 = m1
  m2 = m2
  Threads = {t1, t2}
  Mutexes = {m1, m2}
  Events = {}
  NoThread = NoThread
  NoHandle = NoHandle
  ManualReset = {}
  Calls <- OneCalls
  Capacity = 1
  GrownCapacity = 2
  MaxCount = 1
  Disturbs = {}
  AllocFails = FALSE
SPECIFICATION Spec
SYMMETRY OneSymmetry
INVARIANTS
  DeadOwnsNothing
CHECK_DEADLOCK FALSE
