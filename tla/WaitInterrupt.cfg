\* ILWaitOne leaves IL_TS_INTERRUPTED set.
CONSTANTS
  t1 = t1
  t2 = t2
  m1 = m1
  m2 = m2
  Threads = {t1, t2}
  Mutexes = {m1, m2}
  Events = {}
  NoThread = NoThread
  NoHandle = NoHandle
  ManualReset = {}
  Calls <- OneCalls
  Capacity = 13
  GrownCapacity = 29
  MaxCount = 1
  Disturbs = {"interrupt"}
  AllocFails = FALSE
SPECIFICATION Spec
PROPERTIES
  ClearsInterrupt
CHECK_DEADLOCK FALSE
