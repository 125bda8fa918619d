\* ILWaitOne with aborts: every wait for a mutex comes to its end.
CONSTANTS
  t1 = t1
  t2 = t2
  m1 = m1
  Threads = {t1, t2}
  Mutexes = {m1}
  Events = {}
  NoThread = NoThread
  NoHandle = NoHandle
  ManualReset = {}
  Calls <- OneCalls
  Capacity = 13
  GrownCapacity = 29
  MaxCount = 1
  Disturbs = {"timeout", "abort"}
  AllocFails = FALSE
SPECIFICATION FairSpec
PROPERTIES
  WaitReturns
CHECK_DEADLOCK FALSE
