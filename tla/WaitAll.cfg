\* ILWaitAll returns without all the mutexes.
CONSTANTS
  t1 = t1
  t2 = t2
  m1 = m1
  m2 = m2
  Threads = {t1, t2}
  Mutexes = {m1, m2}
  Events = {}
  NoThread = NoThread
  NoHandle = NoHandle
  ManualReset = {}
  Calls <- AllCalls
  Capacity = 13
  GrownCapacity = 29
  MaxCount = 1
  Disturbs = {}
  AllocFails = FALSE
SPECIFICATION Spec
INVARIANTS
  ReturnsOwned
CHECK_DEADLOCK FALSE
