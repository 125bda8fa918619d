\* ILWaitAny and ILWaitAll on a mutex and an event, with interrupts.
CONSTANTS
  t1 = t1
  t2 = t2
  m1 = m1
  e1 = e1
  Threads = {t1, t2}
  Mutexes = {m1}
  Events = {e1}
  NoThread = NoThread
  NoHandle = NoHandle
  ManualReset = {}
  Calls <- ManyCalls
  Capacity = 1
  GrownCapacity = 2
  MaxCount = 1
  Disturbs = {"interrupt"}
  AllocFails = TRUE
SPECIFICATION Spec
SYMMETRY Symmetry
CONSTRAINT OneGrows
INVARIANTS
  NobodyStranded
  NoStaleItem
CHECK_DEADLOCK FALSE
