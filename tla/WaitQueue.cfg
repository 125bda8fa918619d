\* ILWaitOne on a mutex: two waiters in the queue, timeouts and interrupts.
CONSTANTS
  t1 = t1
  t2 = t2
  t3 = t3
  m1 = m1
  Threads = {t1, t2, t3}
  Mutexes = {m1}
  Events = {}
  NoThread = NoThread
  NoHandle = NoHandle
  ManualReset = {}
  Calls <- OneCalls
  Capacity = 13
  GrownCapacity = 29
  MaxCount = 2
  Disturbs = {"timeout", "interrupt"}
  AllocFails = FALSE
SPECIFICATION Spec
SYMMETRY Symmetry
INVARIANTS
  TypeOK
  HeldIsOwned
  TableExact
  NobodyStranded
CHECK_DEADLOCK FALSE
