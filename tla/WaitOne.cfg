\* ILWaitOne on two mutexes: a table that grows, recursion, timeouts, interrupts.
CONSTANTS
  t1 = t1
  t2 = t2
  m1 = m1
  m2 = m2
  Threads = {t1, t2}
  Mutexes = {m1, m2}
  Events = {}
  NoThread = NoThread
  NoHandle = NoHandle
  ManualReset = {}
  Calls <- OneCalls
  Capacity = 1
  GrownCapacity = 2
  MaxCount = 2
  Disturbs = {"timeout", "interrupt"}
  AllocFails = FALSE
SPECIFICATION Spec
SYMMETRY OneSymmetry
CONSTRAINT OneGrows
INVARIANTS
  TypeOK
  HeldIsOwned
  TableExact
  NobodyStranded
CHECK_DEADLOCK FALSE
