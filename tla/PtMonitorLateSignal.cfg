\* An interrupt may land after the semaphore call has returned 0.
CONSTANTS
  t1 = t1
  t2 = t2
  t3 = t3
  Threads = {t1, t2, t3}
  Creator = t1
  NoThread = NoThread
  SignalWindows = {"blocked", "acquired"}
  WaitsTimeOut = TRUE
SPECIFICATION Spec
SYMMETRY Symmetry
INVARIANTS
  EnterTokenConserved
