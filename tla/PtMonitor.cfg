\* Three threads, waits that time out and interrupts that hit a blocked wait.
CONSTANTS
  t1 = t1
  t2 = t2
  t3 = t3
  Threads = {t1, t2, t3}
  Creator = t1
  NoThread = NoThread
  SignalWindows = {"blocked"}
  WaitsTimeOut = TRUE
SPECIFICATION FairSpec
INVARIANTS
  TypeOK
  EnterTokenConserved
  WaitAccounting
  NoLostPulse
PROPERTIES
  AbsSpec
  CallsReturn
