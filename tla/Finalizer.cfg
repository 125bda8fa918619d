\* Two threads that disable finalizers, two objects, shutdown.
CONSTANTS
  main = main
  c1 = c1
  Main = main
  Others = {c1}
  Objects = 2
  Ops <- MCOps
  MaxCalls = 3
SPECIFICATION FairSpec
INVARIANTS
  TypeOK
  DisableHandshake
  SyncAlone
PROPERTIES
  WaitIsAnswered
CHECK_DEADLOCK FALSE
