\* An interrupt reaches a thread that has destroyed its wakeup.
CONSTANTS
  main = main
  w1 = w1
  w2 = w2
  Main = main
  Workers = {w1, w2}
  CanJoin <- MCCanJoin
  AnyBackground = FALSE
  MaxCalls = 2
  NoThread = NoThread
SPECIFICATION Spec
INVARIANTS
  WakeupNotNeeded
CHECK_DEADLOCK FALSE
