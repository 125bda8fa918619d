\* A sleep that an abort prevents leaves the thread marked as waiting.
CONSTANTS
  main = main
  w1 = w1
  w2 = w2
  Main = main
  Workers = {w1, w2}
  CanJoin <- MCCanJoin
  AnyBackground = FALSE
  MaxCalls = 2
  NoThread = NoThread
SPECIFICATION Spec
INVARIANTS
  WaitStateCleared
CHECK_DEADLOCK FALSE
