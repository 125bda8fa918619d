\* ILThreadSetBackground on a thread that is about to stop.
CONSTANTS
  main = main
  w1 = w1
  w2 = w2
  Main = main
  Workers = {w1, w2}
  CanJoin <- MCCanJoin
  AnyBackground = TRUE
  MaxCalls = 2
  NoThread = NoThread
SPECIFICATION Spec
INVARIANTS
  EventWhenAlone
CHECK_DEADLOCK FALSE
