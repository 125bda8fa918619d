\* The main thread and two workers that start, stop, join and interrupt.
CONSTANTS
  main = main
  w1 = w1
  w2 = w2
  Main = main
  Workers = {w1, w2}
  CanJoin <- MCCanJoin
  AnyBackground = FALSE
  MaxCalls = 2
  NoThread = NoThread
SPECIFICATION FairSpec
INVARIANTS
  TypeOK
  CountsExact
  FreedWhenUnused
  JoinTellsEnd
PROPERTIES
  ForegroundWaitReturns
CHECK_DEADLOCK FALSE
