\* The shutdown signals the finalizer thread between its check and its reset.
CONSTANTS
  main = main
  c1 = c1
  Main = main
  Others = {c1}
  Objects = 2
  Ops <- MCOps
  MaxCalls = 3
SPECIFICATION FairSpec
PROPERTIES
  FinalizerStops
CHECK_DEADLOCK FALSE
