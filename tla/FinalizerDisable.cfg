\* A thread disables finalizers while the finalizer thread runs the last one.
CONSTANTS
  main = main
  c1 = c1
  Main = main
  Others = {c1}
  Objects = 2
  Ops <- MCOps
  MaxCalls = 3
SPECIFICATION Spec
INVARIANTS
  QuietWhileDisabled
CHECK_DEADLOCK FALSE
