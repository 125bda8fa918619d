\* A successful suspend keeps the target's monitor.
CONSTANTS
  a = a
  b = b
  t = t
  Controllers = {a, b}
  Target = t
  MaxCalls = 7
  MaxRounds = 4
  Nobody = Nobody
SPECIFICATION Spec
INVARIANTS
  MonitorOnlyInCalls
CHECK_DEADLOCK FALSE
