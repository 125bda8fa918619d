\* A thread suspends itself twice and is resumed once.
CONSTANTS
  a = a
  b = b
  t = t
  Controllers = {a, b}
  Target = t
  MaxCalls = 7
  MaxRounds = 4
  Nobody = Nobody
SPECIFICATION Spec
INVARIANTS
  SleeperIsMarked
CHECK_DEADLOCK FALSE
