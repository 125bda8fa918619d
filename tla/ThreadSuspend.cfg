\* Two controllers of one thread, which works, sleeps, calls native code,
\* suspends itself and ends.
CONSTANTS
  a = a
  b = b
  t = t
  Controllers = {a, b}
  Target = t
  MaxCalls = 7
  MaxRounds = 4
  Nobody = Nobody
SPECIFICATION Spec
SYMMETRY Symmetry
INVARIANTS
  TypeOK
  SuspendedHoldsNothing
  SuspendedIsStopped
  NoStaleAck
CHECK_DEADLOCK FALSE
