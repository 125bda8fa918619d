---- MODULE MCThreadSuspend ----
\* Threads as model values.
EXTENDS ThreadSuspend, TLC

CONSTANTS a, b, t

Symmetry == Permutations(Controllers)
====
