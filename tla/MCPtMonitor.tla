----------------------------- MODULE MCPtMonitor -----------------------------
(* Instances of PtMonitor for TLC: the creator is one thread among three.  *)
EXTENDS PtMonitor, TLC

(* All threads but the creator are interchangeable.                        *)
Symmetry == Permutations(Threads \ {Creator})
=============================================================================
