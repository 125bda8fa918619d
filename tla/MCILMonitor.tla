----------------------------- MODULE MCILMonitor -----------------------------
(* Instances of ILMonitor for TLC.                                         *)
EXTENDS ILMonitor, TLC

(* Threads, monitors and locations are interchangeable.                    *)
Symmetry == Permutations(Threads) \cup Permutations(Monitors) \cup Permutations(Locations)
=============================================================================
